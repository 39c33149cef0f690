-------------------------- MODULE FileTransProofs --------------------------
(***************************************************************************)
(* Theorems about file transfer, for every set of files, every chunk size  *)
(* and every width of the counters.                                        *)
(***************************************************************************)
EXTENDS FileTransInv, BytesProofs

-----------------------------------------------------------------------------
(* Types.                                                                  *)

(* The bytes that names and contents are made of are bytes.                 *)
LEMMA ByteType ==
    /\ NUL \in Byte /\ Junk \in Byte /\ Hole \in Byte
    /\ \A f \in Files : \A i \in 1..NameLen[f] : <<"name", f, i>> \in Byte
    /\ \A f \in Files : \A i \in 1..FileLen[f] : <<"data", f, i>> \in Byte
  <1>1. NUL \in Byte /\ Junk \in Byte /\ Hole \in Byte
    BY DEF Byte
  <1>2. ASSUME NEW f \in Files, NEW i \in 1..NameLen[f] PROVE <<"name", f, i>> \in Byte
    <2> DEFINE named(g) == {<<"name", g, k>> : k \in 1..NameLen[g]}
    <2>1. <<"name", f, i>> \in named(f)
      OBVIOUS
    <2>2. named(f) \in {named(g) : g \in Files}
      OBVIOUS
    <2>3. <<"name", f, i>> \in NameBytes
      BY <2>1, <2>2 DEF NameBytes
    <2> QED BY <2>3 DEF Byte
  <1>3. ASSUME NEW f \in Files, NEW i \in 1..FileLen[f] PROVE <<"data", f, i>> \in Byte
    <2> DEFINE dataOf(g) == {<<"data", g, k>> : k \in 1..FileLen[g]}
    <2>1. <<"data", f, i>> \in dataOf(f)
      OBVIOUS
    <2>2. dataOf(f) \in {dataOf(g) : g \in Files}
      OBVIOUS
    <2>3. <<"data", f, i>> \in DataBytes
      BY <2>1, <2>2 DEF DataBytes
    <2> QED BY <2>3 DEF Byte
  <1> QED BY <1>1, <1>2, <1>3

(* Counters stay below LongMod.                                             *)
LEMMA ULongType == \A n \in Int : ULong(n) \in Longs
  BY SizesAssumption DEF ULong, Longs

(* A chunk is no longer than what is left, and fits into a frame.           *)
LEMMA ChunkLenType ==
    \A n \in Nat : ChunkLen(n) \in 0..MaxAppData /\ ChunkLen(n) <= n /\ ChunkLen(n) \in Longs
  BY SizesAssumption DEF ChunkLen, Longs

(* The name of a file is a sequence of bytes.                               *)
LEMMA NameType ==
    ASSUME NEW f \in Files
    PROVE  /\ Name(f) \in Seq(Byte) /\ Len(Name(f)) = NameLen[f]
           /\ \A i \in 1..NameLen[f] : Name(f)[i] = <<"name", f, i>>
  BY ByteType, FilesAssumption DEF Name

(* SetHeader finds the name, and its NUL, at the start of the buffer.       *)
LEMMA NameBufferType ==
    ASSUME NEW f \in Files
    PROVE  /\ NameBuffer(f) \in [1..MaxAppData -> Byte]
           /\ \A i \in 1..NameLen[f] : NameBuffer(f)[i] = Name(f)[i]
           /\ NameBuffer(f)[NameLen[f] + 1] = NUL
  <1>1. /\ Append(Name(f), NUL) \in Seq(Byte)
        /\ Len(Append(Name(f), NUL)) = NameLen[f] + 1
        /\ \A i \in 1..NameLen[f] : Append(Name(f), NUL)[i] = Name(f)[i]
        /\ Append(Name(f), NUL)[NameLen[f] + 1] = NUL
    BY NameType, ByteType, AppendProperties
  <1>2. NameLen[f] \in Nat /\ MaxAppData \in Nat /\ NameLen[f] + 1 <= MaxAppData
    BY FilesAssumption, SizesAssumption
  <1>3. /\ NameBuffer(f) \in [1..MaxAppData -> Byte]
        /\ \A i \in 1..MaxAppData : NameBuffer(f)[i] =
              IF i <= NameLen[f] + 1 THEN Append(Name(f), NUL)[i] ELSE Junk
    <2> DEFINE buf == Append(Name(f), NUL)
    <2>1. buf \in Seq(Byte) /\ Len(buf) = NameLen[f] + 1 /\ Junk \in Byte
      BY <1>1, ByteType
    <2> HIDE DEF buf
    <2>2. /\ ReadBytes(buf, MaxAppData) \in [1..MaxAppData -> Byte]
          /\ \A i \in 1..MaxAppData : ReadBytes(buf, MaxAppData)[i] =
                IF i <= Len(buf) THEN buf[i] ELSE Junk
      BY <1>2, <2>1, ElementOfSeq DEF ReadBytes
    <2> QED BY <2>1, <2>2 DEF NameBuffer, buf
  <1> QED BY <1>1, <1>2, <1>3

(* SetHeader writes a header.                                               *)
LEMMA SetHeaderType ==
    ASSUME TypeOK, NEW len \in Longs, NEW type \in FrameTypes, NEW seq \in Longs, NEW src,
           \A i \in 1..ChunkLen(len) : src[i] \in Byte,
           SetHeader(len, type, seq, src)
    PROVE  /\ mHeader' \in [totlen : Longs, type : FrameTypes, seq : Longs,
                            data : [1..MaxAppData -> Byte]]
           /\ mHeader'.totlen = len /\ mHeader'.type = type /\ mHeader'.seq = seq
           /\ \A i \in 1..MaxAppData : mHeader'.data[i] =
                IF i <= ChunkLen(len) THEN src[i] ELSE mHeader.data[i]
  <1>1. ChunkLen(len) \in 0..MaxAppData
    BY ChunkLenType, SizesAssumption DEF Longs
  <1>2. mHeader.data \in [1..MaxAppData -> Byte] /\ MaxAppData \in Nat
    BY SizesAssumption DEF TypeOK
  <1>3. /\ Memcpy(mHeader.data, src, ChunkLen(len)) \in [1..MaxAppData -> Byte]
        /\ \A i \in 1..MaxAppData : Memcpy(mHeader.data, src, ChunkLen(len))[i] =
                IF i <= ChunkLen(len) THEN src[i] ELSE mHeader.data[i]
    <2>1. ChunkLen(len) \in Int
      BY <1>1, <1>2
    <2>2. \A i \in 1..MaxAppData : i <= ChunkLen(len) => src[i] \in Byte
      BY <1>2, <2>1
    <2>3. mHeader.data \in Seq(Byte) /\ Len(mHeader.data) = MaxAppData
      BY <1>2
    <2> QED BY <1>2, <2>1, <2>2, <2>3 DEF Memcpy
  <1> QED BY <1>3 DEF SetHeader

(* Send makes a frame of the header and the first n bytes of its data, and  *)
(* puts it on the wire or loses it.                                         *)
LEMMA SendType ==
    ASSUME TypeOK, NEW t \in Threads, NEW n \in 0..MaxAppData, Send(t, n)
    PROVE  /\ wire' \in Seq(Frame)
           /\ lost' \subseteq [job : Nat, type : FrameTypes, seq : Longs]
           /\ mHeader' = mHeader
           /\ \E m \in Frame :
                /\ m.totlen = mHeader.totlen /\ m.type = mHeader.type
                /\ m.seq = mHeader.seq /\ m.job = thread[t].job
                /\ Len(m.data) = n
                /\ \A i \in 1..n : m.data[i] = mHeader.data[i]
                /\ SentOrLost(m)
  <1> DEFINE frame == [totlen |-> mHeader.totlen, type |-> mHeader.type,
                       seq |-> mHeader.seq, data |-> SubSeq(mHeader.data, 1, n),
                       job |-> thread[t].job]
  <1>1. n \in Int /\ MaxAppData \in Nat /\ mHeader.data \in [1..MaxAppData -> Byte]
    BY SizesAssumption DEF TypeOK
  <1>2. /\ SubSeq(mHeader.data, 1, n) \in Seq(Byte)
        /\ Len(SubSeq(mHeader.data, 1, n)) = n
        /\ \A i \in 1..n : SubSeq(mHeader.data, 1, n)[i] = mHeader.data[i]
    <2>1. \A i \in 1..n : mHeader.data[i] \in Byte
      BY <1>1
    <2> QED BY <1>1, <2>1, SubSeqProperties
  <1>3. frame \in Frame
    BY <1>2 DEF TypeOK, Frame, Run
  <1>4. wire' \in Seq(Frame)
    <2>1. wire' = wire \/ wire' = Append(wire, frame)
      BY DEF Send
    <2>2. wire \in Seq(Frame)
      BY DEF TypeOK
    <2> HIDE DEF frame
    <2> QED BY <1>3, <2>1, <2>2, AppendProperties
  <1>5. lost' \subseteq [job : Nat, type : FrameTypes, seq : Longs]
    BY <1>3 DEF TypeOK, Send, Frame, Place
  <1>6. mHeader' = mHeader /\ SentOrLost(frame)
    BY DEF Send, SentOrLost, Place
  <1> QED BY <1>2, <1>3, <1>4, <1>5, <1>6

(* The frame Receive takes, and what is left on the wire.                   *)
LEMMA ReceivingType ==
    ASSUME TypeOK, NEW types, Receiving(types)
    PROVE  /\ Head(wire) \in Frame
           /\ wire' \in Seq(Frame)
           /\ UNCHANGED <<sendVars, lost>>
           /\ CString(Head(wire).data) \in Seq(Byte)
  <1>1. wire \in Seq(Frame) /\ wire # <<>>
    BY DEF TypeOK, Receiving
  <1>2. Head(wire) \in Frame /\ Tail(wire) \in Seq(Frame)
    BY <1>1, HeadTailProperties
  <1>3. Head(wire).data \in Seq(Byte)
    BY <1>2 DEF Frame
  <1> QED BY <1>2, <1>3, CStringType, ByteType DEF Receiving

(* Whatever FILE_SEND, Receive and the wire do, in any interleaving, the    *)
(* variables keep the types the code declares.                              *)
THEOREM Typing == Spec => []TypeOK
  <1>1. Init => TypeOK
    <2> SUFFICES ASSUME Init PROVE TypeOK
      OBVIOUS
    <2>1. Idle \in Run /\ Closed \in StoredFile
      BY SizesAssumption DEF Idle, Closed, Run, StoredFile, Longs
    <2>2. [i \in 1..MaxAppData |-> NUL] \in [1..MaxAppData -> Byte] /\ 0 \in Longs
      BY SizesAssumption, ByteType DEF Longs
    <2>3. mHeader \in [totlen : Longs, type : FrameTypes, seq : Longs,
                       data : [1..MaxAppData -> Byte]]
      BY <2>2 DEF Init, FrameTypes
    <2>4. /\ thread \in [Threads -> Run]
          /\ \A t \in Threads : thread[t].pc = "idle"
      <3>1. Idle.pc = "idle"
        BY DEF Idle
      <3> QED BY <2>1, <3>1 DEF Init
    <2>5. wire \in Seq(Frame) /\ jobs \in Seq(Files) /\ arrived \in Seq(StoredFile)
      BY DEF Init
    <2>6. lost \subseteq [job : Nat, type : FrameTypes, seq : Longs] /\ leaked \subseteq Seq(Byte)
          /\ down \subseteq {"sender", "receiver"} /\ box \in BOOLEAN
          /\ refused \subseteq Refusals
      BY DEF Init
    <2> QED BY <2>1, <2>3, <2>4, <2>5, <2>6 DEF Init, TypeOK
  <1>2. TypeOK /\ [Next]_vars => TypeOK'
    <2> SUFFICES ASSUME TypeOK, [Next]_vars PROVE TypeOK'
      OBVIOUS
    <2>0. MaxAppData \in Nat \ {0} /\ LongMod \in Nat /\ MaxAppData < LongMod
      BY SizesAssumption
    <2>1. CASE SelectFile
      BY <2>1 DEF SelectFile, TypeOK, recvVars
    <2>2. ASSUME NEW t \in Threads, SendFileButton(t) PROVE TypeOK'
      BY ZenonT(40), <2>2 DEF SendFileButton, TypeOK, recvVars, Run, At
    <2>3. ASSUME NEW t \in Threads, OpenSendFile(t) PROVE TypeOK'
      <3>1. FilePath \in Files
        BY <2>3 DEF OpenSendFile, TypeOK
      <3>2. ULong(FileLen[FilePath]) \in Longs /\ ULong(-1) \in Longs
        BY <3>1, ULongType, FilesAssumption
      <3>3. \A i \in 1..ChunkLen(ULong(FileLen[FilePath])) : NameBuffer(FilePath)[i] \in Byte
        <4>1. ChunkLen(ULong(FileLen[FilePath])) \in 0..MaxAppData
          BY <2>0, <3>2, ChunkLenType DEF Longs
        <4>2. NameBuffer(FilePath) \in [1..MaxAppData -> Byte]
          BY <3>1, NameBufferType
        <4> QED BY <2>0, <4>1, <4>2
      <3>4. SetHeader(ULong(FileLen[FilePath]), "FILE_INFO", ULong(-1), NameBuffer(FilePath))
        BY <2>3 DEF OpenSendFile
      <3>5. "FILE_INFO" \in FrameTypes
        BY DEF FrameTypes
      <3>6. mHeader' \in [totlen : Longs, type : FrameTypes, seq : Longs,
                          data : [1..MaxAppData -> Byte]]
        BY <3>2, <3>3, <3>4, <3>5, SetHeaderType
      <3>7. jobs' \in Seq(Files) /\ Len(jobs) \in Nat
        BY <2>3, <3>1, AppendProperties DEF OpenSendFile, TypeOK
      <3>8. /\ thread' \in [Threads -> Run]
            /\ \A s \in Threads : thread'[s].pc \notin {"idle", "open"} => thread'[s].file \in Files
        BY <2>3, <3>1, <3>2, <3>7 DEF OpenSendFile, TypeOK, Run
      <3> QED BY <2>3, <3>6, <3>7, <3>8 DEF OpenSendFile, TypeOK, recvVars
    <2>4. ASSUME NEW t \in Threads, SendFileFails(t) \/ SendFileRefused(t) PROVE TypeOK'
      BY <2>4 DEF SendFileFails, SendFileRefused, TypeOK, recvVars, sendVars
    <2>5. ASSUME NEW t \in Threads, SendInfo(t) PROVE TypeOK'
      <3>1. thread[t].file \in Files
        BY <2>5 DEF SendInfo, At, TypeOK
      <3>2. NameLen[thread[t].file] + 1 \in 0..MaxAppData
        BY <2>0, <3>1, FilesAssumption
      <3>3. wire' \in Seq(Frame) /\ lost' \subseteq [job : Nat, type : FrameTypes, seq : Longs] /\ mHeader' = mHeader
        BY <2>5, <3>2, SendType DEF SendInfo
      <3>4. /\ thread' \in [Threads -> Run]
            /\ \A s \in Threads : thread'[s].pc \notin {"idle", "open"} => thread'[s].file \in Files
        BY ZenonT(40), <2>5, <3>1 DEF SendInfo, TypeOK, Run
      <3> QED BY <2>5, <3>3, <3>4 DEF SendInfo, TypeOK, recvVars
    <2>6. ASSUME NEW t \in Threads, ReadChunk(t) PROVE TypeOK'
      <3> DEFINE th == thread[t]
                 n  == Min({MaxAppData, FileLen[th.file] - th.pos})
                 src == ReadBytes([i \in 1..n |-> <<"data", th.file, th.pos + i>>], MaxAppData)
      <3>1. th \in Run /\ th.file \in Files /\ th.pos < FileLen[th.file]
        BY <2>6 DEF ReadChunk, At, TypeOK
      <3>2. FileLen[th.file] \in Nat /\ th.pos \in Nat
        BY <3>1, FilesAssumption DEF Run
      <3>3. n \in Nat /\ n <= FileLen[th.file] - th.pos
        BY <2>0, <3>1, <3>2, MinOfTwo
      <3>4. [i \in 1..n |-> <<"data", th.file, th.pos + i>>] \in Seq(Byte)
        <4>1. \A i \in 1..n : <<"data", th.file, th.pos + i>> \in Byte
          BY <3>1, <3>2, <3>3, ByteType
        <4>2. [i \in 1..n |-> <<"data", th.file, th.pos + i>>] \in [1..n -> Byte]
          BY <4>1
        <4> HIDE DEF n, th
        <4> QED BY <3>3, <4>2
      <3>5. src \in [1..MaxAppData -> Byte]
        BY <2>0, <3>4, ByteType, ReadBytesType
      <3>6. /\ ChunkLen(th.total) \in Longs
            /\ \A i \in 1..ChunkLen(ChunkLen(th.total)) : src[i] \in Byte
        <4>1. th.total \in Nat
          BY <2>0, <3>1 DEF Run, Longs
        <4>2. ChunkLen(th.total) \in Longs /\ ChunkLen(th.total) \in Nat
          BY <2>0, <4>1, ChunkLenType
        <4>3. ChunkLen(ChunkLen(th.total)) \in 0..MaxAppData
          BY <4>2, ChunkLenType
        <4> HIDE DEF src
        <4> QED BY <2>0, <3>5, <4>2, <4>3
      <3>7. ULong(th.seq + 1) \in Longs /\ "FILE_MORE" \in FrameTypes
        BY <2>0, <3>1, ULongType DEF Run, Longs, FrameTypes
      <3>8. mHeader' \in [totlen : Longs, type : FrameTypes, seq : Longs,
                          data : [1..MaxAppData -> Byte]]
        <4>1. SetHeader(ChunkLen(th.total), "FILE_MORE", ULong(th.seq + 1), src)
          BY <2>6 DEF ReadChunk
        <4> QED BY <3>6, <3>7, <4>1, SetHeaderType
      <3>9. /\ thread' \in [Threads -> Run]
            /\ \A s \in Threads : thread'[s].pc \notin {"idle", "open"} => thread'[s].file \in Files
        <4>1. thread' = [thread EXCEPT ![t].pc = "more", ![t].seq = ULong(th.seq + 1),
                                       ![t].pos = th.pos + n]
          BY <2>6 DEF ReadChunk, TypeOK
        <4>2. th.pos + n \in Nat
          BY <3>2, <3>3
        <4> HIDE DEF n
        <4> QED BY <3>1, <3>7, <4>1, <4>2 DEF TypeOK, Run
      <3> QED BY <2>6, <3>8, <3>9 DEF ReadChunk, TypeOK, recvVars
    <2>7. ASSUME NEW t \in Threads, SendChunk(t) PROVE TypeOK'
      <3>1. thread[t] \in Run /\ thread[t].file \in Files
        BY <2>7 DEF SendChunk, At, TypeOK
      <3>2. ChunkLen(thread[t].total) \in 0..MaxAppData
        BY <2>0, <3>1, ChunkLenType DEF Run, Longs
      <3>3. wire' \in Seq(Frame) /\ lost' \subseteq [job : Nat, type : FrameTypes, seq : Longs] /\ mHeader' = mHeader
        BY <2>7, <3>2, SendType DEF SendChunk
      <3>4. ULong(thread[t].total - MaxAppData) \in Longs
        BY <2>0, <3>1, ULongType DEF Run, Longs
      <3>5. /\ thread' \in [Threads -> Run]
            /\ \A s \in Threads : thread'[s].pc \notin {"idle", "open"} => thread'[s].file \in Files
        <4>1. thread' = [thread EXCEPT ![t].pc = "read",
                                       ![t].total = ULong(thread[t].total - MaxAppData)]
          BY <2>7 DEF SendChunk, TypeOK
        <4> QED BY <3>1, <3>4, <4>1 DEF TypeOK, Run
      <3> QED BY <2>7, <3>3, <3>5 DEF SendChunk, TypeOK, recvVars
    <2>8. ASSUME NEW t \in Threads, ReadEnd(t) PROVE TypeOK'
      <3>1. thread[t] \in Run /\ thread[t].file \in Files
        BY <2>8 DEF ReadEnd, At, TypeOK
      <3>2. ULong(thread[t].seq + 1) \in Longs /\ "FILE_LAST" \in FrameTypes /\ 0 \in Longs
        BY <2>0, <3>1, ULongType DEF Run, Longs, FrameTypes
      <3>3. mHeader' \in [totlen : Longs, type : FrameTypes, seq : Longs,
                          data : [1..MaxAppData -> Byte]]
        <4>1. SetHeader(0, "FILE_LAST", ULong(thread[t].seq + 1), <<>>)
          BY <2>8 DEF ReadEnd
        <4>2. \A i \in 1..ChunkLen(0) : <<>>[i] \in Byte
          BY <2>0, ChunkLenType
        <4> QED BY <3>2, <4>1, <4>2, SetHeaderType
      <3>4. /\ thread' \in [Threads -> Run]
            /\ \A s \in Threads : thread'[s].pc \notin {"idle", "open"} => thread'[s].file \in Files
        <4>1. thread' = [thread EXCEPT ![t].pc = "last", ![t].seq = ULong(thread[t].seq + 1)]
          BY <2>8 DEF ReadEnd, TypeOK
        <4> QED BY <3>1, <3>2, <4>1 DEF TypeOK, Run
      <3> QED BY <2>8, <3>3, <3>4 DEF ReadEnd, TypeOK, recvVars
    <2>9. ASSUME NEW t \in Threads, SendLast(t) PROVE TypeOK'
      <3>1. wire' \in Seq(Frame) /\ lost' \subseteq [job : Nat, type : FrameTypes, seq : Longs] /\ mHeader' = mHeader
        BY <2>0, <2>9, SendType DEF SendLast
      <3>2. Idle \in Run
        BY <2>0 DEF Idle, Run, Longs
      <3>3. /\ thread' \in [Threads -> Run]
            /\ \A s \in Threads : thread'[s].pc \notin {"idle", "open"} => thread'[s].file \in Files
        BY <2>9, <3>2 DEF SendLast, TypeOK, Idle
      <3> QED BY <2>9, <3>1, <3>3 DEF SendLast, TypeOK, recvVars
    <2>10. CASE ReceiveInfo
      <3>1. /\ Head(wire) \in Frame /\ wire' \in Seq(Frame)
            /\ UNCHANGED <<sendVars, lost>> /\ CString(Head(wire).data) \in Seq(Byte)
        BY <2>10, ReceivingType DEF ReceiveInfo
      <3>2. [i \in 1..Head(wire).totlen |-> Hole] \in Seq(Byte)
        BY SMTT(30), <2>0, <3>1, ByteType DEF Frame, Longs
      <3>3. WriteFile' \in StoredFile
        BY <2>10, <3>1, <3>2 DEF ReceiveInfo, StoredFile
      <3>4. leaked' \subseteq Seq(Byte)
        BY <2>10 DEF ReceiveInfo, Leak, TypeOK, StoredFile
      <3> QED BY <2>10, <3>1, <3>3, <3>4 DEF ReceiveInfo, TypeOK, sendVars
    <2>11. CASE ReceiveInfoFails
      <3>1. wire' \in Seq(Frame) /\ UNCHANGED <<sendVars, lost>>
        BY <2>11, ReceivingType DEF ReceiveInfoFails
      <3>2. Closed \in StoredFile
        BY DEF Closed, StoredFile
      <3>3. leaked' \subseteq Seq(Byte)
        BY <2>11 DEF ReceiveInfoFails, Leak, TypeOK, StoredFile
      <3> QED BY <2>11, <3>1, <3>2, <3>3 DEF ReceiveInfoFails, TypeOK, sendVars
    <2>17. CASE ReceiveInfoRefused
      <3>1. wire' \in Seq(Frame) /\ UNCHANGED <<sendVars, lost>>
            /\ CString(Head(wire).data) \in Seq(Byte)
        BY <2>17, ReceivingType DEF ReceiveInfoRefused
      <3>2. WriteFile' \in StoredFile
        <4>1. Closed \in StoredFile
          BY DEF Closed, StoredFile
        <4>2. [name |-> CString(Head(wire).data), bytes |-> <<>>] \in StoredFile
          BY <3>1 DEF StoredFile
        <4> QED BY <2>17, <4>1, <4>2 DEF ReceiveInfoRefused
      <3>3. leaked' \subseteq Seq(Byte)
        BY <2>17 DEF ReceiveInfoRefused, Leak, TypeOK, StoredFile
      <3>4. refused' \subseteq Refusals
        BY <2>17 DEF ReceiveInfoRefused, Refuses, TypeOK
      <3> QED BY <2>17, <3>1, <3>2, <3>3, <3>4 DEF ReceiveInfoRefused, TypeOK, sendVars
    <2>18. CASE ReceiveMoreRefused
      <3>1. wire' \in Seq(Frame) /\ UNCHANGED <<sendVars, lost>>
        BY <2>18, ReceivingType DEF ReceiveMoreRefused
      <3>2. refused' \subseteq Refusals
        BY <2>18 DEF ReceiveMoreRefused, Refuses, TypeOK
      <3> QED BY <2>18, <3>1, <3>2 DEF ReceiveMoreRefused, TypeOK, sendVars
    <2>12. CASE ReceiveMore
      <3>1. Head(wire) \in Frame /\ wire' \in Seq(Frame) /\ UNCHANGED <<sendVars, lost>>
        BY <2>12, ReceivingType DEF ReceiveMore
      <3>2. ReadBytes(Head(wire).data, Head(wire).totlen) \in Seq(Byte)
        <4>1. Head(wire).data \in Seq(Byte) /\ Head(wire).totlen \in Nat
          BY <2>0, <3>1 DEF Frame, Longs
        <4> QED BY <4>1, ByteType, ReadBytesType
      <3>3. ULong(Head(wire).seq * MaxAppData) \in Nat
        <4>1. Head(wire).seq \in Nat
          BY <2>0, <3>1 DEF Frame, Longs
        <4>2. Head(wire).seq * MaxAppData \in Int
          BY <2>0, <4>1
        <4> QED BY <2>0, <4>2, ULongType DEF Longs
      <3>4. WriteFile' \in StoredFile
        <4>1. WriteFile.bytes \in Seq(Byte)
          BY DEF TypeOK, StoredFile
        <4>2. WriteAt(WriteFile.bytes, ULong(Head(wire).seq * MaxAppData),
                      ReadBytes(Head(wire).data, Head(wire).totlen)) \in Seq(Byte)
          BY <3>2, <3>3, <4>1, ByteType, WriteAtType
        <4> QED BY <2>12, <4>2 DEF ReceiveMore, TypeOK, StoredFile
      <3> QED BY <2>12, <3>1, <3>4 DEF ReceiveMore, TypeOK, sendVars
    <2>13. CASE ReceiveMoreFails
      <3>1. wire' \in Seq(Frame) /\ UNCHANGED <<sendVars, lost>>
        BY <2>13, ReceivingType DEF ReceiveMoreFails
      <3> QED BY <2>13, <3>1 DEF ReceiveMoreFails, TypeOK, sendVars, recvVars
    <2>14. CASE ReceiveLast
      <3>1. wire' \in Seq(Frame) /\ UNCHANGED <<sendVars, lost>>
        BY <2>14, ReceivingType DEF ReceiveLast
      <3>2. Closed \in StoredFile
        BY DEF Closed, StoredFile
      <3>3. arrived' \in Seq(StoredFile)
        BY <2>14, AppendProperties DEF ReceiveLast, TypeOK
      <3> QED BY <2>14, <3>1, <3>2, <3>3 DEF ReceiveLast, TypeOK, sendVars
    <2>15. CASE Dismiss
      BY <2>15 DEF Dismiss, TypeOK, sendVars
    <2>16. CASE UNCHANGED vars
      BY <2>16 DEF vars, TypeOK
    <2> QED BY <2>1, <2>2, <2>3, <2>4, <2>5, <2>6, <2>7, <2>8, <2>9, <2>10, <2>11,
               <2>12, <2>13, <2>14, <2>15, <2>16, <2>17, <2>18 DEF Next, FileSend, Receive
  <1> QED BY <1>1, <1>2, PTL DEF Spec

-----------------------------------------------------------------------------
(* Arithmetic of sequence numbers.                                         *)

(* The place of a chunk in its file grows by a chunk per number.            *)
LEMMA Times ==
    ASSUME NEW q \in Nat, NEW m \in Nat \ {0}
    PROVE  (q + 1) * m = q * m + m /\ q * m \in Nat /\ q <= q * m
  <1>1. (q + 1) * m = q * m + m /\ q * m \in Nat
    OBVIOUS
  <1>2. m = (m - 1) + 1 /\ m - 1 \in Nat
    OBVIOUS
  <1>3. q * m = q * (m - 1) + q
    BY <1>2
  <1>4. q * (m - 1) \in Nat
    BY <1>2
  <1> QED BY <1>1, <1>3, <1>4

(* What 32 bits hold is not changed by them; -1 is the greatest value.      *)
LEMMA ULongSmall ==
    /\ \A n \in 0..LongMod-1 : ULong(n) = n
    /\ ULong(-1) = LongMod - 1
    /\ ULong(LongMod) = 0
  BY SizesAssumption DEF ULong

-----------------------------------------------------------------------------
(* The sender, whatever the wire does.                                     *)

(* FILE_SEND opens the file and fills mHeader with its FILE_INFO.           *)
LEMMA OpenStep ==
    ASSUME NEW t, OneRun(t), TypeOK, Sends(thread[t], mHeader, jobs), OpenSendFile(t)
    PROVE  Sends(thread'[t], mHeader', jobs') /\ OpensNext(t)
  <1> DEFINE f == FilePath
  <1>1. t \in Threads /\ f \in Files /\ thread[t].pc = "open"
    BY DEF OneRun, OpenSendFile, At, TypeOK
  <1>2. /\ MaxAppData \in Nat \ {0} /\ LongMod \in Nat /\ MaxAppData < LongMod
        /\ NameLen[f] \in Nat \ {0} /\ FileLen[f] \in Nat /\ NameLen[f] < MaxAppData
        /\ FileLen[f] < LongMod
    BY <1>1, SizesAssumption, FilesAssumption DEF OneRun
  <1>3. ULong(FileLen[f]) = FileLen[f] /\ ULong(-1) = LongMod - 1
    BY <1>2, ULongSmall
  <1>4. jobs \in Seq(Files) /\ jobs' = Append(jobs, f)
    BY DEF TypeOK, OpenSendFile
  <1>5. /\ Len(jobs) \in Nat /\ Len(jobs') = Len(jobs) + 1 /\ jobs'[Len(jobs')] = f
        /\ \A k \in 1..Len(jobs) : jobs'[k] = jobs[k]
    BY <1>1, <1>4, AppendProperties, LenProperties
  <1>6. thread'[t] = [pc |-> "info", file |-> f, job |-> Len(jobs) + 1,
                      total |-> FileLen[f], seq |-> LongMod - 1, pos |-> 0]
    BY <1>1, <1>3 DEF OpenSendFile, TypeOK
  <1>7. /\ mHeader'.type = "FILE_INFO" /\ mHeader'.totlen = FileLen[f]
        /\ ~Short(f) => \A i \in 1..NameLen[f]+1 : mHeader'.data[i] = NameBuffer(f)[i]
    <2>1. /\ ChunkLen(FileLen[f]) \in 0..MaxAppData
          /\ ~Short(f) => NameLen[f] + 1 <= ChunkLen(FileLen[f])
      BY <1>2 DEF ChunkLen, Short
    <2>2. NameBuffer(f) \in [1..MaxAppData -> Byte]
      BY <1>1, NameBufferType
    <2>3. \A i \in 1..ChunkLen(FileLen[f]) : NameBuffer(f)[i] \in Byte
      BY <1>2, <2>1, <2>2
    <2>4. SetHeader(FileLen[f], "FILE_INFO", LongMod - 1, NameBuffer(f))
      BY <1>3 DEF OpenSendFile
    <2>5. FileLen[f] \in Longs /\ LongMod - 1 \in Longs /\ "FILE_INFO" \in FrameTypes
      BY <1>2 DEF Longs, FrameTypes
    <2>6. /\ mHeader'.type = "FILE_INFO" /\ mHeader'.totlen = FileLen[f]
          /\ \A i \in 1..MaxAppData : mHeader'.data[i] =
                IF i <= ChunkLen(FileLen[f]) THEN NameBuffer(f)[i] ELSE mHeader.data[i]
      BY <2>3, <2>4, <2>5, SetHeaderType
    <2> QED BY <1>2, <2>1, <2>6
  <1>8. CarriesName(mHeader', f)
    BY SMTT(30), <1>1, <1>2, <1>7, NameBufferType DEF CarriesName
  <1>9. Sends(thread'[t], mHeader', jobs')
    BY <1>5, <1>6, <1>7, <1>8 DEF Sends
  <1>10. NextOut(thread'[t], jobs') = NextOut(thread[t], jobs)
    BY <1>1, <1>5, <1>6 DEF NextOut
  <1>11. UNCHANGED <<wire, lost>>
    BY DEF OpenSendFile
  <1> QED BY <1>1, <1>4, <1>9, <1>10, <1>11 DEF OpensNext

(* FILE_INFO goes out, whole name and NUL.                                  *)
LEMMA SendInfoStep ==
    ASSUME NEW t, OneRun(t), TypeOK, Sends(thread[t], mHeader, jobs), SendInfo(t)
    PROVE  /\ Sends(thread'[t], mHeader', jobs')
           /\ \E m \in Frame : MakesFrame(t, m)
  <1> DEFINE f == thread[t].file
  <1>1. /\ t \in Threads /\ thread[t].pc = "info" /\ thread[t] \in Run /\ f \in Files
        /\ jobs \in Seq(Files) /\ Len(jobs) \in Nat
    BY LenProperties DEF OneRun, SendInfo, At, TypeOK
  <1>2. /\ MaxAppData \in Nat \ {0} /\ LongMod \in Nat /\ MaxAppData < LongMod
        /\ NameLen[f] \in Nat \ {0} /\ FileLen[f] \in Nat /\ NameLen[f] < MaxAppData
    BY <1>1, SizesAssumption, FilesAssumption DEF OneRun
  <1>3. /\ thread[t].job = Len(jobs) /\ Len(jobs) > 0 /\ f = jobs[Len(jobs)]
        /\ thread[t].seq = LongMod - 1 /\ thread[t].pos = 0 /\ thread[t].total = FileLen[f]
        /\ mHeader.type = "FILE_INFO" /\ CarriesName(mHeader, f)
    BY <1>1 DEF Sends
  <1>4. NameLen[f] + 1 \in 0..MaxAppData
    BY <1>2
  <1>5. mHeader' = mHeader
    BY <1>4, <1>1, SendType DEF SendInfo
  <1>6. PICK m \in Frame :
          /\ SentOrLost(m)
          /\ m.totlen = mHeader.totlen /\ m.type = mHeader.type
          /\ m.seq = mHeader.seq /\ m.job = thread[t].job
          /\ Len(m.data) = NameLen[f] + 1
          /\ \A i \in 1..NameLen[f] + 1 : m.data[i] = mHeader.data[i]
    BY <1>4, <1>1, SendType DEF SendInfo
  <1>7. CarriesName(m, f)
    <2> HIDE DEF f
    <2>1. \A i \in 1..NameLen[f] : i \in 1..NameLen[f]+1 /\ m.data[i] = mHeader.data[i]
      BY <1>2, <1>6
    <2>2. m.data[NameLen[f]+1] = mHeader.data[NameLen[f]+1]
      BY <1>2, <1>6
    <2> QED BY <1>3, <1>6, <2>1, <2>2 DEF CarriesName
  <1>8. GoodFrame(m, jobs)
    BY <1>1, <1>3, <1>6, <1>7 DEF GoodFrame
  <1>9. thread'[t] = [thread[t] EXCEPT !.pc = "read"]
    BY <1>1 DEF SendInfo, TypeOK
  <1>10. ULong(thread[t].seq + 1) = 0
    <2>1. thread[t].seq + 1 = LongMod
      BY <1>2, <1>3
    <2> QED BY <2>1, ULongSmall
  <1>11. /\ thread'[t].pc = "read" /\ thread'[t].file = f /\ thread'[t].job = Len(jobs)
         /\ thread'[t].seq = thread[t].seq /\ thread'[t].pos = 0 /\ thread'[t].total = FileLen[f]
    BY <1>1, <1>3, <1>9 DEF Run
  <1>12. NextOut(thread'[t], jobs) =
            Place(Len(jobs), IF FileLen[f] > 0 THEN "FILE_MORE" ELSE "FILE_LAST", 0)
    BY <1>2, <1>10, <1>11 DEF NextOut
  <1>13. NextOut(thread[t], jobs) = Place(Len(jobs), "FILE_INFO", 0)
    BY <1>1 DEF NextOut
  <1>14. PlaceOf(m) = NextOut(thread[t], jobs)
    BY <1>3, <1>6, <1>13 DEF PlaceOf
  <1>15. Follows(NextOut(thread[t], jobs), NextOut(thread'[t], jobs), jobs)
    BY <1>2, <1>3, <1>12, <1>13 DEF Follows, Place
  <1>16. Sends(thread'[t], mHeader', jobs)
    <2>1. /\ 0 = ULong(thread'[t].seq + 1) * MaxAppData
          /\ 0 < FileLen[f] \/ 0 = FileLen[f]
          /\ FileLen[f] = FileLen[f] - 0
      BY <1>2, <1>10, <1>11
    <2> QED BY <1>3, <1>11, <2>1 DEF Sends
  <1> QED BY <1>6, <1>8, <1>14, <1>15, <1>16 DEF SendInfo, MakesFrame

(* A chunk is read and becomes the next FILE_MORE frame.                    *)
LEMMA ReadChunkStep ==
    ASSUME NEW t, OneRun(t), TypeOK, Sends(thread[t], mHeader, jobs), ReadChunk(t)
    PROVE  Sends(thread'[t], mHeader', jobs') /\ Quiet(t)
  <1> DEFINE th == thread[t]
             f  == th.file
             q  == ULong(th.seq + 1)
             n  == Min({MaxAppData, FileLen[f] - th.pos})
             src == ReadBytes([i \in 1..n |-> <<"data", f, th.pos + i>>], MaxAppData)
  <1>1. /\ t \in Threads /\ th.pc = "read" /\ th \in Run /\ f \in Files
        /\ th.pos < FileLen[f]
    BY DEF OneRun, ReadChunk, At, TypeOK
  <1>2. /\ MaxAppData \in Nat \ {0} /\ LongMod \in Nat /\ MaxAppData < LongMod
        /\ FileLen[f] \in Nat /\ FileLen[f] < LongMod /\ th.pos \in Nat /\ th.seq \in Nat
    BY <1>1, SizesAssumption, FilesAssumption DEF OneRun, Run, Longs
  <1>3. /\ th.job = Len(jobs) /\ Len(jobs) > 0 /\ f = jobs[Len(jobs)]
        /\ th.pos = q * MaxAppData /\ th.total = FileLen[f] - th.pos
    BY <1>1, <1>2 DEF Sends
  <1>4. q \in Longs /\ q \in Nat
    BY <1>2, ULongType DEF Longs
  <1>5. th.total \in 1..LongMod-1 /\ n = ChunkLen(th.total) /\ n \in 1..MaxAppData
    <2>1. th.total \in 1..LongMod-1
      BY <1>1, <1>2, <1>3
    <2>2. n = IF MaxAppData <= FileLen[f] - th.pos THEN MaxAppData ELSE FileLen[f] - th.pos
      BY <1>2, MinOfTwo
    <2> QED BY <1>2, <1>3, <2>1, <2>2 DEF ChunkLen
  <1> HIDE DEF n
  <1>6. /\ [i \in 1..n |-> <<"data", f, th.pos + i>>] \in Seq(Byte)
        /\ Len([i \in 1..n |-> <<"data", f, th.pos + i>>]) = n
    <2>1. n <= FileLen[f] - th.pos /\ n \in Nat
      BY <1>2, <1>3, <1>5 DEF ChunkLen
    <2>2. \A i \in 1..n : <<"data", f, th.pos + i>> \in Byte
      BY <1>1, <1>2, <2>1, ByteType
    <2>3. [i \in 1..n |-> <<"data", f, th.pos + i>>] \in [1..n -> Byte]
      BY <2>2
    <2> HIDE DEF th
    <2> QED BY <2>1, <2>3
  <1>7. /\ src \in [1..MaxAppData -> Byte]
        /\ \A i \in 1..n : src[i] = <<"data", f, th.pos + i>>
    <2> DEFINE chunk == [i \in 1..n |-> <<"data", f, th.pos + i>>]
    <2>1. chunk \in Seq(Byte) /\ Len(chunk) = n /\ Junk \in Byte
      BY <1>6, ByteType
    <2>2. \A i \in 1..n : chunk[i] = <<"data", f, th.pos + i>>
      OBVIOUS
    <2> HIDE DEF chunk
    <2>3. /\ ReadBytes(chunk, MaxAppData) \in [1..MaxAppData -> Byte]
          /\ \A i \in 1..MaxAppData : ReadBytes(chunk, MaxAppData)[i] =
                IF i <= Len(chunk) THEN chunk[i] ELSE Junk
      BY <1>2, <2>1, ElementOfSeq DEF ReadBytes
    <2>4. /\ ReadBytes(chunk, MaxAppData) \in [1..MaxAppData -> Byte]
          /\ \A i \in 1..n : ReadBytes(chunk, MaxAppData)[i] = <<"data", f, th.pos + i>>
      <3>1. \A i \in 1..n : i \in 1..MaxAppData /\ i <= Len(chunk)
        BY <1>2, <1>5, <2>1
      <3> QED BY <2>2, <2>3, <3>1
    <2> QED BY <2>4 DEF chunk
  <1>8. SetHeader(ChunkLen(th.total), "FILE_MORE", q, src)
    BY DEF ReadChunk, n
  <1> HIDE DEF src, q, th
  <1>9. /\ ChunkLen(th.total) \in Longs
        /\ ChunkLen(ChunkLen(th.total)) = n
        /\ \A i \in 1..ChunkLen(ChunkLen(th.total)) : src[i] \in Byte
    <2>1. ChunkLen(ChunkLen(th.total)) = n
      BY <1>2, <1>5 DEF ChunkLen
    <2>2. n \in Longs
      BY <1>2, <1>5 DEF Longs
    <2> QED BY <1>2, <1>5, <1>7, <2>1, <2>2
  <1>10. /\ mHeader'.totlen = n /\ mHeader'.type = "FILE_MORE" /\ mHeader'.seq = q
         /\ \A i \in 1..MaxAppData : mHeader'.data[i] = IF i <= n THEN src[i] ELSE mHeader.data[i]
    <2>1. "FILE_MORE" \in FrameTypes
      BY DEF FrameTypes
    <2> QED BY <1>4, <1>5, <1>8, <1>9, <2>1, SetHeaderType
  <1>11. CarriesChunk(mHeader', f)
    <2>1. \A i \in 1..n : mHeader'.data[i] = <<"data", f, q * MaxAppData + i>>
      <3>1. \A i \in 1..n : i \in 1..MaxAppData /\ i <= n
        BY <1>2, <1>5
      <3>2. \A i \in 1..n : mHeader'.data[i] = <<"data", f, th.pos + i>>
        BY <1>7, <1>10, <3>1
      <3> QED BY <1>3, <3>2
    <2> QED BY <1>1, <1>3, <1>5, <1>10, <2>1 DEF CarriesChunk
  <1>12. thread'[t] = [th EXCEPT !.pc = "more", !.seq = q, !.pos = th.pos + n]
    BY <1>1 DEF ReadChunk, TypeOK, th, q, n
  <1>13. /\ thread'[t].pc = "more" /\ thread'[t].seq = q /\ thread'[t].pos = th.pos + n
         /\ thread'[t].file = f /\ thread'[t].job = Len(jobs) /\ thread'[t].total = th.total
    BY <1>1, <1>3, <1>12 DEF Run
  <1>14. Sends(thread'[t], mHeader', jobs)
    BY <1>3, <1>5, <1>10, <1>11, <1>13 DEF Sends
  <1>15. NextOut(thread'[t], jobs) = NextOut(thread[t], jobs)
    <2>1. NextOut(th, jobs) = Place(Len(jobs), "FILE_MORE", q)
      BY <1>1 DEF NextOut, q
    <2>2. NextOut(thread'[t], jobs) = Place(Len(jobs), "FILE_MORE", q)
      BY <1>13 DEF NextOut
    <2> QED BY <2>1, <2>2 DEF th
  <1>16. UNCHANGED <<wire, lost, jobs>>
    BY DEF ReadChunk
  <1> QED BY <1>14, <1>15, <1>16 DEF Quiet

(* The chunk goes out and totallength counts it down.                       *)
LEMMA SendChunkStep ==
    ASSUME NEW t, OneRun(t), TypeOK, Sends(thread[t], mHeader, jobs), SendChunk(t)
    PROVE  /\ Sends(thread'[t], mHeader', jobs')
           /\ \E m \in Frame : MakesFrame(t, m)
  <1> DEFINE th == thread[t]
             f  == th.file
             q  == th.seq
             n  == ChunkLen(th.total)
  <1>1. /\ t \in Threads /\ th.pc = "more" /\ th \in Run /\ f \in Files
        /\ jobs \in Seq(Files) /\ Len(jobs) \in Nat
    BY LenProperties DEF OneRun, SendChunk, At, TypeOK
  <1>2. /\ MaxAppData \in Nat \ {0} /\ LongMod \in Nat /\ MaxAppData < LongMod
        /\ FileLen[f] \in Nat /\ FileLen[f] < LongMod /\ q \in Nat /\ th.total \in Nat
    BY <1>1, SizesAssumption, FilesAssumption DEF OneRun, Run, Longs
  <1>3. /\ th.job = Len(jobs) /\ Len(jobs) > 0 /\ f = jobs[Len(jobs)]
        /\ th.total = FileLen[f] - q * MaxAppData
        /\ th.pos = q * MaxAppData + n
        /\ mHeader.type = "FILE_MORE" /\ mHeader.seq = q /\ CarriesChunk(mHeader, f)
    BY <1>1 DEF Sends
  <1>4. /\ q * MaxAppData < FileLen[f] /\ mHeader.totlen = n
        /\ \A i \in 1..n : mHeader.data[i] = <<"data", f, q * MaxAppData + i>>
    BY <1>3 DEF CarriesChunk
  <1>5. (q + 1) * MaxAppData = q * MaxAppData + MaxAppData /\ q * MaxAppData \in Nat
    BY <1>2, Times
  <1>6. n \in 0..MaxAppData
    BY <1>2, ChunkLenType
  <1>7. Send(t, n)
    BY DEF SendChunk
  <1>8. thread'[t] = [th EXCEPT !.pc = "read", !.total = ULong(th.total - MaxAppData)]
    BY <1>1 DEF SendChunk, TypeOK
  <1>9. /\ thread'[t].pc = "read" /\ thread'[t].seq = q /\ thread'[t].pos = th.pos
        /\ thread'[t].file = f /\ thread'[t].job = Len(jobs)
        /\ thread'[t].total = ULong(th.total - MaxAppData)
    BY <1>1, <1>3, <1>8 DEF Run
  <1>10. NextOut(th, jobs) = Place(Len(jobs), "FILE_MORE", q)
    BY <1>1 DEF NextOut
  <1> HIDE DEF n, q, f, th
  <1>11. mHeader' = mHeader
    BY <1>6, <1>7, <1>1, SendType
  <1>12. PICK m \in Frame :
          /\ SentOrLost(m)
          /\ m.totlen = mHeader.totlen /\ m.type = mHeader.type
          /\ m.seq = mHeader.seq /\ m.job = th.job
          /\ Len(m.data) = n
          /\ \A i \in 1..n : m.data[i] = mHeader.data[i]
    BY <1>6, <1>7, <1>1, SendType DEF th
  <1>13. CarriesChunk(m, f)
    BY <1>3, <1>4, <1>12 DEF CarriesChunk
  <1>14. GoodFrame(m, jobs)
    BY <1>1, <1>3, <1>4, <1>12, <1>13 DEF GoodFrame
  <1>15. PlaceOf(m) = NextOut(th, jobs)
    BY <1>3, <1>10, <1>12 DEF PlaceOf
  <1>16. /\ Follows(NextOut(th, jobs), NextOut(thread'[t], jobs), jobs)
         /\ Sends(thread'[t], mHeader', jobs)
    <2>1. CASE th.total > MaxAppData
      <3>1. /\ n = MaxAppData /\ th.pos = (q + 1) * MaxAppData /\ th.pos < FileLen[f]
            /\ th.pos \in Nat
        BY <1>2, <1>3, <1>5, <2>1 DEF ChunkLen, n
      <3>2. q + 1 \in 0..LongMod-1
        <4>1. q + 1 <= (q + 1) * MaxAppData
          BY <1>2, Times
        <4> QED BY <1>2, <3>1, <4>1
      <3>3. ULong(q + 1) = q + 1
        BY <3>2, ULongSmall
      <3>4. thread'[t].total = FileLen[f] - thread'[t].pos
        <4>1. th.total - MaxAppData \in 0..LongMod-1
          <5>1. th.total <= FileLen[f] /\ th.total \in Nat
            BY <1>2, <1>3, <1>5
          <5>2. th.total < LongMod /\ th.total > MaxAppData
            BY <1>2, <2>1, <5>1
          <5> QED BY <1>2, <5>1, <5>2
        <4>2. thread'[t].total = th.total - MaxAppData
          BY <1>9, <4>1, ULongSmall
        <4> QED BY <1>2, <1>3, <1>5, <1>9, <3>1, <4>2
      <3>5. NextOut(thread'[t], jobs) = Place(Len(jobs), "FILE_MORE", q + 1)
        BY <1>9, <3>1, <3>3 DEF NextOut
      <3>6. Follows(NextOut(th, jobs), NextOut(thread'[t], jobs), jobs)
        BY <1>3, <1>10, <3>1, <3>5 DEF Follows, Place
      <3>7. Sends(thread'[t], mHeader', jobs)
        BY <1>3, <1>9, <3>1, <3>3, <3>4 DEF Sends
      <3> QED BY <3>6, <3>7
    <2>2. CASE ~ (th.total > MaxAppData)
      <3>0. n = th.total
        BY <2>2 DEF ChunkLen, n
      <3>1. /\ th.pos = FileLen[f] /\ (q + 1) * MaxAppData >= FileLen[f]
        <4> DEFINE at   == q * MaxAppData
                   next == (q + 1) * MaxAppData
                   len  == FileLen[f]
        <4>1. /\ at \in Nat /\ len \in Nat /\ MaxAppData \in Nat
              /\ th.total = len - at /\ th.pos = at + th.total
              /\ next = at + MaxAppData /\ ~ (th.total > MaxAppData)
          BY <1>2, <1>3, <1>5, <2>2, <3>0
        <4> HIDE DEF at, next, len
        <4>2. th.pos = len /\ next >= len
          BY <4>1
        <4> QED BY <4>2 DEF len, next
      <3>2. NextOut(thread'[t], jobs) = Place(Len(jobs), "FILE_LAST", 0)
        BY <1>2, <1>9, <3>1 DEF NextOut
      <3>3. Follows(NextOut(th, jobs), NextOut(thread'[t], jobs), jobs)
        BY <1>3, <1>10, <3>1, <3>2 DEF Follows, Place
      <3>4. Sends(thread'[t], mHeader', jobs)
        BY <1>3, <1>9, <3>1 DEF Sends
      <3> QED BY <3>3, <3>4
    <2> QED BY <2>1, <2>2
  <1> QED BY <1>12, <1>14, <1>15, <1>16 DEF SendChunk, MakesFrame, th

(* At the end of the file mHeader becomes FILE_LAST.                        *)
LEMMA ReadEndStep ==
    ASSUME NEW t, OneRun(t), TypeOK, Sends(thread[t], mHeader, jobs), ReadEnd(t)
    PROVE  Sends(thread'[t], mHeader', jobs') /\ Quiet(t)
  <1>1. /\ t \in Threads /\ thread[t].pc = "read" /\ thread[t] \in Run
        /\ thread[t].file \in Files /\ thread[t].pos = FileLen[thread[t].file]
    BY DEF OneRun, ReadEnd, At, TypeOK
  <1>2. thread[t].pos \in Nat
    BY <1>1 DEF Run
  <1>3. thread[t].job = Len(jobs) /\ Len(jobs) > 0 /\ thread[t].file = jobs[Len(jobs)]
    BY <1>1 DEF Sends
  <1>4. thread'[t] = [thread[t] EXCEPT !.pc = "last", !.seq = ULong(thread[t].seq + 1)]
    BY <1>1 DEF ReadEnd, TypeOK
  <1>5. /\ thread'[t].pc = "last" /\ thread'[t].file = thread[t].file
        /\ thread'[t].job = thread[t].job
    BY <1>1, <1>4 DEF Run
  <1>6. mHeader'.type = "FILE_LAST"
    BY DEF ReadEnd, SetHeader
  <1>7. Sends(thread'[t], mHeader', jobs)
    BY <1>3, <1>5, <1>6 DEF Sends
  <1>8. NextOut(thread'[t], jobs) = NextOut(thread[t], jobs)
    BY <1>1, <1>2, <1>5 DEF NextOut
  <1>9. UNCHANGED <<wire, lost, jobs>>
    BY DEF ReadEnd
  <1> QED BY <1>3, <1>7, <1>8, <1>9 DEF Quiet

(* FILE_LAST goes out and the run ends, at the start of the next job.       *)
LEMMA SendLastStep ==
    ASSUME NEW t, OneRun(t), TypeOK, Sends(thread[t], mHeader, jobs), SendLast(t)
    PROVE  /\ Sends(thread'[t], mHeader', jobs')
           /\ \E m \in Frame : MakesFrame(t, m)
  <1>1. /\ t \in Threads /\ thread[t].pc = "last" /\ thread'[t] = Idle
        /\ jobs \in Seq(Files) /\ Len(jobs) \in Nat
    BY LenProperties DEF OneRun, SendLast, At, TypeOK
  <1>2. /\ thread[t].job = Len(jobs) /\ Len(jobs) > 0 /\ mHeader.type = "FILE_LAST"
    BY <1>1 DEF Sends
  <1>3. PICK m \in Frame :
          SentOrLost(m) /\ m.type = mHeader.type /\ m.job = thread[t].job
    BY <1>1, SendType, SizesAssumption DEF SendLast
  <1>4. GoodFrame(m, jobs)
    BY <1>1, <1>2, <1>3 DEF GoodFrame
  <1>5. NextOut(thread[t], jobs) = Place(Len(jobs), "FILE_LAST", 0)
    BY <1>1 DEF NextOut
  <1>6. NextOut(thread'[t], jobs) = Place(Len(jobs) + 1, "FILE_INFO", 0)
    BY <1>1 DEF NextOut, Idle
  <1>7. PlaceOf(m) = NextOut(thread[t], jobs)
    BY <1>2, <1>3, <1>5 DEF PlaceOf
  <1>8. Follows(NextOut(thread[t], jobs), NextOut(thread'[t], jobs), jobs)
    BY <1>5, <1>6 DEF Follows, Place
  <1>9. Sends(thread'[t], mHeader', jobs)
    BY <1>1 DEF Sends, Idle
  <1> QED BY <1>3, <1>4, <1>7, <1>8, <1>9 DEF SendLast, MakesFrame

(* Every step of the sender: what it is to the stream.                      *)
LEMMA SenderStep ==
    ASSUME NEW t, OneRun(t), TypeOK, Sends(thread[t], mHeader, jobs),
           SendFileButton(t) \/ FileSend(t) \/ SendFileRefused(t)
    PROVE  /\ Sends(thread'[t], mHeader', jobs')
           /\ UNCHANGED recvVars
           /\ "receiver" \in down' <=> "receiver" \in down
           /\ Quiet(t) \/ OpensNext(t) \/ \E m \in Frame : MakesFrame(t, m)
  <1>1. UNCHANGED recvVars /\ ("receiver" \in down' <=> "receiver" \in down)
    BY DEF FileSend, SendFileButton, OpenSendFile, SendFileFails, SendFileRefused, SendInfo,
           ReadChunk, SendChunk, ReadEnd, SendLast
  <1>2. CASE SendFileButton(t)
    <2>1. t \in Threads /\ thread[t].pc = "idle" /\ thread'[t].pc = "open"
      BY <1>2 DEF OneRun, SendFileButton, At, TypeOK, Run
    <2>2. NextOut(thread'[t], jobs) = NextOut(thread[t], jobs)
      BY <2>1 DEF NextOut
    <2>3. Sends(thread'[t], mHeader', jobs')
      BY <2>1 DEF Sends
    <2> QED BY <1>1, <1>2, <2>2, <2>3 DEF Quiet, SendFileButton
  <1>3. CASE SendFileFails(t) \/ SendFileRefused(t)
    <2>1. UNCHANGED <<wire, lost, jobs, thread, mHeader>>
      BY <1>3 DEF SendFileFails, SendFileRefused, sendVars
    <2> QED BY <1>1, <2>1 DEF Quiet
  <1> QED BY <1>1, <1>2, <1>3, OpenStep, SendInfoStep, ReadChunkStep, SendChunkStep,
             ReadEndStep, SendLastStep DEF FileSend

(* A new job leaves the frames before it as they are.                       *)
LEMMA GoodFrameJobs ==
    ASSUME NEW m, NEW js \in Seq(Files), NEW f \in Files, GoodFrame(m, js)
    PROVE  GoodFrame(m, Append(js, f))
  <1>1. /\ Len(Append(js, f)) = Len(js) + 1 /\ Len(js) \in Nat
        /\ \A k \in 1..Len(js) : Append(js, f)[k] = js[k]
    BY AppendProperties, LenProperties
  <1> QED BY <1>1 DEF GoodFrame

(* What the sender makes is right, and the wire changes no frame.           *)
LEMMA FramesRightStep ==
    ASSUME NEW t, OneRun(t), TypeOK, FramesRight(t), [Next]_vars
    PROVE  FramesRight(t)'
  <1>1. wire \in Seq(Frame) /\ jobs \in Seq(Files) /\ Len(wire) \in Nat
    BY LenProperties DEF TypeOK
  <1>2. ASSUME SelectFile \/ Dismiss \/ UNCHANGED vars PROVE FramesRight(t)'
    BY <1>2 DEF SelectFile, Dismiss, vars, sendVars, FramesRight
  <1>3. ASSUME NEW types, Receiving(types) PROVE FramesRight(t)'
    <2>1. wire # <<>> /\ wire' = Tail(wire) /\ UNCHANGED <<thread, mHeader, jobs>>
      BY <1>3 DEF Receiving, sendVars
    <2>2. /\ Len(wire') = Len(wire) - 1
          /\ \A i \in 1..Len(wire) - 1 : wire'[i] = wire[i + 1]
      BY <1>1, <2>1, HeadTailProperties
    <2> QED BY <1>1, <2>1, <2>2 DEF FramesRight
  <1>4. ASSUME NEW s \in Threads, SendFileButton(s) \/ FileSend(s) \/ SendFileRefused(s) PROVE FramesRight(t)'
    <2>1. s = t
      BY DEF OneRun
    <2>2. /\ Sends(thread'[t], mHeader', jobs')
          /\ Quiet(t) \/ OpensNext(t) \/ \E m \in Frame : MakesFrame(t, m)
      BY <1>4, <2>1, SenderStep DEF FramesRight
    <2>3. CASE Quiet(t)
      BY <2>2, <2>3 DEF Quiet, FramesRight
    <2>4. CASE OpensNext(t)
      <3>1. PICK f \in Files : jobs' = Append(jobs, f) /\ wire' = wire
        BY <2>4 DEF OpensNext
      <3> QED BY <1>1, <2>2, <3>1, GoodFrameJobs DEF FramesRight
    <2>5. ASSUME NEW m \in Frame, MakesFrame(t, m) PROVE FramesRight(t)'
      <3>1. jobs' = jobs /\ GoodFrame(m, jobs) /\ (wire' = Append(wire, m) \/ wire' = wire)
        BY <2>5 DEF MakesFrame, SentOrLost
      <3>2. \A i \in 1..Len(wire') : (i \in 1..Len(wire) /\ wire'[i] = wire[i]) \/ wire'[i] = m
        BY <1>1, <3>1, AppendProperties
      <3> QED BY <2>2, <3>1, <3>2 DEF FramesRight
    <2> QED BY <2>2, <2>3, <2>4, <2>5
  <1> QED BY <1>2, <1>3, <1>4 DEF Next, Receive, ReceiveInfo, ReceiveInfoFails,
             ReceiveInfoRefused, ReceiveMore, ReceiveMoreFails, ReceiveMoreRefused, ReceiveLast

(* With one run at a time the frames on the wire are always right.          *)
LEMMA AlwaysFramesRight ==
    ASSUME NEW t, OneRun(t)
    PROVE  Spec => []FramesRight(t)
  <1>1. Init => FramesRight(t)
    BY DEF Init, FramesRight, OneRun, Sends, Idle
  <1>2. TypeOK /\ FramesRight(t) /\ [Next]_vars => FramesRight(t)'
    BY FramesRightStep
  <1> QED BY <1>1, <1>2, Typing, PTL DEF Spec

(* Where the bytes of a FILE_MORE frame belong.                             *)
LEMMA ChunkPlace ==
    ASSUME NEW t, OneRun(t), TypeOK, NEW m \in Frame, GoodFrame(m, jobs),
           m.type = "FILE_MORE"
    PROVE  LET f   == jobs[m.job]
               off == m.seq * MaxAppData
               n   == m.totlen
           IN  /\ f \in Files /\ off \in Nat /\ ULong(off) = off
               /\ n \in 1..MaxAppData /\ n = ChunkLen(FileLen[f] - off) /\ Len(m.data) = n
               /\ off < FileLen[f] /\ off + n <= FileLen[f]
               /\ \A i \in 1..n : m.data[i] = <<"data", f, off + i>>
  <1> DEFINE f   == jobs[m.job]
             off == m.seq * MaxAppData
             n   == m.totlen
  <1>1. f \in Files /\ m.seq \in Nat
    BY SizesAssumption DEF GoodFrame, TypeOK, Frame, Longs
  <1>2. /\ FileLen[f] \in Nat /\ FileLen[f] < LongMod
        /\ LongMod \in Nat /\ MaxAppData \in Nat \ {0}
    BY <1>1, FilesAssumption, SizesAssumption DEF OneRun
  <1>3. /\ off < FileLen[f] /\ n = ChunkLen(FileLen[f] - off) /\ Len(m.data) = n
        /\ \A i \in 1..n : m.data[i] = <<"data", f, off + i>>
    BY DEF GoodFrame, CarriesChunk
  <1>4. off \in Nat
    BY <1>1, <1>2, Times
  <1> HIDE DEF f, off, n
  <1>5. ULong(off) = off
    BY <1>2, <1>3, <1>4, ULongSmall
  <1>6. n \in 1..MaxAppData /\ off + n <= FileLen[f]
    BY <1>2, <1>3, <1>4 DEF ChunkLen
  <1> QED BY <1>1, <1>3, <1>4, <1>5, <1>6 DEF f, off, n

-----------------------------------------------------------------------------
(* What the frames of the stream do to the receiver.                       *)

(* The FILE_INFO frame of a file tells its name. *)
LEMMA NameRead ==
    ASSUME NEW m \in Frame, NEW f \in Files,
           ~Short(f), Len(m.data) = NameLen[f] + 1, CarriesName(m, f)
    PROVE  /\ CString(m.data) = Name(f)
           /\ Name(f) # <<>> /\ Proper(Name(f))
  <1>1. /\ Name(f) \in Seq(Byte) /\ Len(Name(f)) = NameLen[f]
        /\ \A i \in 1..NameLen[f] : Name(f)[i] = <<"name", f, i>>
        /\ NameLen[f] \in Nat \ {0} /\ DOMAIN Name(f) = 1..NameLen[f]
    BY NameType, FilesAssumption, LenProperties
  <1>2. \A i \in 1..NameLen[f] : Name(f)[i] # NUL
    BY <1>1 DEF NUL
  <1>3. m.data \in Seq(Byte)
    BY DEF Frame
  <1>4. /\ Len(m.data) > Len(Name(f)) /\ m.data[Len(Name(f)) + 1] = NUL
        /\ \A i \in 1..Len(Name(f)) : m.data[i] = Name(f)[i] /\ Name(f)[i] # NUL
    BY <1>1, <1>2 DEF CarriesName
  <1>5. CString(m.data) = Name(f)
    BY <1>1, <1>3, <1>4, CStringOfName
  <1>6. Name(f) # <<>>
    BY <1>1
  <1>7. Proper(Name(f))
    BY <1>1 DEF Proper
  <1> QED BY <1>5, <1>6, <1>7

(* A chunk goes to its place in the open file: bytes before and behind it   *)
(* stay, and behind the end of a short file there may be holes.             *)
LEMMA MoreWrites ==
    ASSUME NEW t, OneRun(t), TypeOK, FramesRight(t), ReceiveMore
    PROVE  LET m   == Head(wire)
               f   == jobs[m.job]
               off == m.seq * MaxAppData
               n   == m.totlen
               old == WriteFile.bytes
               new == WriteFile'.bytes
           IN  /\ f \in Files /\ n = ChunkLen(FileLen[f] - off)
               /\ off \in Nat /\ n \in 1..MaxAppData /\ off + n <= FileLen[f]
               /\ WriteFile'.name = WriteFile.name
               /\ Len(new) = IF off + n <= Len(old) THEN Len(old) ELSE off + n
               /\ \A i \in 1..Len(new) :
                    new[i] = IF i \in off+1..off+n THEN <<"data", f, i>>
                             ELSE IF i <= Len(old) THEN old[i] ELSE Hole
  <1>1. PICK m \in Frame : m = Head(wire) /\ m.type = "FILE_MORE" /\ GoodFrame(m, jobs)
    <2>1. wire \in Seq(Frame) /\ wire # <<>> /\ Head(wire).type = "FILE_MORE"
      BY DEF TypeOK, ReceiveMore, Receiving
    <2>2. Head(wire) = wire[1] /\ 1 \in 1..Len(wire) /\ Head(wire) \in Frame
      BY <2>1, HeadTailProperties, EmptySeq, LenProperties
    <2> QED BY <2>1, <2>2 DEF FramesRight
  <1> DEFINE f   == jobs[m.job]
             off == m.seq * MaxAppData
             n   == m.totlen
  <1>2. /\ f \in Files /\ off \in Nat /\ ULong(off) = off
        /\ n \in 1..MaxAppData /\ n = ChunkLen(FileLen[f] - off) /\ Len(m.data) = n
        /\ off + n <= FileLen[f]
        /\ \A i \in 1..n : m.data[i] = <<"data", f, off + i>>
    BY <1>1, ChunkPlace
  <1>3. PICK old \in Seq(Byte) : old = WriteFile.bytes
    BY DEF TypeOK, StoredFile
  <1> DEFINE chunk == ReadBytes(m.data, n)
             new   == WriteAt(old, off, chunk)
  <1>4. WriteFile' = [WriteFile EXCEPT !.bytes = new] /\ WriteFile \in StoredFile
    BY <1>1, <1>2, <1>3 DEF ReceiveMore, TypeOK
  <1>5. WriteFile'.name = WriteFile.name /\ WriteFile'.bytes = new
    BY <1>4 DEF StoredFile
  <1> HIDE DEF f, off, n
  <1>6. n \in Nat \ {0} /\ off \in Nat
    BY <1>2, SizesAssumption
  <1>7. /\ chunk \in Seq(Byte) /\ Len(chunk) = n
        /\ \A i \in 1..n : chunk[i] = <<"data", f, off + i>>
    <2>1. PICK d \in Seq(Byte) : d = m.data
      BY DEF Frame
    <2>2. /\ ReadBytes(d, n) \in Seq(Byte) /\ Len(ReadBytes(d, n)) = n
          /\ \A i \in 1..n : ReadBytes(d, n)[i] = IF i <= Len(d) THEN d[i] ELSE Junk
      BY ONLY ZenonT(30), <1>6, ByteType, ReadBytesType
    <2> QED BY SMTT(30), <1>2, <1>6, <2>1, <2>2
  <1> HIDE DEF chunk
  <1>8. /\ Len(new) = IF off + n <= Len(old) THEN Len(old) ELSE off + n
        /\ \A i \in 1..Len(new) :
              new[i] = IF i \in off+1..off+n THEN chunk[i - off]
                       ELSE IF i <= Len(old) THEN old[i] ELSE Hole
    <2>1. /\ Len(new) = IF chunk = <<>> \/ off + Len(chunk) <= Len(old)
                        THEN Len(old) ELSE off + Len(chunk)
          /\ \A i \in 1..Len(new) :
                new[i] = IF i \in off+1..off+Len(chunk) THEN chunk[i - off]
                         ELSE IF i <= Len(old) THEN old[i] ELSE Hole
      BY ONLY SMTT(30), <1>6, <1>7, WriteAtBytes
    <2>2. chunk # <<>>
      BY <1>6, <1>7
    <2> QED BY <1>7, <2>1, <2>2
  <1> HIDE DEF new
  <1>9. \A i \in off+1..off+n : chunk[i - off] = <<"data", f, i>>
    <2> SUFFICES ASSUME NEW i \in off+1..off+n PROVE chunk[i - off] = <<"data", f, i>>
      OBVIOUS
    <2>1. i - off \in 1..n /\ off + (i - off) = i
      BY <1>6
    <2> QED BY <1>7, <2>1
  <1> QED BY <1>1, <1>2, <1>3, <1>5, <1>8, <1>9 DEF f, off, n

-----------------------------------------------------------------------------
(* Bytes in place.                                                         *)

InPlace(bytes) ==
    \A i \in 1..Len(bytes) : bytes[i] = Hole \/ \E f \in Files : bytes[i] = <<"data", f, i>>

AllInPlace ==
    /\ InPlace(WriteFile.bytes)
    /\ \A k \in 1..Len(arrived) : InPlace(arrived[k].bytes)

(* BytesInPlace, file by file.                                              *)
LEMMA BytesInPlaceByFile ==
    ASSUME TypeOK
    PROVE  AllInPlace => BytesInPlace
  <1> SUFFICES ASSUME AllInPlace,
                      NEW file \in {WriteFile} \cup {arrived[k] : k \in DOMAIN arrived}
               PROVE  \A i \in DOMAIN file.bytes :
                        file.bytes[i] = Hole \/ \E f \in Files : file.bytes[i] = <<"data", f, i>>
    BY DEF BytesInPlace
  <1>1. file = WriteFile \/ \E k \in 1..Len(arrived) : file = arrived[k]
    BY DEF TypeOK
  <1>2. file \in StoredFile /\ InPlace(file.bytes)
    BY <1>1, ElementOfSeq DEF AllInPlace, TypeOK
  <1>3. DOMAIN file.bytes = 1..Len(file.bytes)
    BY <1>2 DEF StoredFile
  <1> QED BY <1>2, <1>3 DEF InPlace

(* No step puts a byte of a file at another place than its own.             *)
LEMMA InPlaceStep ==
    ASSUME NEW t, OneRun(t), TypeOK, FramesRight(t), AllInPlace, [Next]_vars
    PROVE  AllInPlace'
  <1>1. ASSUME UNCHANGED <<WriteFile, arrived>> PROVE AllInPlace'
    BY <1>1 DEF AllInPlace
  <1>2. InPlace(Closed.bytes)
    BY DEF InPlace, Closed
  <1>3. CASE ReceiveInfo
    <2>1. PICK n \in Nat : n = Head(wire).totlen
      <3>1. Head(wire) \in Frame
        BY <1>3, ReceivingType DEF ReceiveInfo
      <3> QED BY <3>1, SizesAssumption DEF Frame, Longs
    <2>2. WriteFile'.bytes = [i \in 1..n |-> Hole] /\ arrived' = arrived
      BY <1>3, <2>1 DEF ReceiveInfo
    <2>3. InPlace([i \in 1..n |-> Hole])
      BY DEF InPlace
    <2> QED BY <2>2, <2>3 DEF AllInPlace
  <1>4. CASE ReceiveInfoFails
    BY <1>2, <1>4 DEF ReceiveInfoFails, AllInPlace
  <1>9. CASE ReceiveInfoRefused
    <2>1. WriteFile'.bytes = <<>> /\ arrived' = arrived
      BY <1>9 DEF ReceiveInfoRefused, Closed
    <2>2. InPlace(<<>>)
      BY DEF InPlace
    <2> QED BY <2>1, <2>2 DEF AllInPlace
  <1>5. CASE ReceiveMore
    <2> DEFINE m   == Head(wire)
               f   == jobs[m.job]
               off == m.seq * MaxAppData
               n   == m.totlen
               old == WriteFile.bytes
               new == WriteFile'.bytes
    <2>1. /\ f \in Files
          /\ Len(new) = IF off + n <= Len(old) THEN Len(old) ELSE off + n
          /\ \A i \in 1..Len(new) :
               new[i] = IF i \in off+1..off+n THEN <<"data", f, i>>
                        ELSE IF i <= Len(old) THEN old[i] ELSE Hole
      BY <1>5, MoreWrites
    <2>2. Len(old) \in Nat /\ InPlace(old)
      BY DEF TypeOK, StoredFile, AllInPlace
    <2> HIDE DEF f, off, n, old, new
    <2>3. ASSUME NEW i \in 1..Len(new)
          PROVE  new[i] = Hole \/ \E g \in Files : new[i] = <<"data", g, i>>
      <3>1. CASE new[i] = old[i] /\ i <= Len(old)
        BY <2>2, <3>1 DEF InPlace
      <3> QED BY <2>1, <3>1
    <2>4. InPlace(new) /\ arrived' = arrived
      BY <1>5, <2>3 DEF InPlace, ReceiveMore
    <2> QED BY <2>4 DEF AllInPlace, new
  <1>6. CASE ReceiveLast
    <2>1. arrived' = Append(arrived, WriteFile) /\ WriteFile' = Closed
      BY <1>6 DEF ReceiveLast
    <2>2. \A k \in 1..Len(arrived') :
            arrived'[k] = WriteFile \/ (k \in 1..Len(arrived) /\ arrived'[k] = arrived[k])
      BY <2>1, AppendProperties DEF TypeOK
    <2> QED BY <1>2, <2>1, <2>2 DEF AllInPlace
  <1>7. ASSUME NEW s \in Threads, SendFileButton(s) \/ FileSend(s) \/ SendFileRefused(s) PROVE AllInPlace'
    <2>1. UNCHANGED recvVars
      BY <1>7 DEF FileSend, SendFileButton, OpenSendFile, SendFileFails, SendFileRefused,
                  SendInfo, ReadChunk, SendChunk, ReadEnd, SendLast
    <2> QED BY <1>1, <2>1 DEF recvVars
  <1>8. CASE SelectFile \/ Dismiss \/ ReceiveMoreFails \/ ReceiveMoreRefused \/ UNCHANGED vars
    BY <1>1, <1>8 DEF SelectFile, Dismiss, ReceiveMoreFails, ReceiveMoreRefused, vars, recvVars
  <1> QED BY <1>3, <1>4, <1>5, <1>6, <1>7, <1>8, <1>9 DEF Next, Receive

(* Whatever the wire loses, a byte of a stored file is at the place it has  *)
(* in some sent file, or it is a hole.                                      *)
THEOREM Placed ==
    ASSUME NEW t, OneRun(t)
    PROVE  Spec => []BytesInPlace
  <1>1. Init => AllInPlace
    BY DEF Init, AllInPlace, InPlace, Closed
  <1>2. TypeOK /\ FramesRight(t) /\ AllInPlace /\ [Next]_vars => AllInPlace'
    BY InPlaceStep
  <1>3. TypeOK /\ AllInPlace => BytesInPlace
    BY BytesInPlaceByFile
  <1> QED BY <1>1, <1>2, <1>3, AlwaysFramesRight, Typing, PTL DEF Spec

-----------------------------------------------------------------------------
(* What is left of the stream: it grows at its end, a lost frame leaves a  *)
(* gap that After allows, and it shrinks at its head.                      *)

(* Neighbours in the stream follow each other, whatever is lost elsewhere.  *)
LEMMA FollowsAfter ==
    ASSUME NEW c, NEW d, NEW js, NEW gone, Follows(c, d, js)
    PROVE  After(c, d, gone)
  BY DEF Follows, After, Place

(* A gap where a FILE_MORE or FILE_INFO frame was to be is allowed once it  *)
(* is known as lost.                                                        *)
LEMMA AfterGap ==
    ASSUME NEW x, NEW c, NEW d, NEW gone, c.type \in {"FILE_MORE", "FILE_INFO"},
           After(x, c, gone), After(c, d, gone)
    PROVE  After(x, d, gone \cup {c.type})
  BY DEF After

(* The wire takes the frame that was next.                                  *)
LEMMA InOrderAppend ==
    ASSUME NEW w \in Seq(Frame), NEW m \in Frame, NEW c, NEW out, NEW out2, NEW gone,
           InOrder(c, w, out, gone), PlaceOf(m) = out, After(out, out2, gone)
    PROVE  InOrder(c, Append(w, m), out2, gone)
  <1>1. /\ Len(Append(w, m)) = Len(w) + 1 /\ Len(w) \in Nat
        /\ \A i \in 1..Len(w) : Append(w, m)[i] = w[i]
        /\ Append(w, m)[Len(w) + 1] = m
    BY AppendProperties, LenProperties
  <1>2. \A i \in 0..Len(w)+1 : Line(c, Append(w, m), out2, i) = Line(c, w, out, i)
    BY <1>1 DEF Line, Stream
  <1>3. Line(c, w, out, Len(w) + 1) = out /\ Line(c, Append(w, m), out2, Len(w) + 2) = out2
    BY <1>1 DEF Line, Stream
  <1>4. ASSUME NEW i \in 0..Len(w)+1
        PROVE  After(Line(c, Append(w, m), out2, i), Line(c, Append(w, m), out2, i + 1), gone)
    <2>1. CASE i \in 0..Len(w)
      <3>1. i + 1 \in 0..Len(w)+1 /\ i \in 0..Len(w)+1
        BY <1>1, <2>1
      <3> QED BY <1>2, <2>1, <3>1 DEF InOrder
    <2>2. CASE i = Len(w) + 1
      <3>1. i + 1 = Len(w) + 2
        BY <1>1, <2>2
      <3> QED BY <1>2, <1>3, <2>2, <3>1
    <2> QED BY <1>1, <2>1, <2>2
  <1> QED BY <1>1, <1>4 DEF InOrder

(* The wire loses the frame that was next.                                  *)
LEMMA InOrderGap ==
    ASSUME NEW w \in Seq(Frame), NEW c, NEW out, NEW out2, NEW gone,
           out.type \in {"FILE_MORE", "FILE_INFO"},
           InOrder(c, w, out, gone), After(out, out2, gone)
    PROVE  InOrder(c, w, out2, gone \cup {out.type})
  <1>1. Len(w) \in Nat
    BY LenProperties
  <1>2. \A i \in 0..Len(w) : Line(c, w, out2, i) = Line(c, w, out, i)
    BY <1>1 DEF Line, Stream
  <1>3. Line(c, w, out, Len(w) + 1) = out /\ Line(c, w, out2, Len(w) + 1) = out2
    BY <1>1 DEF Line, Stream
  <1>4. ASSUME NEW i \in 0..Len(w)
        PROVE  After(Line(c, w, out2, i), Line(c, w, out2, i + 1), gone \cup {out.type})
    <2>0. After(Line(c, w, out, i), Line(c, w, out, i + 1), gone)
      BY DEF InOrder
    <2>1. CASE i = Len(w)
      <3>1. After(Line(c, w, out, i), out2, gone \cup {out.type})
        BY <1>3, <2>0, <2>1, AfterGap
      <3> QED BY <1>2, <1>3, <2>1, <3>1
    <2>2. CASE i # Len(w)
      <3>1. i + 1 \in 0..Len(w)
        BY <1>1, <2>2
      <3>2. Line(c, w, out2, i) = Line(c, w, out, i)
            /\ Line(c, w, out2, i + 1) = Line(c, w, out, i + 1)
        BY <1>2, <3>1
      <3> QED BY <2>0, <3>2 DEF After
    <2> QED BY <2>1, <2>2
  <1> QED BY <1>4 DEF InOrder

(* The receiver takes the frame at the head and stands where that was.      *)
LEMMA InOrderTail ==
    ASSUME NEW w \in Seq(Frame), w # <<>>, NEW c, NEW out, NEW gone, InOrder(c, w, out, gone)
    PROVE  /\ After(c, PlaceOf(Head(w)), gone)
           /\ \A d : /\ d.type = "FILE_LAST" <=> Head(w).type = "FILE_LAST"
                     /\ "FILE_INFO" \notin gone => d.job = Head(w).job
                     => InOrder(d, Tail(w), out, gone)
  <1>1. /\ Len(w) \in Nat \ {0} /\ Len(Tail(w)) = Len(w) - 1 /\ Head(w) = w[1]
        /\ \A i \in 1..Len(w)-1 : Tail(w)[i] = w[i + 1]
    BY HeadTailProperties, EmptySeq
  <1>2. Line(c, w, out, 0) = c /\ Line(c, w, out, 1) = PlaceOf(Head(w))
    BY <1>1 DEF Line, Stream
  <1>3. After(c, PlaceOf(Head(w)), gone)
    <2>1. 0 \in 0..Len(w) /\ 0 + 1 = 1
      BY <1>1
    <2> QED BY <1>2, <2>1 DEF InOrder
  <1>4. ASSUME NEW d, d.type = "FILE_LAST" <=> Head(w).type = "FILE_LAST",
               "FILE_INFO" \notin gone => d.job = Head(w).job
        PROVE  InOrder(d, Tail(w), out, gone)
    <2>1. \A i \in 1..Len(w) : Line(d, Tail(w), out, i) = Line(c, w, out, i + 1)
      BY <1>1 DEF Line, Stream
    <2>2. ASSUME NEW i \in 0..Len(Tail(w))
          PROVE  After(Line(d, Tail(w), out, i), Line(d, Tail(w), out, i + 1), gone)
      <3>1. i + 1 \in 0..Len(w) /\ i + 1 \in 1..Len(w)
        BY <1>1
      <3>2. After(Line(c, w, out, i + 1), Line(c, w, out, i + 1 + 1), gone)
        BY <3>1 DEF InOrder
      <3>3. Line(d, Tail(w), out, i + 1) = Line(c, w, out, i + 1 + 1)
        BY <2>1, <3>1
      <3>4. CASE i = 0
        <4>1. Line(d, Tail(w), out, i) = d /\ Line(c, w, out, i + 1) = PlaceOf(Head(w))
          BY <1>2, <3>4 DEF Line
        <4>2. PlaceOf(Head(w)).type = Head(w).type /\ PlaceOf(Head(w)).job = Head(w).job
          BY DEF PlaceOf, Place
        <4> QED BY <1>4, <3>2, <3>3, <4>1, <4>2 DEF After
      <3>5. CASE i # 0
        <4>1. i \in 1..Len(w)
          BY <1>1, <3>5
        <4> QED BY <2>1, <3>2, <3>3, <4>1
      <3> QED BY <3>4, <3>5
    <2> QED BY <2>2 DEF InOrder
  <1> QED BY <1>3, <1>4

-----------------------------------------------------------------------------
(* UnderLoss, step by step.                                                *)

LostKnown == LostTypes \subseteq {"FILE_INFO", "FILE_MORE", "FILE_LAST"}

Losses(t) == LostKnown /\ LossLine(t) /\ OnlyChunksLost(t)

(* No job is taken back.                                                    *)
LEMMA ShortStays ==
    ASSUME TypeOK, jobs' = jobs \/ (\E f \in Files : jobs' = Append(jobs, f))
    PROVE  /\ Len(jobs) \in Nat /\ Len(jobs) <= Len(jobs')
           /\ \A k \in 1..Len(jobs) : jobs'[k] = jobs[k]
           /\ ShortSent => ShortSent'
  <1>1. /\ Len(jobs) \in Nat /\ Len(jobs) <= Len(jobs') /\ Len(jobs') \in Nat
        /\ \A k \in 1..Len(jobs) : jobs'[k] = jobs[k]
        /\ DOMAIN jobs = 1..Len(jobs) /\ DOMAIN jobs' = 1..Len(jobs')
    <2>1. jobs \in Seq(Files)
      BY DEF TypeOK
    <2>2. CASE jobs' = jobs
      BY <2>1, <2>2, LenProperties
    <2>3. ASSUME NEW f \in Files, jobs' = Append(jobs, f)
          PROVE  /\ Len(jobs') = Len(jobs) + 1 /\ jobs' \in Seq(Files)
                 /\ \A k \in 1..Len(jobs) : jobs'[k] = jobs[k]
      BY <2>1, <2>3, AppendProperties
    <2>4. Len(jobs) \in Nat /\ DOMAIN jobs = 1..Len(jobs)
      BY <2>1, LenProperties
    <2>5. jobs' \in Seq(Files) => Len(jobs') \in Nat /\ DOMAIN jobs' = 1..Len(jobs')
      BY LenProperties
    <2> QED BY <2>2, <2>3, <2>4, <2>5
  <1>2. \A k \in 1..Len(jobs) : k \in 1..Len(jobs')
    <2> DEFINE n  == Len(jobs)
               n2 == Len(jobs')
    <2>1. n \in Nat /\ n2 \in Nat /\ n <= n2
      BY <1>1
    <2> HIDE DEF n, n2
    <2>2. \A k \in 1..n : k \in 1..n2
      BY <2>1
    <2> QED BY <2>2 DEF n, n2
  <1> QED BY <1>1, <1>2 DEF ShortSent

(* The types of the lost frames, after one more. *)
LEMMA LostOneMore ==
    ASSUME NEW m, lost' = lost \cup {Place(m.job, m.type, m.seq)}
    PROVE  LostTypes' = LostTypes \cup {m.type}
  <1>1. Place(m.job, m.type, m.seq).type = m.type
    BY DEF Place
  <1>2. LostTypes' = {l.type : l \in lost'}
    BY DEF LostTypes
  <1>3. LostTypes = {l.type : l \in lost}
    BY DEF LostTypes
  <1> QED BY <1>1, <1>2, <1>3

(* A job is opened only between two runs. *)
LEMMA OpensAtIdle ==
    ASSUME NEW t, jobs \in Seq(Files), OpensNext(t)
    PROVE  thread[t].pc \in {"idle", "open"}
  <1>1. Len(jobs) \in Nat /\ Len(jobs') = Len(jobs) + 1
    BY AppendProperties, LenProperties DEF OpensNext
  <1>2. NextOut(thread'[t], jobs').job \in {Len(jobs'), Len(jobs') + 1}
    BY DEF NextOut, Place
  <1>3. thread[t].pc \notin {"idle", "open"} => NextOut(thread[t], jobs).job = Len(jobs)
    BY DEF NextOut, Place
  <1> QED BY <1>1, <1>2, <1>3 DEF OpensNext

(* The jobs of the stream never go down, and go up after a FILE_LAST. *)
LEMMA FollowsJob ==
    ASSUME NEW c, NEW d, NEW js, c.job \in Nat, Follows(c, d, js)
    PROVE  /\ d.job \in Nat /\ c.job <= d.job
           /\ c.type = "FILE_LAST" => c.job < d.job
  BY DEF Follows, Place

(* Nothing of a run is sent after its FILE_LAST. *)
LEMMA ClosingStep ==
    ASSUME NEW t, OneRun(t), TypeOK, FramesRight(t), [Next]_vars,
           Closing(wire, NextOut(thread[t], jobs))
    PROVE  Closing(wire', NextOut(thread'[t], jobs'))
  <1> DEFINE out  == NextOut(thread[t], jobs)
             out2 == NextOut(thread'[t], jobs')
  <1>1. /\ wire \in Seq(Frame) /\ Len(wire) \in Nat
        /\ \A i \in 1..Len(wire) : wire[i].job \in Nat
    <2>1. wire \in Seq(Frame) /\ Len(wire) \in Nat
      BY LenProperties DEF TypeOK
    <2>2. \A i \in 1..Len(wire) : wire[i] \in Frame
      BY <2>1, ElementOfSeq
    <2> QED BY <2>1, <2>2 DEF Frame
  <1>2. ASSUME SelectFile \/ Dismiss \/ UNCHANGED vars PROVE Closing(wire', out2)
    BY <1>2 DEF SelectFile, Dismiss, vars, sendVars
  <1>3. ASSUME NEW types, Receiving(types) PROVE Closing(wire', out2)
    <2>1. wire # <<>> /\ wire' = Tail(wire) /\ out2 = out
      BY <1>3 DEF Receiving, sendVars
    <2>2. /\ Len(wire') = Len(wire) - 1
          /\ \A i \in 1..Len(wire) - 1 : wire'[i] = wire[i + 1]
      BY <1>1, <2>1, HeadTailProperties
    <2> HIDE DEF out, out2
    <2>3. Closing(wire, out)
      BY DEF out
    <2>4. ASSUME NEW i \in 1..Len(wire'), wire'[i].type = "FILE_LAST"
          PROVE  /\ wire'[i].job < out.job
                 /\ \A j \in i+1..Len(wire') : wire'[i].job < wire'[j].job
      <3>1. i + 1 \in 1..Len(wire) /\ wire'[i] = wire[i + 1]
        BY <1>1, <2>2
      <3>2. \A j \in i+1..Len(wire') : j + 1 \in (i+1)+1..Len(wire) /\ wire'[j] = wire[j + 1]
        BY <1>1, <2>2
      <3> QED BY <2>3, <2>4, <3>1, <3>2 DEF Closing
    <2> QED BY <2>1, <2>4 DEF Closing
  <1>4. ASSUME NEW s \in Threads, SendFileButton(s) \/ FileSend(s) \/ SendFileRefused(s) PROVE Closing(wire', out2)
    <2>1. s = t
      BY DEF OneRun
    <2>2. Quiet(t) \/ OpensNext(t) \/ \E m \in Frame : MakesFrame(t, m)
      BY <1>4, <2>1, SenderStep DEF FramesRight
    <2>3. CASE Quiet(t) \/ OpensNext(t)
      BY <2>3 DEF Quiet, OpensNext
    <2>4. ASSUME NEW m \in Frame, MakesFrame(t, m) PROVE Closing(wire', out2)
      <3>1. /\ jobs' = jobs /\ PlaceOf(m) = out /\ Follows(out, out2, jobs)
            /\ wire' = Append(wire, m) \/ wire' = wire
        BY <2>4 DEF MakesFrame, SentOrLost
      <3>2. out.job = m.job /\ out.type = m.type /\ m.job \in Nat
        BY <3>1 DEF PlaceOf, Place, Frame
      <3>3. /\ out2.job \in Nat /\ m.job <= out2.job
            /\ m.type = "FILE_LAST" => m.job < out2.job
        BY <3>1, <3>2, FollowsJob
      <3> HIDE DEF out, out2
      <3>4. Closing(wire, out)
        BY DEF out
      <3>5. CASE wire' = wire
        BY <1>1, <3>2, <3>3, <3>4, <3>5 DEF Closing
      <3>6. CASE wire' = Append(wire, m)
        <4>1. /\ Len(wire') = Len(wire) + 1
              /\ \A i \in 1..Len(wire) : wire'[i] = wire[i]
              /\ wire'[Len(wire) + 1] = m
          BY <1>1, <3>6, AppendProperties
        <4>2. ASSUME NEW i \in 1..Len(wire'), wire'[i].type = "FILE_LAST"
              PROVE  /\ wire'[i].job < out2.job
                     /\ \A j \in i+1..Len(wire') : wire'[i].job < wire'[j].job
          <5>1. CASE i = Len(wire) + 1
            BY <1>1, <3>2, <3>3, <4>1, <4>2, <5>1
          <5>2. CASE i \in 1..Len(wire)
            <6>1. wire'[i] = wire[i] /\ wire[i].job < m.job /\ wire[i].job \in Nat
              BY <1>1, <3>2, <3>4, <4>1, <4>2, <5>2 DEF Closing
            <6>2. \A j \in i+1..Len(wire') : j = Len(wire) + 1 \/ j \in i+1..Len(wire)
              BY <1>1, <4>1
            <6>3. \A j \in i+1..Len(wire) : wire'[j] = wire[j] /\ wire[i].job < wire[j].job
              BY <1>1, <3>4, <4>1, <4>2, <5>2, <6>1 DEF Closing
            <6> QED BY <3>2, <3>3, <4>1, <6>1, <6>2, <6>3
          <5> QED BY <1>1, <4>1, <5>1, <5>2
        <4> QED BY <4>2 DEF Closing
      <3> QED BY <3>1, <3>5, <3>6
    <2> QED BY <2>2, <2>3, <2>4
  <1> QED BY <1>2, <1>3, <1>4 DEF Next, Receive, ReceiveInfo, ReceiveInfoFails,
             ReceiveInfoRefused, ReceiveMore, ReceiveMoreFails, ReceiveMoreRefused, ReceiveLast

(* With one run at a time nothing of a run ever follows its FILE_LAST. *)
LEMMA AlwaysClosing ==
    ASSUME NEW t, OneRun(t)
    PROVE  Spec => []Closing(wire, NextOut(thread[t], jobs))
  <1>1. Init => Closing(wire, NextOut(thread[t], jobs))
    BY DEF Init, Closing
  <1>2. TypeOK /\ FramesRight(t) /\ Closing(wire, NextOut(thread[t], jobs)) /\ [Next]_vars
          => Closing(wire, NextOut(thread[t], jobs))'
    BY ClosingStep
  <1> QED BY <1>1, <1>2, AlwaysFramesRight, Typing, PTL DEF Spec

(* A byte that was still to come and whose frame the sender makes is on the *)
(* wire or lost.                                                            *)
LEMMA ComingSender ==
    ASSUME NEW t, OneRun(t), TypeOK, Quiet(t) \/ OpensNext(t) \/ \E m \in Frame : MakesFrame(t, m),
           NEW k \in 1..Len(jobs), NEW i \in 1..FileLen[jobs[k]],
           Coming(wire, NextOut(thread[t], jobs), k, i)
    PROVE  Coming(wire', NextOut(thread'[t], jobs'), k, i) \/ LostByte(k, i)'
  <1> DEFINE out  == NextOut(thread[t], jobs)
             out2 == NextOut(thread'[t], jobs')
             f    == jobs[k]
  <1>1. wire \in Seq(Frame) /\ Len(wire) \in Nat
    BY LenProperties DEF TypeOK
  <1>2. FileLen[f] \in Nat /\ i \in Nat \ {0} /\ MaxAppData \in Nat \ {0}
    <2>1. f \in Files
      BY DEF TypeOK
    <2> QED BY <2>1, FilesAssumption, SizesAssumption
  <1>3. CASE Quiet(t) \/ OpensNext(t)
    BY <1>3 DEF Quiet, OpensNext
  <1>4. ASSUME NEW m \in Frame, MakesFrame(t, m) PROVE Coming(wire', out2, k, i) \/ LostByte(k, i)'
    <2>1. /\ jobs' = jobs /\ PlaceOf(m) = out /\ Follows(out, out2, jobs)
          /\ \/ wire' = Append(wire, m)
             \/ wire' = wire /\ lost' = lost \cup {Place(m.job, m.type, m.seq)}
      BY <1>4 DEF MakesFrame, SentOrLost
    <2>2. /\ out.job = m.job /\ out.type = m.type
          /\ m.type = "FILE_MORE" => out.seq = m.seq
      BY <2>1 DEF PlaceOf, Place
    <2>3. ASSUME NEW j \in 1..Len(wire) PROVE j \in 1..Len(wire') /\ wire'[j] = wire[j]
      BY <1>1, <2>1, AppendProperties
    <2>4. CASE \E j \in 1..Len(wire) : Covers(wire[j], k, i)
      BY <2>3, <2>4 DEF Coming
    <2>5. CASE Covers(m, k, i)
      <3>1. CASE wire' = Append(wire, m)
        <4>1. Len(wire) + 1 \in 1..Len(wire') /\ wire'[Len(wire) + 1] = m
          BY <1>1, <3>1, AppendProperties
        <4> QED BY <2>5, <4>1 DEF Coming
      <3>2. CASE lost' = lost \cup {Place(m.job, m.type, m.seq)}
        <4>1. Covers(Place(m.job, m.type, m.seq), k, i)
          BY <2>5 DEF Covers, Place
        <4> QED BY <3>2, <4>1 DEF LostByte
      <3> QED BY <2>1, <3>1, <3>2
    <2>6. CASE Unsent(out, k, i) /\ ~Covers(m, k, i)
      <3>1. m.seq \in Nat /\ m.job = k
        BY <2>2, <2>6, SizesAssumption DEF Unsent, Frame, Longs
      <3> HIDE DEF out, out2, f
      <3>2. CASE m.type = "FILE_INFO"
        <4>1. CASE FileLen[f] > 0
          <5>1. out2 = Place(k, "FILE_MORE", 0)
            BY <1>2, <2>1, <2>2, <3>1, <3>2, <4>1 DEF Follows, f
          <5>2. 0 * MaxAppData = 0
            BY <1>2
          <5> QED BY <1>2, <5>1, <5>2 DEF Coming, Unsent, Place
        <4>2. CASE ~ (FileLen[f] > 0)
          BY <1>2, <4>2 DEF f
        <4> QED BY <4>1, <4>2
      <3>3. CASE m.type = "FILE_MORE"
        <4> DEFINE q == m.seq
        <4>1. q * MaxAppData < i /\ ~ (i <= (q + 1) * MaxAppData)
          BY <2>2, <2>6, <3>1, <3>3 DEF Unsent, Covers
        <4>2. (q + 1) * MaxAppData \in Nat
          BY <1>2, <3>1, Times
        <4>3. (q + 1) * MaxAppData < FileLen[f]
          BY <1>2, <4>1, <4>2 DEF f
        <4>4. out2 = Place(k, "FILE_MORE", q + 1)
          BY <1>2, <2>1, <2>2, <3>1, <3>3, <4>2, <4>3 DEF Follows, f
        <4> QED BY <1>2, <4>1, <4>2, <4>4 DEF Coming, Unsent, Place
      <3> QED BY <2>2, <2>6, <3>2, <3>3 DEF Unsent
    <2> QED BY <2>4, <2>5, <2>6 DEF Coming
  <1> QED BY <1>3, <1>4

(* A byte that was still to come is so after Receive took a frame, or it is *)
(* in that frame.                                                           *)
LEMMA ComingTaken ==
    ASSUME TypeOK, NEW types, Receiving(types), NEW out, NEW k, NEW i, Coming(wire, out, k, i)
    PROVE  Coming(wire', out, k, i) \/ Covers(Head(wire), k, i)
  <1>1. wire \in Seq(Frame) /\ wire # <<>> /\ wire' = Tail(wire)
    BY DEF TypeOK, Receiving
  <1>2. /\ Len(wire) \in Nat /\ Head(wire) = wire[1] /\ Len(wire') = Len(wire) - 1
        /\ \A j \in 1..Len(wire) - 1 : wire'[j] = wire[j + 1]
    BY <1>1, HeadTailProperties, LenProperties, EmptySeq
  <1>3. ASSUME NEW j \in 1..Len(wire), j # 1
        PROVE  j - 1 \in 1..Len(wire') /\ wire'[j - 1] = wire[j]
    <2>1. j - 1 \in 1..Len(wire) - 1 /\ (j - 1) + 1 = j
      BY <1>2, <1>3
    <2> QED BY <1>2, <2>1
  <1> QED BY <1>2, <1>3 DEF Coming

(* A step of the sender, with the frame it makes taken or lost.             *)
LEMMA SenderLosses ==
    ASSUME NEW t, OneRun(t), TypeOK, FramesRight(t), Losses(t),
           SendFileButton(t) \/ FileSend(t) \/ SendFileRefused(t)
    PROVE  Losses(t)'
  <1> DEFINE c == Taken(WriteFile, Len(arrived))
  <1>1. wire \in Seq(Frame) /\ jobs \in Seq(Files)
    BY DEF TypeOK
  <1>2. /\ UNCHANGED recvVars
        /\ "receiver" \in down' <=> "receiver" \in down
        /\ Quiet(t) \/ OpensNext(t) \/ \E m \in Frame : MakesFrame(t, m)
    BY SenderStep DEF FramesRight
  <1>3. /\ \/ lost' = lost
           \/ \E m \in Frame : MakesFrame(t, m) /\ lost' = lost \cup {Place(m.job, m.type, m.seq)}
        /\ jobs' = jobs \/ (\E f \in Files : jobs' = Append(jobs, f))
    BY <1>2 DEF Quiet, OpensNext, MakesFrame, SentOrLost
  <1>4. LostKnown' /\ LostTypes \subseteq LostTypes' /\ lost \subseteq lost'
    <2>1. CASE lost' = lost
      BY <2>1 DEF Losses, LostKnown, LostTypes
    <2>2. ASSUME NEW m \in Frame, MakesFrame(t, m),
                 lost' = lost \cup {Place(m.job, m.type, m.seq)}
          PROVE  LostKnown' /\ LostTypes \subseteq LostTypes' /\ lost \subseteq lost'
      <3>1. LostTypes' = LostTypes \cup {m.type}
        BY <2>2, LostOneMore
      <3>2. m.type \in {"FILE_INFO", "FILE_MORE", "FILE_LAST"}
        BY <2>2 DEF MakesFrame, GoodFrame
      <3> QED BY <2>2, <3>1, <3>2 DEF Losses, LostKnown
    <2> QED BY <1>3, <2>1, <2>2
  <1>5. OnlyChunksLost(t)'
    <2>1. /\ Len(jobs) \in Nat /\ Len(jobs) <= Len(jobs')
          /\ \A k \in 1..Len(jobs) : jobs'[k] = jobs[k]
          /\ ShortSent => ShortSent'
      BY <1>3, ShortStays
    <2>2. SUFFICES ASSUME LostTypes' \subseteq {"FILE_MORE"}, ~ShortSent'
                   PROVE  /\ "receiver" \in down' => refused' # {}
                          /\ Len(arrived') <= Len(jobs')
                          /\ \A k \in DOMAIN arrived' : ButForHoles(arrived[k], jobs[k], k, {})'
                          /\ "receiver" \notin down' =>
                               /\ BeingWritten(Len(arrived), NextOut(thread[t], jobs))'
                               /\ NotYetOpened(Len(arrived), NextOut(thread[t], jobs))'
      BY Zenon DEF OnlyChunksLost
    <2>3. /\ "receiver" \in down => refused # {}
          /\ Len(arrived) <= Len(jobs)
          /\ \A k \in DOMAIN arrived : ButForHoles(arrived[k], jobs[k], k, {})
          /\ "receiver" \notin down =>
               /\ BeingWritten(Len(arrived), NextOut(thread[t], jobs))
               /\ NotYetOpened(Len(arrived), NextOut(thread[t], jobs))
      BY <1>4, <2>1, <2>2 DEF Losses, OnlyChunksLost
    <2>4. /\ Len(arrived) \in Nat /\ DOMAIN arrived = 1..Len(arrived) /\ Len(jobs') \in Nat
          /\ WriteFile' = WriteFile /\ arrived' = arrived /\ refused' = refused
      <3>1. jobs' \in Seq(Files)
        BY <1>1, <1>3, AppendProperties
      <3> QED BY <1>2, <3>1, LenProperties DEF TypeOK, recvVars
    <2>5. \A k \in 1..Len(arrived) : jobs'[k] = jobs[k]
      BY <2>1, <2>3, <2>4
    <2>6. \A k, i : LostByte(k, i) => LostByte(k, i)'
      BY <1>4 DEF LostByte
    <2>7. \A k \in DOMAIN arrived' : ButForHoles(arrived[k], jobs[k], k, {})'
      BY <2>3, <2>4, <2>5, <2>6 DEF ButForHoles
    <2>8. ASSUME NEW k \in 1..Len(jobs), NEW i,
                 i \in StillToCome(k, NextOut(thread[t], jobs))
          PROVE  i \in StillToCome(k, NextOut(thread[t], jobs))' \/ LostByte(k, i)'
      <3>1. jobs'[k] = jobs[k] /\ i \in 1..FileLen[jobs[k]]
            /\ Coming(wire, NextOut(thread[t], jobs), k, i)
        BY <2>1, <2>8 DEF StillToCome
      <3>2. Coming(wire', NextOut(thread'[t], jobs'), k, i) \/ LostByte(k, i)'
        BY <1>2, <3>1, ComingSender
      <3> QED BY <3>1, <3>2 DEF StillToCome
    <2>9. ASSUME "receiver" \notin down', WriteFile # Closed
          PROVE  /\ Len(arrived) < Len(jobs')
                 /\ ButForHoles(WriteFile, jobs[Len(arrived) + 1], Len(arrived) + 1,
                                StillToCome(Len(arrived) + 1, NextOut(thread[t], jobs)))'
      <3>0. PICK k \in Nat : k = Len(arrived) + 1
        BY <2>4
      <3>1. /\ Len(arrived) < Len(jobs)
            /\ ButForHoles(WriteFile, jobs[k], k, StillToCome(k, NextOut(thread[t], jobs)))
        BY <1>2, <2>3, <2>9, <3>0 DEF BeingWritten
      <3>2. k \in 1..Len(jobs) /\ jobs'[k] = jobs[k] /\ Len(arrived) < Len(jobs')
            /\ k = Len(arrived') + 1
        BY <2>1, <2>4, <3>0, <3>1
      <3>3. ButForHoles(WriteFile, jobs[k], k, StillToCome(k, NextOut(thread[t], jobs)))'
        BY <2>4, <2>6, <2>8, <3>1, <3>2 DEF ButForHoles
      <3> QED BY <3>2, <3>3
    <2>10. ASSUME "receiver" \notin down' PROVE NotYetOpened(Len(arrived), NextOut(thread[t], jobs))'
      <3>1. SUFFICES ASSUME NEW k \in Len(arrived)+1..Len(jobs'),
                            k > Len(arrived) + 1 \/ WriteFile = Closed,
                            NEW i \in 1..FileLen[jobs'[k]]
                     PROVE  i \in StillToCome(k, NextOut(thread[t], jobs))' \/ LostByte(k, i)'
        BY <2>4 DEF NotYetOpened
      <3>2. CASE k \in 1..Len(jobs)
        <4>1. jobs'[k] = jobs[k] /\ k \in Len(arrived)+1..Len(jobs)
          BY <2>1, <2>4, <3>2
        <4>2. i \in StillToCome(k, NextOut(thread[t], jobs)) \/ LostByte(k, i)
          BY <1>2, <2>3, <2>10, <3>1, <4>1 DEF NotYetOpened
        <4> QED BY <2>6, <2>8, <3>2, <4>2
      <3>3. CASE k \notin 1..Len(jobs)
        <4>1. k > Len(jobs) /\ jobs' # jobs
          BY <2>1, <2>4, <3>1, <3>3
        <4>2. OpensNext(t)
          BY <1>2, <4>1 DEF Quiet, MakesFrame
        <4>3. Len(jobs') = Len(jobs) + 1 /\ k = Len(jobs) + 1
          <5>1. Len(jobs') = Len(jobs) + 1
            BY <1>1, <4>2, AppendProperties DEF OpensNext
          <5> QED BY <2>1, <2>4, <3>1, <4>1, <5>1
        <4>4. NextOut(thread'[t], jobs') = Place(k, "FILE_INFO", 0)
          <5>1. thread[t].pc \in {"idle", "open"}
            BY <1>1, <4>2, OpensAtIdle
          <5>2. NextOut(thread[t], jobs) = Place(Len(jobs) + 1, "FILE_INFO", 0)
            BY <5>1 DEF NextOut
          <5> QED BY <4>2, <4>3, <5>2 DEF OpensNext
        <4>5. Coming(wire', NextOut(thread'[t], jobs'), k, i)
          BY <4>4 DEF Coming, Unsent, Place
        <4> QED BY <4>5 DEF StillToCome
      <3> QED BY <3>2, <3>3
    <2> QED BY <1>2, <2>1, <2>3, <2>4, <2>7, <2>9, <2>10 DEF BeingWritten
  <1>6. LossLine(t)'
    <2>1. SUFFICES ASSUME "FILE_LAST" \notin LostTypes'
                   PROVE  /\ leaked' = {}
                          /\ "receiver" \notin down' =>
                               InOrder(c, wire', NextOut(thread'[t], jobs'), LostTypes')
      BY <1>2 DEF LossLine, recvVars
    <2>2. /\ leaked = {}
          /\ "receiver" \notin down => InOrder(c, wire, NextOut(thread[t], jobs), LostTypes)
      BY <1>4, <2>1 DEF Losses, LossLine
    <2> HIDE DEF c
    <2>3. CASE Quiet(t) \/ OpensNext(t)
      BY <1>2, <2>2, <2>3 DEF Quiet, OpensNext, recvVars, LostTypes
    <2>4. ASSUME NEW m \in Frame, MakesFrame(t, m), "receiver" \notin down
          PROVE  InOrder(c, wire', NextOut(thread'[t], jobs'), LostTypes')
      <3>1. /\ jobs' = jobs /\ PlaceOf(m) = NextOut(thread[t], jobs)
            /\ m.type \in {"FILE_INFO", "FILE_MORE", "FILE_LAST"}
            /\ Follows(NextOut(thread[t], jobs), NextOut(thread'[t], jobs), jobs)
        BY <2>4 DEF MakesFrame, GoodFrame
      <3>2. After(NextOut(thread[t], jobs), NextOut(thread'[t], jobs), LostTypes)
        BY <3>1, FollowsAfter
      <3>3. CASE wire' = Append(wire, m) /\ lost' = lost
        <4>1. LostTypes' = LostTypes
          BY <3>3 DEF LostTypes
        <4> QED BY <1>1, <2>2, <2>4, <3>1, <3>2, <3>3, <4>1, InOrderAppend
      <3>4. CASE wire' = wire /\ lost' = lost \cup {Place(m.job, m.type, m.seq)}
        <4>1. LostTypes' = LostTypes \cup {m.type}
          BY <3>4, LostOneMore
        <4>2. NextOut(thread[t], jobs).type = m.type /\ m.type # "FILE_LAST"
          BY <2>1, <3>1, <4>1 DEF PlaceOf, Place
        <4> QED BY <1>1, <2>2, <2>4, <3>1, <3>2, <3>4, <4>1, <4>2, InOrderGap
      <3> QED BY <2>4, <3>3, <3>4 DEF MakesFrame, SentOrLost
    <2> QED BY <1>2, <2>2, <2>3, <2>4 DEF recvVars
  <1> QED BY <1>4, <1>5, <1>6 DEF Losses

(* The frame the receiver takes, and the place it takes it at.              *)
LEMMA TakenInOrder ==
    ASSUME NEW t, OneRun(t), TypeOK, FramesRight(t), Losses(t), NEW types, Receiving(types)
    PROVE  /\ Head(wire) \in Frame /\ Head(wire).type \in types /\ GoodFrame(Head(wire), jobs)
           /\ jobs[Head(wire).job] \in Files
           /\ UNCHANGED <<thread, jobs, lost>> /\ LostTypes' = LostTypes /\ "receiver" \notin down
           /\ "FILE_LAST" \notin LostTypes =>
                /\ leaked = {}
                /\ After(Taken(WriteFile, Len(arrived)), PlaceOf(Head(wire)), LostTypes)
                /\ \A d : /\ d.type = "FILE_LAST" <=> Head(wire).type = "FILE_LAST"
                          /\ "FILE_INFO" \notin LostTypes => d.job = Head(wire).job
                          => InOrder(d, wire', NextOut(thread'[t], jobs'), LostTypes')
  <1>1. /\ wire \in Seq(Frame) /\ wire # <<>> /\ wire' = Tail(wire) /\ Head(wire).type \in types
        /\ UNCHANGED <<thread, jobs, lost>> /\ LostTypes' = LostTypes /\ "receiver" \notin down
    BY DEF TypeOK, Receiving, sendVars, LostTypes
  <1>2. Head(wire) = wire[1] /\ 1 \in 1..Len(wire) /\ Head(wire) \in Frame
    BY <1>1, HeadTailProperties, EmptySeq, LenProperties
  <1>3. GoodFrame(Head(wire), jobs)
    BY <1>2 DEF FramesRight
  <1>4. jobs[Head(wire).job] \in Files
    BY <1>3 DEF GoodFrame, TypeOK
  <1>5. ASSUME "FILE_LAST" \notin LostTypes
        PROVE  /\ leaked = {}
               /\ InOrder(Taken(WriteFile, Len(arrived)), wire, NextOut(thread[t], jobs), LostTypes)
    BY <1>1, <1>5 DEF Losses, LossLine
  <1> QED BY <1>1, <1>2, <1>3, <1>4, <1>5, InOrderTail

(* What is still to come of a run stays so while Receive takes other frames *)
(* than its chunks.                                                         *)
LEMMA StillToComeStays ==
    ASSUME TypeOK, NEW types, Receiving(types), NEW t, NEW k,
           ~ (Head(wire).type = "FILE_MORE" /\ Head(wire).job = k),
           NEW i \in StillToCome(k, NextOut(thread[t], jobs))
    PROVE  i \in StillToCome(k, NextOut(thread[t], jobs))'
  <1>1. UNCHANGED <<thread, jobs>>
    BY DEF Receiving, sendVars
  <1>2. i \in 1..FileLen[jobs[k]] /\ Coming(wire, NextOut(thread[t], jobs), k, i)
    BY DEF StillToCome
  <1>3. Coming(wire', NextOut(thread[t], jobs), k, i) \/ Covers(Head(wire), k, i)
    BY <1>2, ComingTaken
  <1>4. ~Covers(Head(wire), k, i)
    BY DEF Covers
  <1> QED BY <1>1, <1>2, <1>3, <1>4 DEF StillToCome

(* When Receive takes the FILE_LAST of a run nothing of it is to come.      *)
LEMMA NoneToCome ==
    ASSUME TypeOK, NEW types, Receiving(types), NEW out, Closing(wire, out),
           Head(wire).type = "FILE_LAST", NEW i
    PROVE  ~Coming(wire, out, Head(wire).job, i)
  <1>1. wire \in Seq(Frame) /\ wire # <<>>
    BY DEF TypeOK, Receiving
  <1>2. Len(wire) \in Nat \ {0} /\ Head(wire) = wire[1] /\ Head(wire) \in Frame
    BY <1>1, HeadTailProperties, LenProperties, EmptySeq
  <1>3. wire[1].job \in Nat
    BY <1>2 DEF Frame
  <1>4. wire[1].job < out.job /\ \A j \in 2..Len(wire) : wire[1].job < wire[j].job
    BY <1>2 DEF Closing
  <1>5. \A j \in 1..Len(wire) : j = 1 \/ j \in 2..Len(wire)
    BY <1>2
  <1>6. ~Unsent(out, wire[1].job, i)
    BY <1>3, <1>4 DEF Unsent
  <1>7. \A j \in 1..Len(wire) : ~Covers(wire[j], wire[1].job, i)
    BY <1>2, <1>3, <1>4, <1>5 DEF Covers
  <1> QED BY <1>2, <1>6, <1>7 DEF Coming

(* What is to show of a step of the receiver that lives on.                 *)
LEMMA ReceiverLosses ==
    ASSUME NEW t, Losses(t), LostTypes' = LostTypes,
           "FILE_LAST" \notin LostTypes => leaked' = {},
           "FILE_LAST" \notin LostTypes /\ "receiver" \notin down' =>
               InOrder(Taken(WriteFile', Len(arrived')), wire', NextOut(thread'[t], jobs'), LostTypes'),
           OnlyChunksLost(t)'
    PROVE  Losses(t)'
  BY DEF Losses, LostKnown, LossLine

(* FILE_INFO: as long as no FILE_LAST is lost there is no handle to forget, *)
(* and as long as only chunks are the name can be opened.                   *)
LEMMA ReceiveInfoLosses ==
    ASSUME NEW t, OneRun(t), TypeOK, FramesRight(t), Losses(t), ReceiveInfo \/ ReceiveInfoFails \/ ReceiveInfoRefused
    PROVE  Losses(t)'
  <1> DEFINE m == Head(wire)
             f == jobs[m.job]
             name == CString(m.data)
  <1>0. PICK n \in Nat : n = Len(arrived)
    BY LenProperties DEF TypeOK
  <1>1. /\ m \in Frame /\ m.type = "FILE_INFO" /\ GoodFrame(m, jobs) /\ f \in Files
        /\ UNCHANGED <<jobs, lost, arrived>> /\ LostTypes' = LostTypes /\ "receiver" \notin down
        /\ "FILE_LAST" \notin LostTypes =>
             /\ leaked = {}
             /\ After(Taken(WriteFile, n), PlaceOf(m), LostTypes)
             /\ \A d : d.type # "FILE_LAST" /\ ("FILE_INFO" \notin LostTypes => d.job = m.job)
                       => InOrder(d, wire', NextOut(thread'[t], jobs'), LostTypes')
    BY <1>0, TakenInOrder DEF ReceiveInfo, ReceiveInfoFails, ReceiveInfoRefused
  <1>2. "FILE_LAST" \notin LostTypes =>
          /\ WriteFile = Closed /\ leaked' = {}
          /\ "FILE_INFO" \notin LostTypes => m.job = n + 1
    BY <1>1 DEF After, Taken, PlaceOf, Place, ReceiveInfo, ReceiveInfoFails,
                ReceiveInfoRefused, Leak
  <1>3. ReceiveInfo => /\ name # <<>> /\ "receiver" \notin down'
                       /\ WriteFile' = [name |-> name, bytes |-> [i \in 1..m.totlen |-> Hole]]
                       /\ WriteFile' # Closed
    BY <1>1 DEF ReceiveInfo, CanOpen, Closed
  <1>4. ReceiveInfoFails \/ ReceiveInfoRefused => "receiver" \in down'
    BY DEF ReceiveInfoFails, ReceiveInfoRefused
  <1>5. "FILE_LAST" \notin LostTypes /\ "receiver" \notin down' =>
            InOrder(Taken(WriteFile', Len(arrived')), wire', NextOut(thread'[t], jobs'), LostTypes')
    <2> DEFINE d == Place(n + 1, "FILE_MORE", 0)
    <2>1. d.type = "FILE_MORE" /\ d.job = n + 1
      BY DEF Place
    <2>2. "receiver" \notin down' => Taken(WriteFile', Len(arrived')) = d
      BY <1>0, <1>1, <1>3, <1>4 DEF Taken
    <2> HIDE DEF d
    <2> QED BY <1>1, <1>2, <2>1, <2>2
  <1>6. OnlyChunksLost(t)'
    <2>1. SUFFICES ASSUME LostTypes \subseteq {"FILE_MORE"}, ~ShortSent
                   PROVE  /\ "receiver" \in down' => refused' # {}
                          /\ "receiver" \notin down' =>
                               /\ BeingWritten(n, NextOut(thread[t], jobs))'
                               /\ NotYetOpened(n, NextOut(thread[t], jobs))'
      BY <1>0, <1>1 DEF OnlyChunksLost, Losses, ShortSent, ButForHoles, LostByte
    <2>2. /\ m.job = n + 1 /\ m.job \in 1..Len(jobs) /\ leaked' = {} /\ WriteFile = Closed
          /\ m.totlen = FileLen[f] /\ Len(m.data) = NameLen[f] + 1 /\ CarriesName(m, f)
      BY <1>1, <1>2, <2>1 DEF GoodFrame, CarriesName
    <2>3. ~Short(f) /\ n < Len(jobs) /\ n \in Nat /\ Len(jobs) \in Nat
      <3>1. n \in Nat /\ Len(jobs) \in Nat /\ DOMAIN jobs = 1..Len(jobs)
        BY LenProperties DEF TypeOK
      <3> QED BY <2>1, <2>2, <3>1 DEF ShortSent
    <2>4. name = Name(f) /\ name # <<>> /\ Proper(name)
      BY <1>1, <2>2, <2>3, NameRead
    <2>5. ReceiveInfo \/ ReceiveInfoRefused
      BY <2>2, <2>4 DEF ReceiveInfoFails, CanOpen
    <2>6. CASE ReceiveInfoRefused
      BY <1>4, <2>6 DEF ReceiveInfoRefused, Refuses
    <2>7. CASE ReceiveInfo
      <3>1. FileLen[f] \in Nat /\ f = jobs[n + 1] /\ "receiver" \notin down'
        BY <1>1, <1>3, <2>2, <2>7, FilesAssumption
      <3>2. ASSUME NEW k \in n+1..Len(jobs), NEW i \in 1..FileLen[jobs[k]]
            PROVE  i \in StillToCome(k, NextOut(thread[t], jobs))' \/ LostByte(k, i)'
        <4>1. i \in StillToCome(k, NextOut(thread[t], jobs)) \/ LostByte(k, i)
          <5>1. NotYetOpened(n, NextOut(thread[t], jobs))
            BY <1>0, <1>1, <2>1 DEF Losses, OnlyChunksLost
          <5> QED BY <2>2, <5>1 DEF NotYetOpened
        <4>2. LostByte(k, i) => LostByte(k, i)'
          BY <1>1 DEF LostByte
        <4>3. Receiving({"FILE_INFO"})
          BY <2>7 DEF ReceiveInfo
        <4>4. i \in StillToCome(k, NextOut(thread[t], jobs))
                => i \in StillToCome(k, NextOut(thread[t], jobs))'
          BY <1>1, <4>3, StillToComeStays
        <4> QED BY <4>1, <4>2, <4>4
      <3>3. NotYetOpened(n, NextOut(thread[t], jobs))'
        BY <1>1, <3>2 DEF NotYetOpened
      <3>4. n + 1 \in n+1..Len(jobs)
        BY <2>3
      <3>5. ButForHoles(WriteFile, jobs[n + 1], n + 1, StillToCome(n + 1, NextOut(thread[t], jobs)))'
        <4> HIDE DEF f, m
        <4> DEFINE new == WriteFile'.bytes
        <4>1. WriteFile'.name = Name(f) /\ new = [i \in 1..FileLen[f] |-> Hole]
          BY <1>3, <2>2, <2>4, <2>7
        <4>2. Len(new) = FileLen[f] /\ \A i \in 1..FileLen[f] : new[i] = Hole
          BY <3>1, <4>1
        <4> HIDE DEF new
        <4>3. \A i \in 1..FileLen[f] : new[i] = Hole
                /\ (i \in StillToCome(n + 1, NextOut(thread[t], jobs))' \/ LostByte(n + 1, i)')
          BY <3>1, <3>2, <3>4, <4>2
        <4>4. jobs'[n + 1] = f
          BY <1>1, <3>1
        <4> QED BY <4>1, <4>2, <4>3, <4>4 DEF ButForHoles, new
      <3>6. BeingWritten(n, NextOut(thread[t], jobs))'
        BY <1>1, <2>3, <3>5 DEF BeingWritten
      <3> QED BY <3>1, <3>3, <3>6
    <2> QED BY <2>5, <2>6, <2>7
  <1> QED BY <1>1, <1>2, <1>5, <1>6, ReceiverLosses

(* FILE_MORE: as long as only chunks are lost it meets the open file that   *)
(* it belongs to, and fills a hole.                                         *)
LEMMA ReceiveMoreLosses ==
    ASSUME NEW t, OneRun(t), TypeOK, FramesRight(t), Losses(t), ReceiveMore \/ ReceiveMoreFails \/ ReceiveMoreRefused
    PROVE  Losses(t)'
  <1> DEFINE m == Head(wire)
             f == jobs[m.job]
             off == m.seq * MaxAppData
             k == m.totlen
             old == WriteFile.bytes
             new == WriteFile'.bytes
  <1>0. PICK n \in Nat : n = Len(arrived)
    BY LenProperties DEF TypeOK
  <1>1. /\ m \in Frame /\ m.type = "FILE_MORE" /\ GoodFrame(m, jobs) /\ f \in Files
        /\ UNCHANGED <<jobs, lost, arrived, leaked>> /\ LostTypes' = LostTypes /\ "receiver" \notin down
        /\ "FILE_LAST" \notin LostTypes =>
             /\ leaked = {}
             /\ After(Taken(WriteFile, n), PlaceOf(m), LostTypes)
             /\ \A d : d.type # "FILE_LAST" /\ ("FILE_INFO" \notin LostTypes => d.job = m.job)
                       => InOrder(d, wire', NextOut(thread'[t], jobs'), LostTypes')
    BY <1>0, TakenInOrder DEF ReceiveMore, ReceiveMoreFails, ReceiveMoreRefused, recvVars
  <1>2. "FILE_LAST" \notin LostTypes /\ "FILE_INFO" \notin LostTypes =>
          WriteFile # Closed /\ m.job = n + 1
    BY <1>1 DEF After, Taken, PlaceOf, Place
  <1>3. CASE ReceiveMore
    <2>1. /\ off \in Nat /\ k \in 1..MaxAppData /\ off + k <= FileLen[f]
          /\ k = ChunkLen(FileLen[f] - off)
          /\ WriteFile'.name = WriteFile.name
          /\ Len(new) = IF off + k <= Len(old) THEN Len(old) ELSE off + k
          /\ \A i \in 1..Len(new) :
               new[i] = IF i \in off+1..off+k THEN <<"data", f, i>>
                        ELSE IF i <= Len(old) THEN old[i] ELSE Hole
      BY <1>3, MoreWrites
    <2>2. Len(old) \in Nat /\ k \in Nat \ {0} /\ down' = down
      BY <1>3, <2>1, SizesAssumption DEF TypeOK, StoredFile, ReceiveMore
    <2>3. WriteFile' # Closed /\ WriteFile # Closed
      <3>1. Len(new) > 0
        <4> HIDE DEF off, k, old, new
        <4> QED BY <2>1, <2>2
      <3>2. Len(Closed.bytes) = 0
        BY DEF Closed
      <3>3. WriteFile # Closed
        BY <1>3 DEF ReceiveMore
      <3>4. WriteFile' # Closed
        <4>1. ASSUME WriteFile' = Closed PROVE Len(new) = 0
          BY ONLY <3>2, <4>1
        <4>2. ~ (Len(new) > 0 /\ Len(new) = 0)
          OBVIOUS
        <4> QED BY <3>1, <4>1, <4>2
      <3> QED BY <3>3, <3>4
    <2>4. "FILE_LAST" \notin LostTypes =>
            InOrder(Taken(WriteFile', Len(arrived')), wire', NextOut(thread'[t], jobs'), LostTypes')
      <3> DEFINE d == Place(n + 1, "FILE_MORE", 0)
      <3>1. d.type = "FILE_MORE" /\ d.job = n + 1
        BY DEF Place
      <3>2. Taken(WriteFile', Len(arrived')) = d
        BY <1>0, <1>1, <2>3 DEF Taken
      <3> HIDE DEF d
      <3> QED BY <1>1, <1>2, <3>1, <3>2
    <2>5. OnlyChunksLost(t)'
      <3>1. SUFFICES ASSUME LostTypes \subseteq {"FILE_MORE"}, ~ShortSent
                     PROVE  /\ BeingWritten(n, NextOut(thread[t], jobs))'
                            /\ NotYetOpened(n, NextOut(thread[t], jobs))'
        BY <1>0, <1>1, <2>2 DEF OnlyChunksLost, Losses, ShortSent, ButForHoles, LostByte
      <3>2. f = jobs[n + 1] /\ m.job = n + 1 /\ Receiving({"FILE_MORE"})
        BY <1>2, <1>3, <3>1 DEF ReceiveMore
      <3>3. /\ n < Len(jobs)
            /\ ButForHoles(WriteFile, jobs[n + 1], n + 1, StillToCome(n + 1, NextOut(thread[t], jobs)))
            /\ NotYetOpened(n, NextOut(thread[t], jobs))
        BY <1>0, <1>1, <2>3, <3>1 DEF Losses, OnlyChunksLost, BeingWritten
      <3>4. /\ WriteFile.name = Name(f) /\ Len(old) = FileLen[f]
            /\ \A i \in 1..FileLen[f] :
                 \/ old[i] = Content(f)[i]
                 \/ old[i] = Hole /\ (i \in StillToCome(n + 1, NextOut(thread[t], jobs)) \/ LostByte(n + 1, i))
        BY <3>2, <3>3 DEF ButForHoles
      <3>5. /\ Len(new) = FileLen[f] /\ FileLen[f] \in Nat /\ MaxAppData \in Nat \ {0}
            /\ m.seq \in Nat /\ (m.seq + 1) * MaxAppData = off + MaxAppData
        <4>1. FileLen[f] \in Nat /\ MaxAppData \in Nat \ {0} /\ m.seq \in Nat
          BY <1>1, FilesAssumption, SizesAssumption DEF Frame, Longs
        <4>2. (m.seq + 1) * MaxAppData = off + MaxAppData
          BY <4>1, Times
        <4>3. Len(new) = FileLen[f]
          <5> HIDE DEF f, off, k, old, new
          <5> QED BY <2>1, <2>2, <3>4, <4>1
        <4> QED BY <4>1, <4>2, <4>3
      <3>6. ASSUME NEW i \in 1..FileLen[f]
            PROVE  \/ new[i] = Content(f)[i]
                   \/ new[i] = Hole /\ (i \in StillToCome(n + 1, NextOut(thread[t], jobs))' \/ LostByte(n + 1, i)')
        <4>1. Content(f)[i] = <<"data", f, i>> /\ i \in 1..Len(new) /\ i \in Nat
          BY <3>5 DEF Content
        <4>2. LostByte(n + 1, i) => LostByte(n + 1, i)'
          BY <1>1 DEF LostByte
        <4>3. CASE i \in off+1..off+k
          <5> HIDE DEF f, off, k, old, new
          <5> QED BY <2>1, <4>1, <4>3
        <4>4. CASE ~ (i \in off+1..off+k)
          <5>1. ~Covers(m, n + 1, i)
            <6>1. off < i /\ i <= off + MaxAppData => i \in off+1..off+k
              <7> HIDE DEF f, off, k
              <7> QED BY <2>1, <2>2, <3>5, <4>1 DEF ChunkLen
            <6> QED BY <3>5, <4>4, <6>1 DEF Covers
          <5>2. i \in StillToCome(n + 1, NextOut(thread[t], jobs))
                  => i \in StillToCome(n + 1, NextOut(thread[t], jobs))'
            <6>1. ASSUME Coming(wire, NextOut(thread[t], jobs), n + 1, i)
                  PROVE  Coming(wire', NextOut(thread[t], jobs), n + 1, i)
              BY <3>2, <5>1, <6>1, ComingTaken
            <6>2. thread' = thread /\ jobs' = jobs
              BY <1>1, <3>2 DEF Receiving, sendVars
            <6> QED BY <6>1, <6>2 DEF StillToCome
          <5>3. new[i] = old[i]
            <6>1. i <= Len(old)
              BY <3>4, <3>5
            <6> HIDE DEF f, off, k, old, new
            <6> QED BY <2>1, <4>1, <4>4, <6>1
          <5> HIDE DEF f, off, k, old, new, m
          <5> QED BY <3>4, <4>1, <4>2, <5>2, <5>3
        <4> QED BY <4>3, <4>4
      <3>7. ButForHoles(WriteFile, jobs[n + 1], n + 1, StillToCome(n + 1, NextOut(thread[t], jobs)))'
        <4>1. jobs'[n + 1] = f
          BY <1>1, <3>2
        <4>2. WriteFile'.name = Name(f)
          BY <2>1, <3>4
        <4> HIDE DEF f
        <4> QED BY <3>5, <3>6, <4>1, <4>2 DEF ButForHoles
      <3>8. BeingWritten(n, NextOut(thread[t], jobs))'
        BY <1>1, <3>3, <3>7 DEF BeingWritten
      <3>9. NotYetOpened(n, NextOut(thread[t], jobs))'
        <4>1. SUFFICES ASSUME NEW j \in n+1..Len(jobs), j > n + 1, NEW i \in 1..FileLen[jobs[j]]
                       PROVE  i \in StillToCome(j, NextOut(thread[t], jobs))' \/ LostByte(j, i)'
          BY <1>1, <2>3 DEF NotYetOpened
        <4>2. i \in StillToCome(j, NextOut(thread[t], jobs)) \/ LostByte(j, i)
          BY <3>3, <4>1 DEF NotYetOpened
        <4>3. LostByte(j, i) => LostByte(j, i)'
          BY <1>1 DEF LostByte
        <4>4. m.job # j
          BY <1>0, <3>2, <4>1
        <4>5. i \in StillToCome(j, NextOut(thread[t], jobs))
                => i \in StillToCome(j, NextOut(thread[t], jobs))'
          BY <3>2, <4>4, StillToComeStays
        <4> QED BY <4>2, <4>3, <4>5
      <3> QED BY <3>8, <3>9
    <2> QED BY <1>1, <2>4, <2>5, ReceiverLosses
  <1>4. CASE ReceiveMoreFails
    <2>1. "receiver" \in down' /\ WriteFile = Closed
      BY <1>4 DEF ReceiveMoreFails
    <2>2. OnlyChunksLost(t)'
      BY <1>1, <1>2, <2>1 DEF OnlyChunksLost
    <2> QED BY <1>1, <2>1, <2>2, ReceiverLosses
  <1>5. CASE ReceiveMoreRefused
    <2>1. "receiver" \in down' /\ refused' # {}
      BY <1>5 DEF ReceiveMoreRefused, Refuses
    <2>2. OnlyChunksLost(t)'
      BY <1>1, <2>1 DEF OnlyChunksLost, Losses, ShortSent, ButForHoles, LostByte
    <2> QED BY <1>1, <2>1, <2>2, ReceiverLosses
  <1> QED BY <1>3, <1>4, <1>5

(* FILE_LAST: as long as only chunks are lost it closes the file that they  *)
(* were of.                                                                 *)
LEMMA ReceiveLastLosses ==
    ASSUME NEW t, OneRun(t), TypeOK, FramesRight(t), Losses(t), ReceiveLast,
           Closing(wire, NextOut(thread[t], jobs))
    PROVE  Losses(t)'
  <1> DEFINE m == Head(wire)
  <1>0. PICK n \in Nat : n = Len(arrived)
    BY LenProperties DEF TypeOK
  <1>1. /\ m.type = "FILE_LAST" /\ GoodFrame(m, jobs)
        /\ UNCHANGED <<jobs, lost, leaked, down>> /\ LostTypes' = LostTypes /\ "receiver" \notin down
        /\ "FILE_LAST" \notin LostTypes =>
             /\ leaked = {}
             /\ After(Taken(WriteFile, n), PlaceOf(m), LostTypes)
             /\ \A d : d.type = "FILE_LAST" /\ ("FILE_INFO" \notin LostTypes => d.job = m.job)
                       => InOrder(d, wire', NextOut(thread'[t], jobs'), LostTypes')
    BY <1>0, TakenInOrder DEF ReceiveLast, GoodFrame
  <1>2. "FILE_LAST" \notin LostTypes /\ "FILE_INFO" \notin LostTypes =>
          WriteFile # Closed /\ m.job = n + 1
    BY <1>1 DEF After, Taken, PlaceOf, Place
  <1>3. arrived' = Append(arrived, WriteFile) /\ WriteFile' = Closed
    BY DEF ReceiveLast
  <1>4. /\ n \in Nat /\ Len(arrived') = n + 1 /\ Len(jobs) \in Nat
        /\ DOMAIN arrived = 1..n /\ DOMAIN arrived' = 1..n+1
        /\ \A i \in 1..n : arrived'[i] = arrived[i]
        /\ arrived'[n + 1] = WriteFile
    BY <1>0, <1>3, AppendProperties, LenProperties DEF TypeOK
  <1> HIDE DEF m
  <1>5. "FILE_LAST" \notin LostTypes =>
          InOrder(Taken(WriteFile', Len(arrived')), wire', NextOut(thread'[t], jobs'), LostTypes')
    <2> DEFINE d == Place(n + 1, "FILE_LAST", 0)
    <2>1. d.type = "FILE_LAST" /\ d.job = n + 1
      BY DEF Place
    <2>2. Taken(WriteFile', Len(arrived')) = d
      BY <1>3, <1>4 DEF Taken
    <2> HIDE DEF d
    <2> QED BY <1>1, <1>2, <2>1, <2>2
  <1>6. OnlyChunksLost(t)'
    <2>0. Receiving({"DONT_FRAG", "FILE_LAST"}) /\ jobs' = jobs
      BY <1>1 DEF ReceiveLast
    <2>1. SUFFICES ASSUME LostTypes \subseteq {"FILE_MORE"}, ~ShortSent
                   PROVE  /\ n + 1 <= Len(jobs)
                          /\ \A k \in DOMAIN arrived' : ButForHoles(arrived[k], jobs[k], k, {})'
                          /\ BeingWritten(n + 1, NextOut(thread[t], jobs))'
                          /\ NotYetOpened(n + 1, NextOut(thread[t], jobs))'
      BY <1>1, <1>4, <2>0 DEF OnlyChunksLost, ShortSent
    <2>2. /\ n < Len(jobs)
          /\ ButForHoles(WriteFile, jobs[n + 1], n + 1, StillToCome(n + 1, NextOut(thread[t], jobs)))
          /\ NotYetOpened(n, NextOut(thread[t], jobs))
          /\ \A k \in 1..n : ButForHoles(arrived[k], jobs[k], k, {})
      BY <1>0, <1>1, <1>2, <1>4, <2>1 DEF OnlyChunksLost, Losses, BeingWritten
    <2>3. \A k \in 1..n+1 : k \in 1..n \/ k = n + 1
      BY <1>4
    <2>4. \A k, i : LostByte(k, i) => LostByte(k, i)'
      BY <1>1 DEF LostByte
    <2>5. ButForHoles(WriteFile, jobs[n + 1], n + 1, {})
      <3>1. \A i : i \notin StillToCome(n + 1, NextOut(thread[t], jobs))
        BY <1>1, <1>2, <2>0, <2>1, NoneToCome DEF StillToCome, m
      <3> QED BY <2>2, <3>1 DEF ButForHoles
    <2>6. ASSUME NEW k \in 1..n+1 PROVE ButForHoles(arrived[k], jobs[k], k, {})'
      <3>1. ButForHoles(arrived'[k], jobs[k], k, {})
        BY <1>4, <2>2, <2>3, <2>5
      <3> QED BY <2>0, <2>4, <3>1 DEF ButForHoles
    <2>7. BeingWritten(n + 1, NextOut(thread[t], jobs))'
      BY <1>3 DEF BeingWritten
    <2>8. NotYetOpened(n + 1, NextOut(thread[t], jobs))'
      <3>1. ASSUME NEW k \in (n + 1)+1..Len(jobs), NEW i \in 1..FileLen[jobs[k]]
            PROVE  i \in StillToCome(k, NextOut(thread[t], jobs))' \/ LostByte(k, i)'
        <4>1. k \in n+1..Len(jobs) /\ k > n + 1
          BY <1>4
        <4>2. i \in StillToCome(k, NextOut(thread[t], jobs)) \/ LostByte(k, i)
          BY <2>2, <4>1 DEF NotYetOpened
        <4>3. i \in StillToCome(k, NextOut(thread[t], jobs))
                => i \in StillToCome(k, NextOut(thread[t], jobs))'
          BY <1>1, <2>0, StillToComeStays DEF m
        <4> QED BY <2>4, <4>2, <4>3
      <3> QED BY <2>0, <3>1 DEF NotYetOpened
    <2> QED BY <1>4, <2>2, <2>6, <2>7, <2>8
  <1> QED BY <1>1, <1>5, <1>6, ReceiverLosses

(* Every step of either program and of the wire.                            *)
LEMMA LossesStep ==
    ASSUME NEW t, OneRun(t), TypeOK, FramesRight(t), Losses(t), [Next]_vars,
           Closing(wire, NextOut(thread[t], jobs))
    PROVE  Losses(t)'
  <1>1. ASSUME SelectFile \/ Dismiss \/ UNCHANGED vars PROVE Losses(t)'
    <2>1. UNCHANGED <<thread, jobs, wire, arrived, WriteFile, leaked, lost, down, refused>>
      BY <1>1 DEF SelectFile, Dismiss, vars, sendVars, recvVars
    <2>2. LostTypes' = LostTypes /\ ShortSent' = ShortSent
      BY <2>1 DEF LostTypes, ShortSent
    <2>3. NextOut(thread[t], jobs)' = NextOut(thread[t], jobs)
      BY <2>1
    <2>4. LossLine(t)' = LossLine(t)
      BY <2>1, <2>2, <2>3 DEF LossLine
    <2>5. \A k : StillToCome(k, NextOut(thread[t], jobs))' = StillToCome(k, NextOut(thread[t], jobs))
      BY <2>1, <2>3 DEF StillToCome
    <2>6. \A k, i : LostByte(k, i)' = LostByte(k, i)
      BY <2>1 DEF LostByte
    <2>7. OnlyChunksLost(t) => OnlyChunksLost(t)'
      BY <2>1, <2>2, <2>3, <2>5, <2>6 DEF OnlyChunksLost, BeingWritten, NotYetOpened, ButForHoles
    <2> QED BY <2>2, <2>4, <2>7 DEF Losses, LostKnown
  <1>2. ASSUME NEW s \in Threads, SendFileButton(s) \/ FileSend(s) \/ SendFileRefused(s) PROVE Losses(t)'
    <2>1. s = t
      BY DEF OneRun
    <2> QED BY <1>2, <2>1, SenderLosses
  <1>3. ASSUME Receive PROVE Losses(t)'
    BY <1>3, ReceiveInfoLosses, ReceiveMoreLosses, ReceiveLastLosses DEF Receive
  <1> QED BY <1>1, <1>2, <1>3 DEF Next

(* With one run at a time the invariant holds, whatever the wire loses.     *)
LEMMA AlwaysLosses ==
    ASSUME NEW t, OneRun(t)
    PROVE  Spec => []Losses(t)
  <1>1. Init => Losses(t)
    <2> SUFFICES ASSUME Init PROVE Losses(t)
      OBVIOUS
    <2>1. /\ thread[t] = Idle /\ jobs = <<>> /\ wire = <<>> /\ arrived = <<>>
          /\ WriteFile = Closed /\ leaked = {} /\ lost = {} /\ down = {}
      BY DEF OneRun, Init
    <2>2. Line(Taken(Closed, 0), <<>>, NextOut(Idle, <<>>), 0) = Place(0, "FILE_LAST", 0)
          /\ Line(Taken(Closed, 0), <<>>, NextOut(Idle, <<>>), 1) = Place(1, "FILE_INFO", 0)
      BY DEF Line, Stream, Taken, NextOut, Idle
    <2>3. InOrder(Taken(Closed, 0), <<>>, NextOut(Idle, <<>>), {}) /\ LostTypes = {}
      BY <2>1, <2>2 DEF InOrder, After, Place, LostTypes
    <2> QED BY <2>1, <2>3 DEF Losses, LostKnown, LossLine, OnlyChunksLost, BeingWritten, NotYetOpened
  <1>2. TypeOK /\ FramesRight(t) /\ Closing(wire, NextOut(thread[t], jobs)) /\ Losses(t)
          /\ [Next]_vars => Losses(t)'
    BY LossesStep
  <1> QED BY <1>1, <1>2, AlwaysFramesRight, AlwaysClosing, Typing, PTL DEF Spec

(* The inductive invariant of a lossy wire, for all threads there are.      *)
THEOREM Survives ==
    ASSUME NEW t, OneRun(t)
    PROVE  Spec => []UnderLoss
  <1>1. FramesRight(t) /\ Closing(wire, NextOut(thread[t], jobs)) /\ Losses(t) => UnderLoss
    BY DEF UnderLoss, OneRun, Losses, LostKnown
  <1> QED BY <1>1, AlwaysFramesRight, AlwaysClosing, AlwaysLosses, PTL

(* Receive forgets an open handle only after a FILE_LAST frame was lost.    *)
THEOREM Leaks ==
    ASSUME NEW t, OneRun(t)
    PROVE  Spec => []LeakNeedsLostLast
  <1>1. UnderLoss => LeakNeedsLostLast
    BY DEF UnderLoss, OneRun, LossLine, LeakNeedsLostLast
  <1> QED BY <1>1, Survives, PTL

(* An exception ends the receiving program only after a FILE_INFO or        *)
(* FILE_LAST frame was lost, for a file too short for its own name, or      *)
(* because the system refused to open, lengthen or write a file.            *)
THEOREM Deaths ==
    ASSUME NEW t, OneRun(t)
    PROVE  Spec => []DeathNeedsLostFrame
  <1>1. UnderLoss => DeathNeedsLostFrame
    BY DEF UnderLoss, OneRun, OnlyChunksLost, DeathNeedsLostFrame
  <1> QED BY <1>1, Survives, PTL

(* A lost chunk costs its own bytes and nothing else: every byte of a file  *)
(* that arrived is there, but for those of frames that were lost.           *)
THEOREM LostChunks ==
    ASSUME NEW t, OneRun(t)
    PROVE  Spec => []LostChunksLeaveHoles
  <1>1. UnderLoss => LostChunksLeaveHoles
    BY DEF UnderLoss, OneRun, OnlyChunksLost, LostChunksLeaveHoles, ButForHoles
  <1> QED BY <1>1, Survives, PTL

-----------------------------------------------------------------------------
(* Where nothing is lost.                                                  *)

(* A stretch of the stream grows at its end, shrinks at its head, and does *)
(* not change when a job is added.                                         *)

(* At its end, by the frame the sender was to send next.                    *)
LEMMA ChainAppend ==
    ASSUME NEW w \in Seq(Frame), NEW m \in Frame, NEW out, NEW out2, NEW js,
           Chain(w, out, js), GoodFrame(m, js), PlaceOf(m) = out, Follows(out, out2, js)
    PROVE  /\ Chain(Append(w, m), out2, js)
           /\ Stream(Append(w, m), out2, 1) = Stream(w, out, 1)
  <1>1. /\ Len(Append(w, m)) = Len(w) + 1 /\ Len(w) \in Nat
        /\ \A i \in 1..Len(w) : Append(w, m)[i] = w[i]
        /\ Append(w, m)[Len(w) + 1] = m
    BY AppendProperties, LenProperties
  <1>2. \A i \in 1..Len(w)+1 : Stream(Append(w, m), out2, i) = Stream(w, out, i)
    BY <1>1 DEF Stream
  <1>3. Stream(Append(w, m), out2, Len(w) + 2) = out2
    BY <1>1 DEF Stream
  <1>4. ASSUME NEW i \in 1..Len(w)+1 PROVE GoodFrame(Append(w, m)[i], js)
    BY <1>1 DEF Chain
  <1>5. ASSUME NEW i \in 1..Len(w)+1
        PROVE  Follows(Stream(Append(w, m), out2, i), Stream(Append(w, m), out2, i + 1), js)
    <2>1. CASE i \in 1..Len(w)
      BY <1>1, <1>2, <2>1 DEF Chain
    <2>2. CASE i = Len(w) + 1
      <3>1. Stream(w, out, i) = out
        BY <1>1, <2>2 DEF Stream
      <3>2. i + 1 = Len(w) + 2
        BY <1>1, <2>2
      <3> QED BY <1>2, <1>3, <3>1, <3>2
    <2> QED BY <1>1, <2>1, <2>2
  <1> QED BY <1>1, <1>2, <1>4, <1>5 DEF Chain

(* At its head, by the frame the receiver waits for.                        *)
LEMMA ChainTail ==
    ASSUME NEW w \in Seq(Frame), w # <<>>, NEW out, NEW js, Chain(w, out, js)
    PROVE  /\ Chain(Tail(w), out, js)
           /\ Stream(w, out, 1) = PlaceOf(Head(w))
           /\ GoodFrame(Head(w), js)
           /\ Follows(PlaceOf(Head(w)), Stream(Tail(w), out, 1), js)
  <1>1. /\ Len(w) \in Nat \ {0} /\ Len(Tail(w)) = Len(w) - 1 /\ Head(w) = w[1]
        /\ \A i \in 1..Len(w)-1 : Tail(w)[i] = w[i + 1]
    BY HeadTailProperties, EmptySeq
  <1>2. \A i \in 1..Len(w) : Stream(Tail(w), out, i) = Stream(w, out, i + 1)
    BY <1>1 DEF Stream
  <1>3. Stream(w, out, 1) = PlaceOf(Head(w))
    BY <1>1 DEF Stream
  <1>4. \A i \in 1..Len(Tail(w)) : GoodFrame(Tail(w)[i], js)
    BY <1>1 DEF Chain
  <1>5. ASSUME NEW i \in 1..Len(Tail(w))
        PROVE  Follows(Stream(Tail(w), out, i), Stream(Tail(w), out, i + 1), js)
    <2>1. i \in 1..Len(w) /\ i + 1 \in 1..Len(w)
      BY <1>1
    <2> QED BY <1>2, <2>1 DEF Chain
  <1>6. 1 \in 1..Len(w)
    BY <1>1
  <1> QED BY <1>1, <1>2, <1>3, <1>4, <1>5, <1>6 DEF Chain

(* A new job leaves the places of the frames before it as they are.         *)
LEMMA ChainJobs ==
    ASSUME NEW w \in Seq(Frame), NEW out, NEW js \in Seq(Files), NEW f \in Files,
           Chain(w, out, js)
    PROVE  Chain(w, out, Append(js, f))
  <1>1. /\ Len(Append(js, f)) = Len(js) + 1 /\ Len(js) \in Nat
        /\ \A k \in 1..Len(js) : Append(js, f)[k] = js[k]
    BY AppendProperties, LenProperties
  <1>2. \A i \in 1..Len(w) : GoodFrame(w[i], Append(js, f))
    BY GoodFrameJobs DEF Chain
  <1>3. ASSUME NEW i \in 1..Len(w)
        PROVE  Follows(Stream(w, out, i), Stream(w, out, i + 1), Append(js, f))
    <2>1. Follows(Stream(w, out, i), Stream(w, out, i + 1), js)
      BY DEF Chain
    <2>2. GoodFrame(w[i], js)
      BY DEF Chain
    <2>3. Len(w) \in Nat
      BY LenProperties
    <2>4. Stream(w, out, i) = PlaceOf(w[i])
      BY <2>3 DEF Stream
    <2>5. Stream(w, out, i).job \in 1..Len(js)
      BY <2>2, <2>4 DEF GoodFrame, PlaceOf, Place
    <2> QED BY <1>1, <2>1, <2>5 DEF Follows
  <1> QED BY <1>2, <1>3 DEF Chain

-----------------------------------------------------------------------------
(* OnTrack, with the one run there is.                                     *)

OnTrackBy(t) ==
    /\ Sends(thread[t], mHeader, jobs)
    /\ Chain(wire, NextOut(thread[t], jobs), jobs)
    /\ Awaits(Stream(wire, NextOut(thread[t], jobs), 1), jobs, Len(arrived), WriteFile)
    /\ leaked = {} /\ "receiver" \notin down
    /\ ArrivedIntact

(* With one worker thread OnTrack is about that thread.                     *)
LEMMA OnTrackOneRun ==
    ASSUME NEW t, Threads = {t}
    PROVE  (OnTrack <=> OnTrackBy(t)) /\ (OnTrack' <=> OnTrackBy(t)')
  BY DEF OnTrack, OnTrackBy

(* A step of the sender prolongs the stream at its end, if at all.          *)
LEMMA SenderOnTrack ==
    ASSUME NEW t, Favourable(t), TypeOK, OnTrackBy(t), SendFileButton(t) \/ FileSend(t) \/ SendFileRefused(t)
    PROVE  OnTrackBy(t)'
  <1>1. OneRun(t) /\ wire \in Seq(Frame) /\ jobs \in Seq(Files) /\ t \in Threads
    BY DEF Favourable, OneRun, TypeOK
  <1>2. /\ Sends(thread'[t], mHeader', jobs')
        /\ UNCHANGED recvVars
        /\ "receiver" \in down' <=> "receiver" \in down
        /\ Quiet(t) \/ OpensNext(t) \/ \E m \in Frame : MakesFrame(t, m)
    BY <1>1, SenderStep DEF OnTrackBy
  <1>3. /\ Chain(wire, NextOut(thread[t], jobs), jobs)
        /\ Awaits(Stream(wire, NextOut(thread[t], jobs), 1), jobs, Len(arrived), WriteFile)
        /\ leaked = {} /\ "receiver" \notin down /\ ArrivedIntact
    BY DEF OnTrackBy
  <1>4. CASE Quiet(t)
    BY <1>2, <1>3, <1>4 DEF Quiet, OnTrackBy, recvVars, ArrivedIntact
  <1>5. CASE OpensNext(t)
    <2>1. PICK f \in Files : /\ jobs' = Append(jobs, f) /\ wire' = wire
                             /\ NextOut(thread'[t], jobs') = NextOut(thread[t], jobs)
      BY <1>5 DEF OpensNext
    <2>2. /\ Len(jobs) \in Nat /\ Len(jobs') = Len(jobs) + 1
          /\ \A k \in 1..Len(jobs) : jobs'[k] = jobs[k]
      BY <1>1, <2>1, AppendProperties, LenProperties
    <2>3. Chain(wire, NextOut(thread[t], jobs), jobs')
      BY <1>1, <1>3, <2>1, ChainJobs
    <2>4. Awaits(Stream(wire, NextOut(thread[t], jobs), 1), jobs', Len(arrived), WriteFile)
      <3> DEFINE c == Stream(wire, NextOut(thread[t], jobs), 1)
      <3>1. c.type = "FILE_INFO" \/ c.job \in 1..Len(jobs)
        <4>1. CASE 1 <= Len(wire)
          <5>1. Len(wire) \in Nat
            BY <1>1, LenProperties
          <5>2. GoodFrame(wire[1], jobs)
            BY <1>3, <4>1, <5>1 DEF Chain
          <5> QED BY <4>1, <5>2 DEF Stream, GoodFrame, PlaceOf, Place
        <4>2. CASE ~ (1 <= Len(wire))
          <5>1. thread[t].pc \in {"idle", "open"} \/ Len(jobs) \in 1..Len(jobs)
            BY <2>2 DEF OnTrackBy, Sends
          <5> QED BY <4>2, <5>1 DEF Stream, NextOut, Place
        <4> QED BY <4>1, <4>2
      <3> HIDE DEF c
      <3>2. Awaits(c, jobs', Len(arrived), WriteFile)
        BY <1>3, <2>2, <3>1 DEF Awaits, c
      <3> QED BY <3>2 DEF c
    <2>5. ArrivedIntact'
      <3>1. Len(arrived) \in Nat /\ DOMAIN arrived = 1..Len(arrived)
        BY LenProperties DEF TypeOK
      <3> QED BY <1>2, <1>3, <2>2, <3>1 DEF ArrivedIntact, recvVars
    <2> QED BY <1>2, <1>3, <2>1, <2>3, <2>4, <2>5 DEF OnTrackBy, recvVars
  <1>6. ASSUME NEW m \in Frame, MakesFrame(t, m) PROVE OnTrackBy(t)'
    <2>1. wire' = Append(wire, m) /\ jobs' = jobs
      BY <1>6 DEF MakesFrame, SentOrLost, Favourable
    <2>2. /\ GoodFrame(m, jobs) /\ PlaceOf(m) = NextOut(thread[t], jobs)
          /\ Follows(NextOut(thread[t], jobs), NextOut(thread'[t], jobs), jobs)
      BY <1>6 DEF MakesFrame
    <2>3. /\ Chain(wire', NextOut(thread'[t], jobs), jobs)
          /\ Stream(wire', NextOut(thread'[t], jobs), 1) = Stream(wire, NextOut(thread[t], jobs), 1)
      BY <1>1, <1>3, <2>1, <2>2, ChainAppend
    <2> QED BY <1>2, <1>3, <2>1, <2>3 DEF OnTrackBy, recvVars, ArrivedIntact
  <1> QED BY <1>2, <1>4, <1>5, <1>6

-----------------------------------------------------------------------------
(* The receiver's steps: the frame it takes is the one it waits for.       *)

(* The frame Receive takes is the one it waits for.                         *)
LEMMA TakenFrame ==
    ASSUME NEW t, TypeOK, OnTrackBy(t), NEW types, Receiving(types)
    PROVE  LET m == Head(wire)
               c == Stream(wire', NextOut(thread'[t], jobs'), 1)
           IN  /\ m \in Frame /\ m.type \in types
               /\ GoodFrame(m, jobs)
               /\ Awaits(PlaceOf(m), jobs, Len(arrived), WriteFile)
               /\ Follows(PlaceOf(m), c, jobs)
               /\ Chain(wire', NextOut(thread'[t], jobs'), jobs')
               /\ Sends(thread'[t], mHeader', jobs')
               /\ jobs' = jobs
  <1>1. wire \in Seq(Frame) /\ wire # <<>> /\ wire' = Tail(wire) /\ Head(wire).type \in types
    BY DEF TypeOK, Receiving
  <1>2. thread' = thread /\ mHeader' = mHeader /\ jobs' = jobs
    BY DEF Receiving, sendVars
  <1>3. Head(wire) \in Frame
    BY <1>1, HeadTailProperties
  <1>4. /\ Chain(wire, NextOut(thread[t], jobs), jobs)
        /\ Awaits(Stream(wire, NextOut(thread[t], jobs), 1), jobs, Len(arrived), WriteFile)
        /\ Sends(thread[t], mHeader, jobs)
    BY DEF OnTrackBy
  <1>5. /\ Chain(Tail(wire), NextOut(thread[t], jobs), jobs)
        /\ Stream(wire, NextOut(thread[t], jobs), 1) = PlaceOf(Head(wire))
        /\ GoodFrame(Head(wire), jobs)
        /\ Follows(PlaceOf(Head(wire)), Stream(Tail(wire), NextOut(thread[t], jobs), 1), jobs)
    BY <1>1, <1>4, ChainTail
  <1> QED BY <1>1, <1>2, <1>3, <1>4, <1>5

(* After the receiver took a frame: what is left to show. *)
LEMMA ReceivingStep ==
    ASSUME NEW t, TypeOK, OnTrackBy(t), NEW types, Receiving(types),
           NEW c, c = Stream(wire', NextOut(thread'[t], jobs'), 1),
           Awaits(c, jobs, Len(arrived'), WriteFile'),
           leaked' = {}, "receiver" \notin down', ArrivedIntact'
    PROVE  OnTrackBy(t)'
  <1>1. jobs' = jobs
    BY DEF Receiving, sendVars
  <1> QED BY <1>1, TakenFrame DEF OnTrackBy

(* FILE_INFO opens the file under its name, with its length; it cannot      *)
(* fail.                                                                    *)
LEMMA ReceiveInfoStep ==
    ASSUME NEW t, Favourable(t), TypeOK, OnTrackBy(t), ReceiveInfo \/ ReceiveInfoFails \/ ReceiveInfoRefused
    PROVE  OnTrackBy(t)'
  <1> DEFINE m == Head(wire)
             c == Stream(wire', NextOut(thread'[t], jobs'), 1)
             f == jobs[m.job]
  <1>1. Receiving({"FILE_INFO"}) /\ Leak
    BY DEF ReceiveInfo, ReceiveInfoFails, ReceiveInfoRefused
  <1>2. /\ m \in Frame /\ m.type = "FILE_INFO" /\ GoodFrame(m, jobs)
        /\ Awaits(PlaceOf(m), jobs, Len(arrived), WriteFile)
        /\ Follows(PlaceOf(m), c, jobs) /\ jobs' = jobs
    BY <1>1, TakenFrame
  <1> HIDE DEF c, m
  <1>4. /\ f \in Files /\ FileLen[f] \in Nat /\ MaxAppData \in Nat \ {0}
        /\ ~Short(f) /\ FileLen[f] > 0
    <2>1. f \in Files
      BY <1>2 DEF GoodFrame, TypeOK
    <2> QED BY <2>1, FilesAssumption, SizesAssumption DEF Favourable, Short
  <1>3. /\ WriteFile = Closed /\ m.job = Len(arrived) + 1 /\ c = Place(m.job, "FILE_MORE", 0)
    BY <1>2, <1>4 DEF Awaits, PlaceOf, Place, Follows
  <1>5. m.totlen = FileLen[f] /\ Len(m.data) = NameLen[f] + 1 /\ CarriesName(m, f)
    BY <1>2 DEF GoodFrame, CarriesName
  <1>6. CString(m.data) = Name(f) /\ Name(f) # <<>> /\ Proper(Name(f))
    BY <1>2, <1>4, <1>5, NameRead
  <1>7. leaked' = {}
    BY <1>1, <1>3 DEF Leak, OnTrackBy
  <1>8. CanOpen(CString(m.data)) /\ Proper(CString(m.data))
    BY <1>6, <1>7 DEF CanOpen
  <1>9. ReceiveInfo
    BY <1>8 DEF ReceiveInfoFails, ReceiveInfoRefused, Refuses, Favourable, m
  <1>10. WriteFile' = [name |-> Name(f), bytes |-> [i \in 1..FileLen[f] |-> Hole]]
    BY <1>5, <1>6, <1>9 DEF ReceiveInfo, m
  <1>11. UNCHANGED <<arrived, down>>
    BY <1>9 DEF ReceiveInfo
  <1> HIDE DEF f
  <1>12. Awaits(c, jobs, Len(arrived'), WriteFile')
    <2>1. 0 * MaxAppData = 0
      BY <1>4
    <2>2. Len(WriteFile'.bytes) = FileLen[f] /\ WriteFile'.name = Name(f)
      BY <1>4, <1>10
    <2>3. jobs[c.job] = f /\ c.type = "FILE_MORE" /\ c.seq = 0 /\ c.job = Len(arrived') + 1
      BY <1>3, <1>11 DEF Place, f
    <2>4. \A i \in 1..FileLen[f] : ~ (i <= c.seq * MaxAppData)
      BY <1>4, <2>1, <2>3
    <2> QED BY <2>2, <2>3, <2>4 DEF Awaits
  <1>13. ArrivedIntact' /\ "receiver" \notin down'
    BY <1>2, <1>11 DEF OnTrackBy, ArrivedIntact
  <1> QED BY <1>1, <1>7, <1>12, <1>13, ReceivingStep DEF c

(* FILE_MORE puts its bytes behind those already written; it cannot fail.   *)
LEMMA ReceiveMoreStep ==
    ASSUME NEW t, Favourable(t), TypeOK, OnTrackBy(t), ReceiveMore \/ ReceiveMoreFails \/ ReceiveMoreRefused
    PROVE  OnTrackBy(t)'
  <1> DEFINE m == Head(wire)
             c == Stream(wire', NextOut(thread'[t], jobs'), 1)
             f == jobs[m.job]
             off == m.seq * MaxAppData
             n == m.totlen
             old == WriteFile.bytes
             new == WriteFile'.bytes
  <1>1. Receiving({"FILE_MORE"})
    BY DEF ReceiveMore, ReceiveMoreFails, ReceiveMoreRefused
  <1>2. /\ m \in Frame /\ m.type = "FILE_MORE" /\ GoodFrame(m, jobs)
        /\ Awaits(PlaceOf(m), jobs, Len(arrived), WriteFile)
        /\ Follows(PlaceOf(m), c, jobs) /\ jobs' = jobs
    BY <1>1, TakenFrame
  <1>3. /\ m.job = Len(arrived) + 1
        /\ WriteFile.name = Name(f) /\ Len(old) = FileLen[f]
        /\ \A i \in 1..FileLen[f] : i <= off => old[i] = <<"data", f, i>>
    BY <1>2 DEF Awaits, PlaceOf, Place
  <1>4. ReceiveMore
    <2>1. f \in Files
      BY <1>2 DEF GoodFrame, TypeOK
    <2>2. Name(f) # <<>>
      BY <2>1, NameType, FilesAssumption
    <2>3. WriteFile # Closed
      BY <1>3, <2>2 DEF Closed
    <2> QED BY <2>3 DEF ReceiveMoreFails, ReceiveMoreRefused, Refuses, Favourable
  <1>5. FramesRight(t) /\ OneRun(t)
    BY DEF OnTrackBy, Chain, FramesRight, Favourable
  <1>6. /\ f \in Files /\ n = ChunkLen(FileLen[f] - off)
        /\ off \in Nat /\ n \in 1..MaxAppData /\ off + n <= FileLen[f]
        /\ WriteFile'.name = WriteFile.name
        /\ Len(new) = IF off + n <= Len(old) THEN Len(old) ELSE off + n
        /\ \A i \in 1..Len(new) :
             new[i] = IF i \in off+1..off+n THEN <<"data", f, i>>
                      ELSE IF i <= Len(old) THEN old[i] ELSE Hole
    BY <1>4, <1>5, MoreWrites
  <1>7. /\ FileLen[f] \in Nat /\ MaxAppData \in Nat \ {0}
        /\ m.seq \in Nat /\ (m.seq + 1) * MaxAppData = off + MaxAppData
    <2>1. m.seq \in Nat /\ MaxAppData \in Nat \ {0}
      BY <1>2, SizesAssumption DEF Frame, Longs
    <2> QED BY <1>6, <2>1, FilesAssumption, Times
  <1> DEFINE q == m.seq
  <1>8. q = m.seq
    OBVIOUS
  <1> HIDE DEF c, m, f, off, n, old, new, q
  <1>9. /\ Len(new) = FileLen[f]
        /\ \A i \in 1..FileLen[f] : i <= off + n => new[i] = <<"data", f, i>>
    <2>1. n \in Nat /\ off \in Nat
      BY <1>6, <1>7
    <2>2. Len(new) = FileLen[f]
      BY <1>3, <1>6
    <2>3. ASSUME NEW i \in 1..FileLen[f], i <= off + n PROVE new[i] = <<"data", f, i>>
      <3>1. CASE i <= off
        <4>1. ~ (i \in off+1..off+n)
          BY <1>7, <2>1, <3>1
        <4>2. i \in 1..Len(new) /\ i <= Len(old)
          BY <1>3, <1>7, <2>2
        <4>3. new[i] = old[i]
          BY <1>6, <4>1, <4>2
        <4> QED BY <1>3, <3>1, <4>3
      <3>2. CASE ~ (i <= off)
        <4>1. i \in off+1..off+n
          BY <1>7, <2>1, <2>3, <3>2
        <4> QED BY <1>6, <2>2, <4>1
      <3> QED BY <3>1, <3>2
    <2> QED BY <2>2, <2>3
  <1>10. UNCHANGED <<leaked, arrived, down>>
    BY <1>4 DEF ReceiveMore
  <1>11. Awaits(c, jobs, Len(arrived'), WriteFile')
    <2>1. WriteFile'.name = Name(f) /\ WriteFile'.bytes = new
      BY <1>3, <1>6 DEF new
    <2>2. CASE off + MaxAppData < FileLen[f]
      <3>1. c = Place(m.job, "FILE_MORE", q + 1)
        BY <1>2, <1>7, <1>8, <2>2 DEF Follows, PlaceOf, Place, f
      <3>2. off + n = (q + 1) * MaxAppData
        BY <1>6, <1>7, <1>8, <2>2 DEF ChunkLen
      <3>3. jobs[c.job] = f /\ c.type = "FILE_MORE" /\ c.seq = q + 1 /\ c.job = Len(arrived') + 1
        BY <1>3, <1>10, <3>1 DEF Place, f
      <3> QED BY <1>9, <2>1, <3>2, <3>3 DEF Awaits
    <2>3. CASE ~ (off + MaxAppData < FileLen[f])
      <3>1. c = Place(m.job, "FILE_LAST", 0)
        BY <1>2, <1>7, <2>3 DEF Follows, PlaceOf, Place, f
      <3>2. off + n = FileLen[f]
        BY <1>6, <1>7, <2>3 DEF ChunkLen
      <3>3. jobs[c.job] = f /\ c.type = "FILE_LAST" /\ c.job = Len(arrived') + 1
        BY <1>3, <1>10, <3>1 DEF Place, f
      <3>4. \A i \in 1..FileLen[f] : new[i] = <<"data", f, i>>
        BY <1>7, <1>9, <3>2
      <3> QED BY <1>9, <2>1, <3>3, <3>4 DEF Awaits
    <2> QED BY <2>2, <2>3
  <1>12. leaked' = {} /\ "receiver" \notin down' /\ ArrivedIntact'
    BY <1>2, <1>10 DEF OnTrackBy, ArrivedIntact
  <1> QED BY <1>1, <1>11, <1>12, ReceivingStep DEF c

(* FILE_LAST closes a file all of whose bytes were written.                 *)
LEMMA ReceiveLastStep ==
    ASSUME NEW t, Favourable(t), TypeOK, OnTrackBy(t), ReceiveLast
    PROVE  OnTrackBy(t)'
  <1> DEFINE m == Head(wire)
             c == Stream(wire', NextOut(thread'[t], jobs'), 1)
             f == jobs[m.job]
             k == Len(arrived) + 1
  <1>1. Receiving({"DONT_FRAG", "FILE_LAST"})
    BY DEF ReceiveLast
  <1>2. /\ m \in Frame /\ GoodFrame(m, jobs) /\ m.type \in {"DONT_FRAG", "FILE_LAST"}
        /\ Awaits(PlaceOf(m), jobs, Len(arrived), WriteFile)
        /\ Follows(PlaceOf(m), c, jobs) /\ jobs' = jobs
    BY <1>1, TakenFrame
  <1> HIDE DEF c, m
  <1>3. m.type = "FILE_LAST" /\ m.job \in 1..Len(jobs) /\ f \in Files
    BY <1>2 DEF GoodFrame, TypeOK
  <1>4. FileLen[f] \in Nat
    BY <1>3, FilesAssumption
  <1>5. /\ m.job = k /\ c = Place(k + 1, "FILE_INFO", 0)
    BY <1>2, <1>3 DEF Awaits, Follows, PlaceOf, Place
  <1>6. WriteFile = Parcel(f)
    <2>1. /\ WriteFile.name = Name(f) /\ Len(WriteFile.bytes) = FileLen[f]
          /\ \A i \in 1..FileLen[f] : WriteFile.bytes[i] = <<"data", f, i>>
      BY <1>2, <1>3 DEF Awaits, PlaceOf, Place
    <2>2. WriteFile \in StoredFile
      BY DEF TypeOK
    <2>3. WriteFile.bytes = Content(f)
      <3> DEFINE bs == WriteFile.bytes
      <3>1. bs \in Seq(Byte)
        BY <2>2 DEF StoredFile
      <3> HIDE DEF bs
      <3>2. bs = [i \in 1..Len(bs) |-> bs[i]]
        BY <3>1
      <3>3. Len(bs) = FileLen[f] /\ \A i \in 1..FileLen[f] : bs[i] = <<"data", f, i>>
        BY <2>1 DEF bs
      <3> QED BY <3>2, <3>3 DEF Content, bs
    <2> QED BY <2>1, <2>2, <2>3 DEF StoredFile, Parcel
  <1>7. /\ arrived' = Append(arrived, WriteFile) /\ WriteFile' = Closed
        /\ UNCHANGED <<leaked, down>>
    BY DEF ReceiveLast
  <1>8. /\ Len(arrived') = k /\ DOMAIN arrived' = 1..k /\ Len(arrived) \in Nat
        /\ \A i \in 1..Len(arrived) : arrived'[i] = arrived[i]
        /\ arrived'[k] = WriteFile /\ DOMAIN arrived = 1..Len(arrived)
    BY <1>7, AppendProperties, LenProperties DEF TypeOK
  <1>9. Awaits(c, jobs, Len(arrived'), WriteFile')
    BY <1>5, <1>7, <1>8 DEF Awaits, Place
  <1>10. ArrivedIntact'
    <2>1. Len(arrived') <= Len(jobs)
      BY <1>3, <1>5, <1>8
    <2>2. \A i \in 1..Len(arrived) : arrived[i] = Parcel(jobs[i])
      BY <1>8 DEF OnTrackBy, ArrivedIntact
    <2>3. arrived'[k] = Parcel(jobs[k])
      BY <1>5, <1>6, <1>8
    <2>4. \A i \in 1..k : i = k \/ i \in 1..Len(arrived)
      BY <1>8
    <2>5. \A i \in 1..k : arrived'[i] = Parcel(jobs[i])
      BY <1>8, <2>2, <2>3, <2>4
    <2> QED BY <1>2, <1>8, <2>1, <2>5 DEF ArrivedIntact
  <1>11. leaked' = {} /\ "receiver" \notin down'
    BY <1>7 DEF OnTrackBy
  <1> QED BY <1>1, <1>9, <1>10, <1>11, ReceivingStep DEF c

-----------------------------------------------------------------------------
(* The invariant holds.                                                    *)

(* At the start all are at the first place of the stream.                   *)
LEMMA OnTrackInit ==
    ASSUME NEW t, Favourable(t), Init
    PROVE  OnTrackBy(t)
  <1>1. t \in Threads /\ thread[t] = Idle /\ jobs = <<>> /\ wire = <<>> /\ arrived = <<>>
    BY DEF Favourable, OneRun, Init
  <1>2. Sends(thread[t], mHeader, jobs)
    BY <1>1 DEF Sends, Idle
  <1>3. NextOut(thread[t], jobs) = Place(1, "FILE_INFO", 0)
    BY <1>1 DEF NextOut, Idle
  <1>4. Chain(wire, NextOut(thread[t], jobs), jobs)
    BY <1>1 DEF Chain
  <1>5. Awaits(Stream(wire, NextOut(thread[t], jobs), 1), jobs, Len(arrived), WriteFile)
    BY <1>1, <1>3 DEF Awaits, Stream, Place, Init
  <1>6. ArrivedIntact
    BY <1>1 DEF ArrivedIntact
  <1> QED BY <1>2, <1>4, <1>5, <1>6 DEF OnTrackBy, Init

(* Every step of either program keeps them in step.                         *)
LEMMA OnTrackStep ==
    ASSUME NEW t, Favourable(t), TypeOK, OnTrackBy(t), [Next]_vars
    PROVE  OnTrackBy(t)'
  <1>1. ASSUME SelectFile \/ Dismiss \/ UNCHANGED vars
        PROVE  OnTrackBy(t)'
    <2>1. /\ UNCHANGED <<wire, jobs, thread, mHeader, WriteFile, leaked, arrived>>
          /\ "receiver" \notin down'
      BY <1>1 DEF SelectFile, Dismiss, vars, sendVars, recvVars, OnTrackBy
    <2> QED BY <2>1 DEF OnTrackBy, ArrivedIntact
  <1>2. ASSUME NEW s \in Threads, SendFileButton(s) \/ FileSend(s) \/ SendFileRefused(s)
        PROVE  OnTrackBy(t)'
    <2>1. s = t
      BY DEF Favourable, OneRun
    <2> QED BY <1>2, <2>1, SenderOnTrack
  <1>3. ASSUME Receive PROVE OnTrackBy(t)'
    BY <1>3, ReceiveInfoStep, ReceiveMoreStep, ReceiveLastStep DEF Receive
  <1> QED BY <1>1, <1>2, <1>3 DEF Next

(* Sending one file at a time over a wire that loses nothing, the two       *)
(* programs stay in step: FILE_SEND and Receive are at neighbouring places  *)
(* of one stream of frames, with the wire in between.                       *)
THEOREM InStep ==
    ASSUME NEW t, Favourable(t)
    PROVE  Spec => []OnTrack
  <1>1. Init => OnTrackBy(t)
    BY OnTrackInit
  <1>2. TypeOK /\ OnTrackBy(t) /\ [Next]_vars => OnTrackBy(t)'
    BY OnTrackStep
  <1>3. OnTrackBy(t) <=> OnTrack
    BY OnTrackOneRun DEF Favourable, OneRun
  <1> QED BY <1>1, <1>2, <1>3, Typing, PTL DEF Spec

(* What FILE_SEND reads is what the arrival boxes announce: name and every  *)
(* byte, in order, for any set of files and any chunk size.                 *)
THEOREM Delivery ==
    ASSUME NEW t, Favourable(t)
    PROVE  Spec => []ArrivedIntact
  <1>1. OnTrack => ArrivedIntact
    BY DEF OnTrack, Favourable, OneRun
  <1> QED BY <1>1, InStep, PTL

-----------------------------------------------------------------------------
(* The safety half of the refinement: a run of FILE_SEND that opens its     *)
(* file posts it, a FILE_LAST frame delivers one, all else stutters.        *)

(* Opening a file to send posts it.                                         *)
LEMMA PostStep ==
    ASSUME NEW t, TypeOK, OpenSendFile(t)
    PROVE  FileCourier!Post
  <1>1. /\ FilePath \in Files /\ jobs \in Seq(Files) /\ jobs' = Append(jobs, FilePath)
        /\ arrived' = arrived
    BY DEF OpenSendFile, TypeOK, recvVars
  <1>2. /\ Len(jobs) \in Nat /\ Len(jobs') = Len(jobs) + 1 /\ jobs'[Len(jobs) + 1] = FilePath
        /\ \A k \in 1..Len(jobs) : jobs'[k] = jobs[k]
        /\ DOMAIN jobs = 1..Len(jobs) /\ DOMAIN jobs' = 1..Len(jobs) + 1
    BY <1>1, AppendProperties, LenProperties
  <1> DEFINE p  == [k \in DOMAIN jobs |-> Parcel(jobs[k])]
             p2 == [k \in DOMAIN jobs' |-> Parcel(jobs'[k])]
             Item == {Parcel(f) : f \in Files}
  <1>3. p \in Seq(Item) /\ Len(p) = Len(jobs)
    <2>1. \A k \in 1..Len(jobs) : Parcel(jobs[k]) \in Item
      BY <1>1, ElementOfSeq
    <2> QED BY <1>2, <2>1
  <1>4. p2 = Append(p, Parcel(FilePath))
    <2> DEFINE p3 == Append(p, Parcel(FilePath))
    <2>1. Parcel(FilePath) \in Item
      BY <1>1
    <2>2. \A k \in 1..Len(jobs) : p[k] = Parcel(jobs'[k])
      BY <1>2
    <2>3. p2 = [k \in 1..Len(jobs) + 1 |-> Parcel(jobs'[k])]
      BY <1>2
    <2> HIDE DEF p, Item
    <2>4. /\ p3 \in Seq(Item) /\ Len(p3) = Len(jobs) + 1
          /\ p3[Len(jobs) + 1] = Parcel(FilePath)
          /\ \A k \in 1..Len(jobs) : p3[k] = p[k]
      BY <1>2, <1>3, <2>1, AppendProperties
    <2>5. \A k \in 1..Len(jobs) + 1 : p3[k] = Parcel(jobs'[k])
      BY <1>2, <2>2, <2>4
    <2>6. p3 = [k \in 1..Len(jobs) + 1 |-> p3[k]]
      <3>1. \A q \in Seq(Item) : q = [k \in 1..Len(q) |-> q[k]]
        OBVIOUS
      <3> QED BY <2>4, <3>1
    <2> HIDE DEF p3
    <2>7. p3 = p2
      BY <2>3, <2>5, <2>6
    <2> QED BY <2>7 DEF p3
  <1>5. Parcel(FilePath) \in Item
    BY <1>1
  <1> QED BY <1>1, <1>4, <1>5 DEF FileCourier!Post

(* The arrival box delivers the next file posted.                           *)
LEMMA DeliverStep ==
    ASSUME TypeOK, ArrivedIntact', ReceiveLast
    PROVE  FileCourier!Deliver
  <1>1. /\ arrived' = Append(arrived, WriteFile) /\ jobs' = jobs
        /\ arrived \in Seq(StoredFile) /\ WriteFile \in StoredFile /\ jobs \in Seq(Files)
    BY DEF ReceiveLast, Receiving, sendVars, TypeOK
  <1>2. /\ Len(arrived) \in Nat /\ Len(jobs) \in Nat /\ DOMAIN jobs = 1..Len(jobs)
        /\ Len(arrived') = Len(arrived) + 1 /\ arrived'[Len(arrived) + 1] = WriteFile
        /\ DOMAIN arrived' = 1..Len(arrived) + 1
    BY <1>1, AppendProperties, LenProperties
  <1>3. Len(arrived) + 1 \in 1..Len(jobs)
    BY <1>1, <1>2 DEF ArrivedIntact
  <1>4. WriteFile = Parcel(jobs[Len(arrived) + 1])
    BY <1>1, <1>2 DEF ArrivedIntact
  <1> DEFINE p == [k \in DOMAIN jobs |-> Parcel(jobs[k])]
  <1>5. Len(p) = Len(jobs) /\ p[Len(arrived) + 1] = WriteFile
    BY <1>2, <1>3, <1>4
  <1>6. Len(arrived) < Len(p)
    BY <1>2, <1>3, <1>5
  <1>7. [k \in DOMAIN jobs' |-> Parcel(jobs'[k])] = p
    BY <1>1
  <1> HIDE DEF p
  <1> QED BY <1>1, <1>5, <1>6, <1>7 DEF FileCourier!Deliver, p

(* Every behaviour of the two ends is, for safety, one of the courier: a    *)
(* box announces only the next file not yet announced.                      *)
THEOREM Implements ==
    ASSUME NEW t, Favourable(t)
    PROVE  Spec => FileCourier!Init /\ [][FileCourier!Next]_(FileCourier!vars)
  <1>1. Init => FileCourier!Init
    BY DEF Init, FileCourier!Init
  <1>2. ASSUME TypeOK, ArrivedIntact', [Next]_vars
        PROVE  [FileCourier!Next]_(FileCourier!vars)
    <2>1. ASSUME NEW s \in Threads, OpenSendFile(s) PROVE FileCourier!Next
      BY <1>2, <2>1, PostStep DEF FileCourier!Next
    <2>2. ASSUME ReceiveLast PROVE FileCourier!Next
      BY <1>2, <2>2, DeliverStep DEF FileCourier!Next
    <2>3. ASSUME jobs' = jobs, arrived' = arrived PROVE UNCHANGED FileCourier!vars
      BY <2>3 DEF FileCourier!vars
    <2>4. ASSUME NEW s \in Threads,
                 \/ SendFileButton(s) \/ SendFileFails(s) \/ SendFileRefused(s) \/ SendInfo(s)
                 \/ ReadChunk(s) \/ SendChunk(s) \/ ReadEnd(s) \/ SendLast(s)
          PROVE  jobs' = jobs /\ arrived' = arrived
      BY <2>4 DEF SendFileButton, SendFileFails, SendFileRefused, SendInfo, ReadChunk, SendChunk,
                  ReadEnd, SendLast, sendVars, recvVars
    <2>5. ASSUME SelectFile \/ ReceiveInfo \/ ReceiveInfoFails \/ ReceiveInfoRefused \/ ReceiveMore
                 \/ ReceiveMoreFails \/ ReceiveMoreRefused \/ Dismiss \/ UNCHANGED vars
          PROVE  jobs' = jobs /\ arrived' = arrived
      BY <2>5 DEF SelectFile, ReceiveInfo, ReceiveInfoFails, ReceiveInfoRefused, ReceiveMore,
                  ReceiveMoreFails, ReceiveMoreRefused, Dismiss, Receiving, sendVars, recvVars, vars
    <2> QED BY <1>2, <2>1, <2>2, <2>3, <2>4, <2>5 DEF Next, FileSend, Receive
  <1> QED BY <1>1, <1>2, Typing, Delivery, PTL DEF Spec
=============================================================================
