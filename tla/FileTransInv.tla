---------------------------- MODULE FileTransInv ----------------------------
(***************************************************************************)
(* The inductive invariants of file transfer with one run of FILE_SEND at  *)
(* a time.  All frames ever sent form one stream: for each job its         *)
(* FILE_INFO, its chunks and its FILE_LAST.  Over a wire that loses        *)
(* nothing, for files longer than their names, the wire always holds the   *)
(* stretch of the stream from the frame the receiver waits for up to the   *)
(* one the sender sends next.  Over a wire that loses frames it holds what *)
(* was not lost of that stretch, in the order of the stream.               *)
(***************************************************************************)
EXTENDS FileTrans

(* One run of FILE_SEND at a time, for files the counters can count.        *)
OneRun(t) == Threads = {t} /\ \A f \in Files : FileLen[f] < LongMod

(* What ArrivedIntact hangs on. *)
Favourable(t) ==
    /\ OneRun(t)
    /\ Unreliable = {} /\ Refusals = {}
    /\ \A f \in Files : ~Short(f)

(* Which place in the stream of the jobs js comes after place c.            *)
Follows(c, d, js) ==
    \/ c.type = "FILE_INFO" /\ FileLen[js[c.job]] > 0 /\ d = Place(c.job, "FILE_MORE", 0)
    \/ c.type = "FILE_INFO" /\ FileLen[js[c.job]] = 0 /\ d = Place(c.job, "FILE_LAST", 0)
    \/ /\ c.type = "FILE_MORE" /\ (c.seq + 1) * MaxAppData < FileLen[js[c.job]]
       /\ d = Place(c.job, "FILE_MORE", c.seq + 1)
    \/ /\ c.type = "FILE_MORE" /\ (c.seq + 1) * MaxAppData >= FileLen[js[c.job]]
       /\ d = Place(c.job, "FILE_LAST", 0)
    \/ c.type = "FILE_LAST" /\ d = Place(c.job + 1, "FILE_INFO", 0)

(* What a FILE_INFO or FILE_MORE frame or header of file f holds.  The name *)
(* is whole only if it fits into the length of the file.                    *)
CarriesName(m, f) ==
    /\ m.totlen = FileLen[f]
    /\ ~Short(f) => /\ \A i \in 1..NameLen[f] : m.data[i] = Name(f)[i]
                    /\ m.data[NameLen[f] + 1] = NUL

CarriesChunk(m, f) ==
    /\ m.seq * MaxAppData < FileLen[f]
    /\ m.totlen = ChunkLen(FileLen[f] - m.seq * MaxAppData)
    /\ \A i \in 1..m.totlen : m.data[i] = <<"data", f, m.seq * MaxAppData + i>>

GoodFrame(m, js) ==
    /\ m.job \in 1..Len(js)
    /\ m.type \in {"FILE_INFO", "FILE_MORE", "FILE_LAST"}
    /\ m.type = "FILE_INFO" =>
         Len(m.data) = NameLen[js[m.job]] + 1 /\ CarriesName(m, js[m.job])
    /\ m.type = "FILE_MORE" =>
         Len(m.data) = m.totlen /\ CarriesChunk(m, js[m.job])

PlaceOf(m) == Place(m.job, m.type, IF m.type = "FILE_MORE" THEN m.seq ELSE 0)

(* The wire w holds a stretch of the stream that ends before place out.     *)
Stream(w, out, i) == IF i <= Len(w) THEN PlaceOf(w[i]) ELSE out

Chain(w, out, js) ==
    /\ \A i \in 1..Len(w) : GoodFrame(w[i], js)
    /\ \A i \in 1..Len(w) : Follows(Stream(w, out, i), Stream(w, out, i + 1), js)

(* The place of the frame that a run th sends next.                         *)
NextOut(th, js) ==
    CASE th.pc \in {"idle", "open"} -> Place(Len(js) + 1, "FILE_INFO", 0)
      [] th.pc = "info" -> Place(Len(js), "FILE_INFO", 0)
      [] th.pc = "read" /\ th.pos < FileLen[th.file] ->
            Place(Len(js), "FILE_MORE", ULong(th.seq + 1))
      [] th.pc = "more" -> Place(Len(js), "FILE_MORE", th.seq)
      [] OTHER -> Place(Len(js), "FILE_LAST", 0)

(* The sending program, between its steps. *)
Sends(th, header, js) ==
    LET f == th.file
    IN  /\ th.pc \notin {"idle", "open"} =>
             th.job = Len(js) /\ Len(js) > 0 /\ f = js[Len(js)]
        /\ th.pc = "info" =>
             /\ th.seq = LongMod - 1 /\ th.pos = 0 /\ th.total = FileLen[f]
             /\ header.type = "FILE_INFO" /\ CarriesName(header, f)
        /\ th.pc = "read" =>
             \/ /\ th.pos = ULong(th.seq + 1) * MaxAppData /\ th.pos < FileLen[f]
                /\ th.total = FileLen[f] - th.pos
             \/ th.pos = FileLen[f]
        /\ th.pc = "more" =>
             /\ th.total = FileLen[f] - th.seq * MaxAppData
             /\ th.pos = th.seq * MaxAppData + ChunkLen(th.total)
             /\ header.type = "FILE_MORE" /\ header.seq = th.seq /\ CarriesChunk(header, f)
        /\ th.pc = "last" => header.type = "FILE_LAST"

(* The sender and the wire, whatever becomes of the frames. *)
FramesRight(t) ==
    /\ Sends(thread[t], mHeader, jobs)
    /\ \A i \in 1..Len(wire) : GoodFrame(wire[i], jobs)

(* What a step of the sender is to the stream: it sends nothing, it opens   *)
(* the next file, or it makes the frame that is next and the wire takes it  *)
(* or loses it.                                                             *)
SentOrLost(m) ==
    \/ wire' = Append(wire, m) /\ UNCHANGED lost
    \/ /\ m.type \in Unreliable /\ UNCHANGED wire
       /\ lost' = lost \cup {Place(m.job, m.type, m.seq)}

Quiet(t) ==
    /\ UNCHANGED <<wire, lost, jobs>>
    /\ NextOut(thread'[t], jobs) = NextOut(thread[t], jobs)

OpensNext(t) ==
    /\ \E f \in Files : jobs' = Append(jobs, f)
    /\ UNCHANGED <<wire, lost>>
    /\ NextOut(thread'[t], jobs') = NextOut(thread[t], jobs)

MakesFrame(t, m) ==
    /\ SentOrLost(m) /\ UNCHANGED jobs
    /\ GoodFrame(m, jobs)
    /\ PlaceOf(m) = NextOut(thread[t], jobs)
    /\ Follows(NextOut(thread[t], jobs), NextOut(thread'[t], jobs), jobs)

-----------------------------------------------------------------------------
(* Over a wire that loses nothing.                                         *)

(* The receiving program, with n files behind it and file in its hands,     *)
(* waits for the frame at place c.                                          *)
Awaits(c, js, n, file) ==
    /\ c.job = n + 1
    /\ c.type = "FILE_INFO" => file = Closed
    /\ c.type # "FILE_INFO" =>
         LET f == js[c.job]
         IN  /\ file.name = Name(f)
             /\ Len(file.bytes) = FileLen[f]
             /\ \A i \in 1..FileLen[f] :
                  c.type = "FILE_LAST" \/ i <= c.seq * MaxAppData =>
                      file.bytes[i] = <<"data", f, i>>

(* Nothing is on the wire, in mHeader or in WriteFile that is not of the    *)
(* one stream of frames, in its order: a run of FILE_SEND begins where the  *)
(* one before it ended, and Receive is never met by a frame it does not     *)
(* wait for, so that it neither dies nor leaks a handle.                    *)
OnTrack ==
    \A t \in Threads :
        LET out == NextOut(thread[t], jobs)
        IN  /\ Sends(thread[t], mHeader, jobs)
            /\ Chain(wire, out, jobs)
            /\ Awaits(Stream(wire, out, 1), jobs, Len(arrived), WriteFile)
            /\ leaked = {} /\ "receiver" \notin down
            /\ ArrivedIntact

-----------------------------------------------------------------------------
(* Over a wire that loses frames.                                          *)

(* The place of the last frame taken, as far as a receiver with n files     *)
(* behind it and file in its hands shows it.                                *)
Taken(file, n) ==
    IF file = Closed THEN Place(n, "FILE_LAST", 0) ELSE Place(n + 1, "FILE_MORE", 0)

(* Where no FILE_LAST was lost, what may come after place c when frames of  *)
(* the types in gone were.                                                  *)
After(c, d, gone) ==
    /\ c.type # "FILE_LAST" => d.type # "FILE_INFO"
    /\ "FILE_INFO" \notin gone =>
         IF c.type = "FILE_LAST" THEN d.type = "FILE_INFO" /\ d.job = c.job + 1
                                 ELSE d.job = c.job

Line(c, w, out, i) == IF i = 0 THEN c ELSE Stream(w, out, i)

InOrder(c, w, out, gone) ==
    \A i \in 0..Len(w) : After(Line(c, w, out, i), Line(c, w, out, i + 1), gone)

(* The frames of run k that hold its byte i are on the wire w, or not yet   *)
(* sent, when out is the place of the frame that is sent next.              *)
Unsent(out, k, i) ==
    /\ out.job = k
    /\ \/ out.type = "FILE_INFO"
       \/ out.type = "FILE_MORE" /\ out.seq * MaxAppData < i

Coming(w, out, k, i) == Unsent(out, k, i) \/ \E j \in 1..Len(w) : Covers(w[j], k, i)

(* On the wire and at the sender, nothing of a run follows its FILE_LAST.   *)
Closing(w, out) ==
    \A i \in 1..Len(w) : w[i].type = "FILE_LAST" =>
        /\ w[i].job < out.job
        /\ \A j \in i+1..Len(w) : w[i].job < w[j].job

(* A stored file is the one of run k, but for holes where a chunk was lost  *)
(* or, at the places in coming, has not come yet.                           *)
ButForHoles(file, f, k, coming) ==
    /\ file.name = Name(f)
    /\ Len(file.bytes) = FileLen[f]
    /\ \A i \in 1..FileLen[f] :
         \/ file.bytes[i] = Content(f)[i]
         \/ file.bytes[i] = Hole /\ (i \in coming \/ LostByte(k, i))

StillToCome(k, out) == {i \in 1..FileLen[jobs[k]] : Coming(wire, out, k, i)}

(* As long as no FILE_LAST is lost the receiver is never met by a FILE_INFO *)
(* with a file in its hands; as long as only chunks are lost, by a chunk    *)
(* without one, and the file in its hands is the one the chunk belongs to.  *)
LossLine(t) ==
    "FILE_LAST" \notin LostTypes =>
        /\ leaked = {}
        /\ "receiver" \notin down =>
             InOrder(Taken(WriteFile, Len(arrived)), wire, NextOut(thread[t], jobs), LostTypes)

(* The file in the receiver's hands, with n files behind it, and those it   *)
(* has not opened yet.                                                      *)
BeingWritten(n, out) ==
    WriteFile # Closed =>
        n < Len(jobs) /\ ButForHoles(WriteFile, jobs[n + 1], n + 1, StillToCome(n + 1, out))

NotYetOpened(n, out) ==
    \A k \in n+1..Len(jobs) : k > n + 1 \/ WriteFile = Closed =>
        \A i \in 1..FileLen[jobs[k]] : i \in StillToCome(k, out) \/ LostByte(k, i)

(* As long as only chunks are lost, and the system refuses nothing, the     *)
(* receiver lives; a file that arrived has no holes but those of its lost   *)
(* chunks, the one being written lacks besides what is still to come, and   *)
(* of those behind it all that was not lost is still to come.               *)
OnlyChunksLost(t) ==
    LostTypes \subseteq {"FILE_MORE"} /\ ~ShortSent =>
        /\ "receiver" \in down => refused # {}
        /\ Len(arrived) <= Len(jobs)
        /\ \A k \in DOMAIN arrived : ButForHoles(arrived[k], jobs[k], k, {})
        /\ "receiver" \notin down =>
             /\ BeingWritten(Len(arrived), NextOut(thread[t], jobs))
             /\ NotYetOpened(Len(arrived), NextOut(thread[t], jobs))

UnderLoss ==
    \A t \in Threads :
        /\ FramesRight(t)
        /\ Closing(wire, NextOut(thread[t], jobs))
        /\ LostTypes \subseteq {"FILE_INFO", "FILE_MORE", "FILE_LAST"}
        /\ LossLine(t)
        /\ OnlyChunksLost(t)
=============================================================================
