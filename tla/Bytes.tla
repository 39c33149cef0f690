------------------------------- MODULE Bytes -------------------------------
(***************************************************************************)
(* The byte operations of the C runtime and of MFC that the layers call.   *)
(* A buffer is a sequence of bytes; a byte is a tuple that says where it   *)
(* comes from, e.g. <<"data", f, i>> for byte i of file f.                 *)
(***************************************************************************)
EXTENDS Integers, Sequences, FiniteSetsExt

NUL  == <<"nul">>      \* the zero byte that ends a C string
Junk == <<"junk">>     \* a byte the program reads without ever having set it
Hole == <<"hole">>     \* a byte of a file that was extended but not written

(* memcpy(dst, src, n) *)
Memcpy(dst, src, n) ==
    [i \in 1..Len(dst) |-> IF i <= n THEN src[i] ELSE dst[i]]

(* n bytes read from buf, which may hold fewer. *)
ReadBytes(buf, n) ==
    [i \in 1..n |-> IF i <= Len(buf) THEN buf[i] ELSE Junk]

(* CString::Format("%s", buf): the bytes before the first NUL.  Without one *)
(* the conversion runs on into memory the program did not set.              *)
Nuls(buf) == {i \in 1..Len(buf) : buf[i] = NUL}

CString(buf) ==
    IF Nuls(buf) = {} THEN Append(buf, Junk) ELSE SubSeq(buf, 1, Min(Nuls(buf)) - 1)

(* CFile::Seek(off, begin) and CFile::Write(data, Len(data)) on a file that *)
(* holds bytes: a write past the end extends the file, a write of nothing   *)
(* leaves it alone.                                                         *)
WriteAt(bytes, off, data) ==
    IF data = <<>> THEN bytes
    ELSE [i \in 1..Max({Len(bytes), off + Len(data)}) |->
            IF i \in off+1..off+Len(data) THEN data[i - off]
            ELSE IF i <= Len(bytes) THEN bytes[i] ELSE Hole]
=============================================================================
