---------------------------- MODULE MCFileTrans ----------------------------
(***************************************************************************)
(* Instances of FileTrans.  The names a, b, ... stand for files; chunks of *)
(* 3 bytes make files of 3 to 6 bytes take one frame, one full and one     *)
(* partial frame, or two full ones.                                        *)
(***************************************************************************)
EXTENDS FileTransInv

(* Two files longer than their names. *)
LongFileName == [a |-> 2, b |-> 1]
LongFileLen  == [a |-> 5, b |-> 6]

(* c is as long as its name, d is empty. *)
AnyFileName == [a |-> 2, c |-> 2, d |-> 1]
AnyFileLen  == [a |-> 4, c |-> 2, d |-> 0]

AllTypes == {"FILE_INFO", "FILE_MORE", "FILE_LAST"}

AllRefusals == {"OpenSend", "Read", "Open", "SetLength", "Write"}
=============================================================================
