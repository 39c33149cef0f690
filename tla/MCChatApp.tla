----------------------------- MODULE MCChatApp -----------------------------
(***************************************************************************)
(* Instances of ChatApp with pieces of 2 bytes: texts of length 1 travel   *)
(* whole, 2 and 3 in a first and a last frame (the last of 2 is only the   *)
(* NUL), 4 as well (the NUL of its last frame does not fit), 5 and 6 with  *)
(* a middle frame.                                                         *)
(***************************************************************************)
EXTENDS ChatApp

AllTypes == {"whole", "first", "middle", "last"}
=============================================================================
