----------------------------- MODULE Addresses -----------------------------
(***************************************************************************)
(* How Cipc2019Dlg reads an address from a text.  A text stands for the    *)
(* numbers that sscanf_s finds in it, at most six, up to the first thing   *)
(* that is neither a number nor the colon it expects.  The bytes are       *)
(* m_ucDstAddr's six and the three behind it.                              *)
(***************************************************************************)
EXTENDS Integers, Sequences

AddrLen  == 6
Reach    == AddrLen + 3

(* "%02x" stores an int at the place of byte i: the byte and three zeros. *)
Store(bytes, i, number) ==
    [k \in DOMAIN bytes |-> IF k = i THEN number ELSE IF k \in i + 1..i + 3 THEN 0 ELSE bytes[k]]

(* Slip: the last number is stored first. *)
StoucBackwards(numbers, bytes) ==
    LET place(i)  == Len(numbers) + 1 - i
        stored[i \in 0..Len(numbers)] ==
          IF i = 0 THEN bytes ELSE Store(stored[i - 1], place(i), numbers[place(i)])
    IN  stored[Len(numbers)]

(* One number after the other. *)
Stouc(numbers, bytes) ==
    LET stored[i \in 0..Len(numbers)] ==
          IF i = 0 THEN bytes ELSE Store(stored[i - 1], i, numbers[i])
    IN  stored[Len(numbers)]
=============================================================================
