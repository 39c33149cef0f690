------------------------------- MODULE Mains -------------------------------
(***************************************************************************)
(* A program runs: main makes one call after the other until it returns.   *)
(***************************************************************************)
EXTENDS Programs, Integers

VARIABLES
    prog,      \* the program that runs
    way,       \* the way its command line leads
    pc,        \* the number of the call it is at
    held,      \* the objects it has and may use
    status     \* "running", or how it ended

callVars == <<prog, way, pc, held, status>>

calls   == Programs[prog][way]
Running == status = "running"
Call    == calls[pc]
Looping == Running /\ Call.from # ""
Ended   == status \in {"returned", "failed"}

Start(programs) ==
    /\ prog \in DOMAIN programs /\ way \in DOMAIN programs[prog]
    /\ pc = 1 /\ held = {} /\ status = "running"

Advance ==
    IF pc = Len(calls) THEN status' = "returned" /\ UNCHANGED pc
    ELSE pc' = pc + 1 /\ UNCHANGED status

Succeed ==
    /\ held' = (held \cup Call.gets) \ Call.drops
    /\ Advance
    /\ UNCHANGED <<prog, way>>

Fail ==
    /\ Call.fails
    /\ held' = held \ Call.cleanup
    /\ status' = "failed"
    /\ UNCHANGED <<prog, way, pc>>

End(how) == status' = how /\ UNCHANGED <<prog, way, pc, held>>

GoDown == Running /\ ~Looping /\ Call.down /\ End("crashed")

(* The user presses Ctrl+C and nothing handles it. *)
Interrupt == Running /\ End("stopped")

CallsTypeOK ==
    /\ pc \in DOMAIN calls
    /\ status \in {"running", "returned", "failed", "stopped", "crashed"}
=============================================================================
