------------------------------- MODULE Calls -------------------------------
(***************************************************************************)
(* A call in main of a program that uses WinPcap: the objects it works on, *)
(* the one it hands out or takes back, whether it may fail and what the    *)
(* program then takes back before it returns, and whether the program may  *)
(* go "down" at it.  The loop over the packets of a capture is a call,     *)
(* too: they come "from" somewhere, and the program's handler "do"es       *)
(* something with them.                                                    *)
(***************************************************************************)

Uses(name, objects) ==
    [name |-> name, uses |-> objects, gets |-> {}, drops |-> {},
     fails |-> FALSE, cleanup |-> {}, down |-> FALSE, from |-> "", do |-> ""]
Checks(name, objects, cleanup) ==
    [Uses(name, objects) EXCEPT !.fails = TRUE, !.cleanup = cleanup]
Gets(name, o, objects, cleanup) == [Checks(name, objects, cleanup) EXCEPT !.gets = {o}]
Drops(name, o) == [Uses(name, {o}) EXCEPT !.drops = {o}]
Loop(h, from, do) == [Uses("pcap_loop", {h}) EXCEPT !.from = from, !.do = do]
LoopOrReturn(h, from, do, cleanup) ==
    [Loop(h, from, do) EXCEPT !.fails = TRUE, !.cleanup = cleanup]

(* Around this call the program does what C does not define.                *)
Risky(call) == [call EXCEPT !.down = TRUE]

(* What a call works on, and what is taken back should it fail. *)
Touched(call) == call.uses \cup call.cleanup
=============================================================================
