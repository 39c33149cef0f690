----------------------------- MODULE MCSession -----------------------------
EXTENDS Session

(* An address that ends with a single digit and a text that begins like one.*)
MCTexts ==
    {[numbers |-> <<1, 2, 1, 2, 1, 2>>, length |-> 16],
     [numbers |-> <<3, 2>>, length |-> 17]}
=============================================================================
