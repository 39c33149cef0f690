----------------------------- MODULE MCWinPcap -----------------------------
EXTENDS WinPcap

(* No adapter, one, two with names of which one begins the other, and one   *)
(* more than AdapterList has rows.                                          *)
MCAdapterNames ==
    {<<>>, <<<<"a">>>>, <<<<"a">>, <<"a", "b">>>>, <<<<"a">>, <<"b">>, <<"c">>>>}
=============================================================================
