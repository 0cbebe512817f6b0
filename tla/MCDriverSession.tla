--------------------------- MODULE MCDriverSession ---------------------------
(* Instances of DriverSession for TLC.                                      *)
EXTENDS DriverSession

Drivers == {"xrv", "csr", "eltex", "mikrotik", "juniper"}
Xrv == {"xrv"}

\* Every file of up to two lines, and some sections with a line that is
\* refused, filtered or like a prompt before or after them.
Files ==
  UNION {[1 .. n -> LineKind] : n \in 0 .. 2} \cup
  {<<"header", "sub", "global">>, <<"header", "filtered", "sub">>,
   <<"header", "bad", "sub">>, <<"hash", "header", "global">>,
   <<"header", "sub", "quote">>, <<"global", "escape", "header">>}
AcceptedFiles == {<<"header", "sub">>, <<"header", "hash">>, <<"hash", "header">>}

AllFaults == FaultKinds
NoFaults == {}
=============================================================================
