--------------------------- MODULE MCConfigArchive ---------------------------
(* Instances of ConfigArchive for TLC.  Characters are strings; names of one *)
(* or two of them are enough to be equal, to differ, to be a prefix of one   *)
(* another and to hold a reserved character.                                 *)
EXTENDS ConfigArchive

Slash == {"/", " ", ":"}
Dev(name, type) == [name |-> name, type |-> type]

\* The two types that share the working file, and one that does not.
MixedList ==
  <<Dev(<<"r", "/">>, "xrv"), Dev(<<"s">>, "csr"), Dev(<<"t">>, "mikrotik")>>
\* The last two share a directory, where a SEND to the first of them may look
\* for files of the second.
ScpList ==
  <<Dev(<<"t">>, "mikrotik"), Dev(<<"s", "/">>, "juniper"), Dev(<<"s", ":">>, "csr")>>
\* The name of the first is a prefix of the name of the second.
EltexList == <<Dev(<<"r">>, "eltex"), Dev(<<"r", "s">>, "eltex")>>
EltexHosts == <<<<"r", "h">>, <<"r", "s", "h">>>>
NoHosts == <<<<"x">>, <<"y">>, <<"z">>>>

StopFaults == {"driver", "kill", "noroot"}

AllSetups ==
  {[list |-> MixedList, host |-> NoHosts, faults |-> StopFaults],
   [list |-> ScpList, host |-> NoHosts, faults |-> FaultKinds],
   [list |-> EltexList, host |-> EltexHosts, faults |-> {"driver"}],
   [list |-> EltexList, host |-> EltexHosts, faults |-> {"driver", "disk"}]}
=============================================================================
