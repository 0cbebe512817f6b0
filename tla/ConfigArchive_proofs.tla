------------------------ MODULE ConfigArchive_proofs ------------------------
(***************************************************************************)
(* Proofs about ConfigArchive, for every list of devices, every names and   *)
(* every set of faults: what is stored under a date and what the links name. *)
(***************************************************************************)
EXTENDS ConfigArchive, SequenceTheorems, TLAPS

GetPlaces == {"session", "copy", "copying", "move", "move_cfg", "unlink", "symlink"}

\* Where execute_device_action can be, and the GETs the bound leaves room for.
PlaceOK ==
  /\ pc = "idle" <=> todo = << >>
  /\ pc = "next" /\ op = "get" => now + Len(todo) <= MaxStamp
  /\ pc \in GetPlaces =>
       /\ op = "get" /\ now \in Stamp
       /\ now + Len(todo) <= MaxStamp + 1
  /\ pc \in {"upload", "clean"} => op = "send"
  /\ pc = "copying" => TypeOf(Current) \in ScpTypes
  /\ pc = "move" => TypeOf(Current) = "eltex"
  /\ pc = "move_cfg" => TypeOf(Current) \in CiscoTypes

\* No link names the file a GET is about to write.
LinksAreOlder ==
  \A l \in Dir \X Extensions :
    latest[l] <= now /\ (pc \in GetPlaces => latest[l] < now)

\* What is about to be linked, and what is about to be moved.
CopiedIsComplete ==
  pc \in {"unlink", "symlink"} /\ TypeOf(Current) \in ScpTypes =>
    archive[OwnPath(Current, now)] = Got(Current, "full")
CutIsOwn ==
  pc = "move_cfg" =>
    cisco_cfg \in Config /\ (~DiskFails => cisco_cfg.of = Current /\ cisco_cfg.made = now)

IInv ==
  /\ TypeOK /\ PlaceOK
  /\ LinksAreOlder /\ CopiedIsComplete /\ CutIsOwn
  /\ ArchiveIsAuthentic /\ LinkedIsComplete

-----------------------------------------------------------------------------
(* The lists of a setup, and the place in a loop over them.                *)

\* What a device of the list has.
LEMMA DeviceFacts ==
  ASSUME setup \in Setups, NEW d \in Device
  PROVE  /\ TypeOf(d) \in DOMAIN Ext /\ SafeName(d) \in Dir
         /\ Ext[TypeOf(d)] \in Extensions
         /\ OwnLink(d) \in Dir \X Extensions
         /\ \A n \in Stamp : OwnPath(d, n) \in Path
         /\ \A n \in Stamp, g \in {"full", "part", "empty"} :
              /\ [of |-> d, grade |-> g, made |-> n] \in Config
              /\ [of |-> d, grade |-> g, made |-> n] # NoFile
<1>1. TypeOf(d) \in DOMAIN Ext
  BY SetupAssumption DEF Device, List, TypeOf
<1>2. Ext[TypeOf(d)] \in Extensions
  BY <1>1 DEF Ext, Extensions
<1>3. SafeName(d) \in Dir
  BY DEF Dir
<1>4. OwnLink(d) \in Dir \X Extensions
  BY <1>2, <1>3 DEF OwnLink
<1>5. \A n \in Stamp : OwnPath(d, n) \in Path
  BY <1>2, <1>3 DEF OwnPath, Path
<1>6. \A n \in Stamp, g \in {"full", "part", "empty"} :
        /\ [of |-> d, grade |-> g, made |-> n] \in Config
        /\ [of |-> d, grade |-> g, made |-> n] # NoFile
  BY NoFileAssumption DEF Config, Stamp, Device, List
<1> QED
  BY <1>1, <1>2, <1>3, <1>4, <1>5, <1>6

\* Everything the types are made of depends on the setup alone.
LEMMA SetupStays ==
  ASSUME setup' = setup
  PROVE  /\ Device' = Device /\ Dir' = Dir /\ Path' = Path
         /\ Config' = Config /\ HomeFiles' = HomeFiles
         /\ Fails' = Fails /\ DiskFails' = DiskFails
         /\ \A d : /\ TypeOf(d)' = TypeOf(d) /\ SafeName(d)' = SafeName(d)
                  /\ OwnLink(d)' = OwnLink(d)
                  /\ \A n : OwnPath(d, n)' = OwnPath(d, n)
<1>1. /\ Device' = Device /\ Fails' = Fails /\ DiskFails' = DiskFails
      /\ List' = List /\ HostName' = HostName
  BY DEF Device, List, HostName, Fails, DiskFails, Faults
<1>2. \A d : TypeOf(d)' = TypeOf(d) /\ SafeName(d)' = SafeName(d)
  BY <1>1 DEF TypeOf, SafeName
<1>3. Dir' = Dir
  BY <1>1, <1>2 DEF Dir
<1>4. Path' = Path /\ Config' = Config
  BY <1>1, <1>3 DEF Path, Config
<1>5. HomeFiles' = HomeFiles
  BY <1>1, <1>3, <1>4 DEF HomeFiles
<1>6. \A d : OwnLink(d)' = OwnLink(d) /\ \A n : OwnPath(d, n)' = OwnPath(d, n)
  BY <1>2 DEF OwnLink, OwnPath
<1> QED
  BY <1>1, <1>2, <1>3, <1>4, <1>5, <1>6

\* While a command runs there is a device it serves.
LEMMA Serving ==
  ASSUME TypeOK, PlaceOK, pc # "idle"
  PROVE  /\ Current \in Device
         /\ Len(todo) \in Nat \ {0}
         /\ Tail(todo) \in Seq(Device) /\ Len(Tail(todo)) = Len(todo) - 1
         /\ (Len(todo) = 1 <=> Tail(todo) = << >>)
<1>1. todo \in Seq(Device) /\ todo # << >>
  BY DEF TypeOK, PlaceOK
<1>2. /\ Current \in Device
      /\ Tail(todo) \in Seq(Device) /\ Len(Tail(todo)) = Len(todo) - 1
  BY <1>1, HeadTailProperties DEF Current
<1>3. Len(todo) \in Nat \ {0}
  BY <1>1, EmptySeq
<1>4. Len(todo) = 1 <=> Tail(todo) = << >>
  BY <1>2, <1>3, EmptySeq
<1> QED
  BY <1>2, <1>3, <1>4

\* After a return the loop is over or at its next device.
LEMMA ReturnKeeps ==
  ASSUME TypeOK, PlaceOK, pc # "idle", setup' = setup, Return,
         now' \in 0 .. MaxStamp,
         op = "get" => now' + Len(todo) <= MaxStamp + 1
  PROVE  /\ PlaceOK' /\ todo' \in Seq(Device) /\ pc' \in {"idle", "next"}
         /\ op' \in {"get", "send"}
<1>1. /\ Len(todo) \in Nat \ {0}
      /\ Tail(todo) \in Seq(Device) /\ Len(Tail(todo)) = Len(todo) - 1
      /\ (Len(todo) = 1 <=> Tail(todo) = << >>)
  BY Serving
<1>2. pc' \in {"idle", "next"} /\ (pc' = "idle" <=> todo' = << >>)
  BY <1>1 DEF Return
<1>3. op' = op /\ op \in {"get", "send"}
  BY DEF Return, TypeOK
<1>4. op' = "get" => now' + Len(todo') <= MaxStamp
  BY <1>1, <1>3, StampAssumption DEF Return
<1> QED
  BY <1>1, <1>2, <1>3, <1>4 DEF Return, PlaceOK, GetPlaces

-----------------------------------------------------------------------------
(* The invariant.                                                          *)

\* Before the first command nothing is stored.
LEMMA InitIInv == Init => IInv
<1> SUFFICES ASSUME Init PROVE IInv
  OBVIOUS
<1>1. TypeOK
  <2>1. dirs \subseteq {Root} \cup Dir
    BY DEF Init
  <2> QED
    BY <2>1, StampAssumption DEF Init, TypeOK
<1>2. PlaceOK
  BY DEF Init, PlaceOK, GetPlaces
<1>3. LinksAreOlder /\ CopiedIsComplete /\ CutIsOwn
  BY DEF Init, LinksAreOlder, CopiedIsComplete, CutIsOwn, GetPlaces
<1>4. ArchiveIsAuthentic
  BY DEF Init, ArchiveIsAuthentic
<1>5. LinkedIsComplete
  BY DeviceFacts DEF Init, LinkedIsComplete
<1> QED
  BY <1>1, <1>2, <1>3, <1>4, <1>5 DEF IInv

\* A step that leaves the files and the links alone.
LEMMA FilesStay ==
  ASSUME IInv, UNCHANGED <<setup, archive, latest>>
  PROVE  /\ ArchiveIsAuthentic' /\ LinkedIsComplete'
         /\ now' = now /\ (pc' \in GetPlaces => pc \in GetPlaces) => LinksAreOlder'
<1>1. ArchiveIsAuthentic'
  BY SetupStays DEF IInv, ArchiveIsAuthentic
<1>2. LinkedIsComplete'
  BY SetupStays DEF IInv, LinkedIsComplete
<1>3. now' = now /\ (pc' \in GetPlaces => pc \in GetPlaces) => LinksAreOlder'
  BY SetupStays DEF IInv, LinksAreOlder
<1> QED
  BY <1>1, <1>2, <1>3

\* A command starts at the first device of its list.
LEMMA CommandKeeps == IInv /\ Command /\ UNCHANGED setup => IInv'
<1> SUFFICES ASSUME IInv, Command, UNCHANGED setup PROVE IInv'
  OBVIOUS
<1>1. todo' \in Seq(Device) /\ todo' # << >>
  <2>1. Len(List) \in Nat \ {0} /\ Device = 1 .. Len(List)
    BY SetupAssumption DEF IInv, TypeOK, Device, List
  <2>2. ASSUME NEW d \in Device, todo' = <<d>>
        PROVE  todo' \in Seq(Device) /\ todo' # << >>
    BY <2>2
  <2>3. ASSUME todo' = [d \in 1 .. Len(List) |-> d]
        PROVE  todo' \in Seq(1 .. Len(List)) /\ todo' # << >>
    BY <2>1, <2>3
  <2> QED
    BY <2>1, <2>2, <2>3 DEF Command
<1>2. TypeOK'
  BY <1>1, SetupStays DEF IInv, TypeOK, Command, store
<1>3. PlaceOK'
  BY <1>1 DEF Command, PlaceOK, GetPlaces
<1>4. LinksAreOlder' /\ ArchiveIsAuthentic' /\ LinkedIsComplete'
  BY FilesStay DEF Command, store, GetPlaces
<1>5. CopiedIsComplete' /\ CutIsOwn'
  BY DEF Command, CopiedIsComplete, CutIsOwn
<1> QED
  BY <1>2, <1>3, <1>4, <1>5 DEF IInv

\* A command is stopped.
LEMMA KillKeeps == IInv /\ Kill /\ UNCHANGED setup => IInv'
<1> SUFFICES ASSUME IInv, Kill, UNCHANGED setup PROVE IInv'
  OBVIOUS
<1>1. TypeOK'
  BY SetupStays DEF IInv, TypeOK, Kill, store
<1>2. PlaceOK'
  BY DEF Kill, PlaceOK, GetPlaces
<1>3. LinksAreOlder' /\ ArchiveIsAuthentic' /\ LinkedIsComplete'
  BY FilesStay DEF Kill, store, GetPlaces
<1>4. CopiedIsComplete' /\ CutIsOwn'
  BY DEF Kill, CopiedIsComplete, CutIsOwn
<1> QED
  BY <1>1, <1>2, <1>3, <1>4 DEF IInv

-----------------------------------------------------------------------------
(* The steps of a GET.                                                     *)

\* Places of a GET: the clock is at its stamp, and a return is legal.
LEMMA GetFacts ==
  ASSUME IInv, pc \in GetPlaces
  PROVE  /\ Current \in Device /\ now \in Stamp /\ op = "get" /\ pc # "idle"
         /\ now \in 0 .. MaxStamp /\ now + Len(todo) <= MaxStamp + 1
<1>1. pc # "idle"
  BY DEF GetPlaces
<1> QED
  BY <1>1, Serving DEF IInv, TypeOK, PlaceOK

\* The first step takes a new stamp.
LEMMA GetBeginKeeps == IInv /\ GetBegin /\ UNCHANGED setup => IInv'
<1> SUFFICES ASSUME IInv, GetBegin, UNCHANGED setup PROVE IInv'
  OBVIOUS
<1>1. /\ Current \in Device /\ Len(todo) \in Nat \ {0} /\ todo \in Seq(Device) /\ todo # << >>
      /\ setup \in Setups
  BY Serving DEF IInv, TypeOK, PlaceOK, GetBegin
<1>2. now \in Nat /\ now' = now + 1 /\ now' \in Stamp /\ now' + Len(todo) <= MaxStamp + 1
  BY <1>1, StampAssumption DEF IInv, TypeOK, PlaceOK, GetBegin, Stamp
<1>3. [of |-> Current, grade |-> "part", made |-> now'] \in Config
  BY <1>1, <1>2, DeviceFacts
<1>4. MadeBy(Current) \subseteq {Root} \cup Dir
  BY <1>1, DeviceFacts DEF MadeBy
<1>5. /\ PlaceOK' /\ todo' \in Seq(Device) /\ op' = "get"
      /\ pc' \in {"idle", "next", "copy", "session"}
  <2>1. CASE Return
    <3>1. op' = op
      BY <2>1 DEF Return
    <3> QED
      BY <2>1, <3>1, <1>2, ReturnKeeps DEF IInv, GetBegin, Stamp
  <2>2. ASSUME NEW label \in {"copy", "session"}, GoTo(label)
        PROVE  /\ PlaceOK' /\ todo' \in Seq(Device) /\ op' = "get"
               /\ pc' \in {"copy", "session"}
    BY <2>2, <1>1, <1>2, StampAssumption DEF GoTo, PlaceOK, GetPlaces, GetBegin, Stamp
  <2> QED
    BY <2>1, <2>2 DEF GetBegin
<1>6. TypeOK'
  <2>1. dirs' \subseteq {Root} \cup Dir
    BY <1>4 DEF IInv, TypeOK, GetBegin
  <2>2. cisco_cfg' \in Config \cup {NoFile}
    BY <1>3 DEF IInv, TypeOK, GetBegin
  <2> QED
    BY <1>2, <1>5, <2>1, <2>2, SetupStays DEF IInv, TypeOK, GetBegin, Stamp
<1>7. LinksAreOlder'
  BY <1>2, SetupStays DEF IInv, TypeOK, LinksAreOlder, GetBegin
<1>8. CopiedIsComplete' /\ CutIsOwn'
  BY <1>5 DEF CopiedIsComplete, CutIsOwn
<1>9. ArchiveIsAuthentic' /\ LinkedIsComplete'
  BY FilesStay DEF GetBegin
<1> QED
  BY <1>5, <1>6, <1>7, <1>8, <1>9 DEF IInv

\* The step after it, in the same GET.
LEMMA GoesOn ==
  ASSUME IInv, pc \in GetPlaces, UNCHANGED <<setup, now>>,
         NEW label \in GetPlaces, GoTo(label),
         label = "copying" => TypeOf(Current) \in ScpTypes,
         label = "move" => TypeOf(Current) = "eltex",
         label = "move_cfg" => TypeOf(Current) \in CiscoTypes
  PROVE  /\ PlaceOK' /\ todo' \in Seq(Device) /\ op' \in {"get", "send"} /\ pc' = label
         /\ Current' = Current
<1>1. op' = op /\ todo' = todo /\ todo # << >> /\ pc' = label /\ Current' = Current
  BY DEF IInv, GoTo, PlaceOK, GetPlaces, Current
<1>2. PlaceOK'
  BY <1>1, GetFacts, SetupStays DEF PlaceOK, GetPlaces, Stamp
<1> QED
  BY <1>1, <1>2 DEF IInv, TypeOK

\* The end of a GET, good or not.
LEMMA GetReturns ==
  ASSUME IInv, pc \in GetPlaces, UNCHANGED <<setup, now>>, Return
  PROVE  /\ PlaceOK' /\ todo' \in Seq(Device) /\ op' \in {"get", "send"}
         /\ pc' \in {"idle", "next"} /\ CopiedIsComplete' /\ CutIsOwn'
<1>1. /\ PlaceOK' /\ todo' \in Seq(Device) /\ op' \in {"get", "send"}
      /\ pc' \in {"idle", "next"}
  BY GetFacts, ReturnKeeps DEF IInv
<1> QED
  BY <1>1 DEF CopiedIsComplete, CutIsOwn

\* A file written under the date of the GET is not one that a link names.
LEMMA WriteKeeps ==
  ASSUME IInv, pc \in GetPlaces, UNCHANGED <<setup, now, latest>>, NEW c \in Config,
         archive' = [archive EXCEPT ![OwnPath(Current, now)] = c],
         ~DiskFails /\ Ext[TypeOf(Current)] # "config" => c.of = Current /\ c.made = now
  PROVE  /\ archive' \in [Path -> Config \cup {NoFile}]
         /\ ArchiveIsAuthentic' /\ LinkedIsComplete'
<1>1. /\ Current \in Device /\ setup \in Setups /\ now \in Stamp
      /\ archive \in [Path -> Config \cup {NoFile}]
  BY GetFacts DEF IInv, TypeOK
<1>2. OwnPath(Current, now) \in Path
  BY <1>1, DeviceFacts
<1>3. archive' \in [Path -> Config \cup {NoFile}]
  BY <1>1, <1>2
<1>4. ArchiveIsAuthentic'
  <2>1. OwnPath(Current, now).ext = Ext[TypeOf(Current)] /\ OwnPath(Current, now).stamp = now
        /\ OwnPath(Current, now).dir = SafeName(Current)
    BY DEF OwnPath
  <2> QED
    BY <1>1, <1>2, <2>1, SetupStays DEF IInv, ArchiveIsAuthentic
<1>5. LinkedIsComplete'
  <2> SUFFICES ASSUME NEW d \in Device, TypeOf(d) \in ScpTypes, latest[OwnLink(d)] # 0
               PROVE  archive'[OwnPath(d, latest[OwnLink(d)])]
                        = archive[OwnPath(d, latest[OwnLink(d)])]
    BY SetupStays DEF IInv, LinkedIsComplete
  <2>1. OwnLink(d) \in Dir \X Extensions
    BY <1>1, DeviceFacts
  <2>2. latest[OwnLink(d)] < now /\ latest[OwnLink(d)] \in 0 .. MaxStamp
    BY <2>1 DEF IInv, LinksAreOlder, TypeOK
  <2>3. OwnPath(d, latest[OwnLink(d)]).stamp # OwnPath(Current, now).stamp
    BY <2>2, <1>1, StampAssumption DEF OwnPath, Stamp
  <2>4. OwnPath(d, latest[OwnLink(d)]) # OwnPath(Current, now)
    BY <2>3
  <2>5. OwnPath(d, latest[OwnLink(d)]) \in Path
    BY <2>2, <1>1, DeviceFacts, StampAssumption DEF Stamp
  <2> QED
    BY <2>4, <2>5, <1>1
<1> QED
  BY <1>3, <1>4, <1>5

\* scp starts and ends, or fails.
LEMMA CopyKeeps ==
  IInv /\ (CopyStarts \/ CopyEnds \/ CopyFails) /\ UNCHANGED setup => IInv'
<1> SUFFICES ASSUME IInv, CopyStarts \/ CopyEnds \/ CopyFails, UNCHANGED setup PROVE IInv'
  OBVIOUS
<1>1. /\ pc \in GetPlaces /\ UNCHANGED <<dirs, latest, cisco_cfg, home, now, acked, sent>>
  BY DEF CopyStarts, CopyEnds, CopyFails, At, store, GetPlaces
<1>2. Current \in Device /\ now \in Stamp /\ setup \in Setups
  BY <1>1, GetFacts DEF IInv, TypeOK
<1>3. ASSUME CopyStarts \/ CopyEnds
      PROVE  archive' \in [Path -> Config \cup {NoFile}]
             /\ ArchiveIsAuthentic' /\ LinkedIsComplete'
  <2>1. PICK g \in {"full", "part"} :
          archive' = [archive EXCEPT ![OwnPath(Current, now)] = Got(Current, g)]
    BY <1>3 DEF CopyStarts, CopyEnds
  <2>2. Got(Current, g) \in Config /\ Got(Current, g).of = Current /\ Got(Current, g).made = now
    BY <1>2, DeviceFacts DEF Got
  <2> QED
    BY <2>1, <2>2, <1>1, WriteKeeps
<1>4. CASE CopyStarts
  <2>1. GoTo("copying") /\ TypeOf(Current) \in ScpTypes
    BY <1>4 DEF CopyStarts, At
  <2>2. PlaceOK' /\ todo' \in Seq(Device) /\ op' \in {"get", "send"} /\ pc' = "copying"
    BY <1>1, <2>1, GoesOn DEF GetPlaces
  <2>3. LinksAreOlder' /\ CopiedIsComplete' /\ CutIsOwn'
    BY <1>1, <2>2, SetupStays DEF IInv, LinksAreOlder, CopiedIsComplete, CutIsOwn
  <2> QED
    BY <1>1, <1>3, <1>4, <2>2, <2>3, SetupStays DEF IInv, TypeOK
<1>5. CASE CopyEnds
  <2>1. GoTo("unlink") /\ archive' = [archive EXCEPT ![OwnPath(Current, now)] = Got(Current, "full")]
    BY <1>5 DEF CopyEnds
  <2>2. /\ PlaceOK' /\ todo' \in Seq(Device) /\ op' \in {"get", "send"} /\ pc' = "unlink"
        /\ Current' = Current
    BY <1>1, <2>1, GoesOn DEF GetPlaces
  <2>3. LinksAreOlder' /\ CutIsOwn'
    BY <1>1, <2>2, SetupStays DEF IInv, LinksAreOlder, CutIsOwn
  <2>4. CopiedIsComplete'
    <3>1. archive'[OwnPath(Current, now)] = Got(Current, "full")
      BY <2>1, <1>2, DeviceFacts DEF IInv, TypeOK
    <3>2. Got(Current, "full")' = Got(Current, "full")
      BY <2>2, <1>1 DEF Got
    <3> QED
      BY <1>1, <2>2, <3>1, <3>2, SetupStays DEF CopiedIsComplete
  <2> QED
    BY <1>1, <1>3, <1>5, <2>2, <2>3, <2>4, SetupStays DEF IInv, TypeOK
<1>6. CASE CopyFails
  <2>1. Return /\ archive' = archive
    BY <1>6 DEF CopyFails, store
  <2>2. /\ PlaceOK' /\ todo' \in Seq(Device) /\ op' \in {"get", "send"}
        /\ pc' \in {"idle", "next"} /\ CopiedIsComplete' /\ CutIsOwn'
    BY <1>1, <2>1, GetReturns
  <2>3. ArchiveIsAuthentic' /\ LinkedIsComplete' /\ LinksAreOlder'
    BY <1>1, <2>1, FilesStay
  <2> QED
    BY <1>1, <2>1, <2>2, <2>3, SetupStays DEF IInv, TypeOK
<1> QED
  BY <1>4, <1>5, <1>6

\* An Eltex GET writes below "config" only, whatever it takes from ~/.
LEMMA EltexKeeps == IInv /\ (EltexSession \/ EltexMove) /\ UNCHANGED setup => IInv'
<1> SUFFICES ASSUME IInv, EltexSession \/ EltexMove, UNCHANGED setup PROVE IInv'
  OBVIOUS
<1>1. /\ pc \in GetPlaces /\ UNCHANGED <<dirs, latest, cisco_cfg, now, acked, sent>>
      /\ TypeOf(Current) = "eltex" /\ pc \in {"session", "move"}
  BY DEF IInv, PlaceOK, EltexSession, EltexMove, At, GetPlaces
<1>2. Current \in Device /\ now \in Stamp /\ setup \in Setups
  BY <1>1, GetFacts DEF IInv, TypeOK
<1>3. /\ PlaceOK' /\ todo' \in Seq(Device) /\ op' \in {"get", "send"} /\ pc' # "move_cfg"
      /\ pc' \in {"idle", "next", "move", "unlink"}
      /\ CopiedIsComplete' /\ CutIsOwn'
  <2>1. CASE Return
    BY <2>1, <1>1, GetReturns
  <2>2. ASSUME NEW label \in {"move", "unlink"}, GoTo(label)
        PROVE  /\ PlaceOK' /\ todo' \in Seq(Device) /\ op' \in {"get", "send"} /\ pc' = label
               /\ CopiedIsComplete' /\ CutIsOwn'
    <3>1. /\ PlaceOK' /\ todo' \in Seq(Device) /\ op' \in {"get", "send"} /\ pc' = label
          /\ Current' = Current
      BY <1>1, <2>2, GoesOn DEF GetPlaces
    <3> QED
      BY <1>1, <3>1, SetupStays DEF CopiedIsComplete, CutIsOwn, ScpTypes
  <2> QED
    BY <2>1, <2>2 DEF EltexSession, EltexMove
<1>4. LinksAreOlder'
  BY <1>1, SetupStays DEF IInv, LinksAreOlder
<1>5. CASE EltexSession
  <2>1. home' \subseteq HomeFiles
    <3>1. \A g \in {"full", "part"} : Got(Current, g) \in Config
      BY <1>2, DeviceFacts DEF Got
    <3>2. \A g \in {"full", "part"} :
            HomeFile(HostName[Current], "fetched", Got(Current, g)) \in HomeFiles
      BY <1>2, <3>1 DEF HomeFile, HomeFiles
    <3>3. home \subseteq HomeFiles
      BY DEF IInv, TypeOK
    <3>4. CASE home' = home
      BY <3>3, <3>4
    <3>5. ASSUME NEW g \in {"full", "part"},
                 home' = home \cup {HomeFile(HostName[Current], "fetched", Got(Current, g))}
          PROVE  home' \subseteq HomeFiles
      BY <3>2, <3>3, <3>5
    <3> QED
      BY <1>5, <3>4, <3>5 DEF EltexSession
  <2>2. archive' = archive
    BY <1>5 DEF EltexSession
  <2>3. ArchiveIsAuthentic' /\ LinkedIsComplete'
    BY <1>1, <2>2, FilesStay
  <2> QED
    BY <1>1, <1>3, <1>4, <2>1, <2>2, <2>3, SetupStays DEF IInv, TypeOK
<1>6. CASE EltexMove
  <2>1. CASE UNCHANGED <<archive, home>>
    <3>1. ArchiveIsAuthentic' /\ LinkedIsComplete'
      BY <1>1, <2>1, FilesStay
    <3> QED
      BY <1>1, <1>3, <1>4, <2>1, <3>1, SetupStays DEF IInv, TypeOK
  <2>2. ASSUME NEW f \in home, home' = home \ {f},
               archive' = [archive EXCEPT ![OwnPath(Current, now)] = f.config]
        PROVE  IInv'
    <3>1. f.config \in Config
      BY DEF IInv, TypeOK, HomeFiles
    <3>2. Ext[TypeOf(Current)] = "config"
      BY <1>1 DEF Ext
    <3>3. archive' \in [Path -> Config \cup {NoFile}] /\ ArchiveIsAuthentic' /\ LinkedIsComplete'
      BY <1>1, <2>2, <3>1, <3>2, WriteKeeps
    <3> QED
      BY <1>1, <1>3, <1>4, <2>2, <3>3, SetupStays DEF IInv, TypeOK
  <2> QED
    BY <1>6, <2>1, <2>2 DEF EltexMove, Mv, Moves, Matching
<1> QED
  BY <1>5, <1>6

\* A Cisco session leaves its own text in cisco.cfg, if the shell can write it.
LEMMA SessionKeeps == IInv /\ (XrvSession \/ CsrSession) /\ UNCHANGED setup => IInv'
<1> SUFFICES ASSUME IInv, XrvSession \/ CsrSession, UNCHANGED setup PROVE IInv'
  OBVIOUS
<1>1. /\ pc \in GetPlaces /\ UNCHANGED <<dirs, archive, latest, home, now, acked, sent>>
      /\ TypeOf(Current) \in CiscoTypes
  BY DEF XrvSession, CsrSession, CsrCut, At, GetPlaces, CiscoTypes
<1>2. Current \in Device /\ now \in Stamp /\ setup \in Setups
  BY <1>1, GetFacts DEF IInv, TypeOK
<1>3. \A g \in {"full", "part", "empty"} :
        Got(Current, g) \in Config /\ Got(Current, g).of = Current /\ Got(Current, g).made = now
  BY <1>2, DeviceFacts DEF Got
<1>4. \/ \E g \in {"full", "part", "empty"} : cisco_cfg' = Got(Current, g)
      \/ DiskFails /\ cisco_cfg' = cisco_cfg
      \/ Return /\ cisco_cfg' = cisco_cfg
  BY DEF XrvSession, CsrSession, CsrCut, CutOut
<1>5. ArchiveIsAuthentic' /\ LinkedIsComplete' /\ LinksAreOlder'
  BY <1>1, FilesStay
<1>6. cisco_cfg' \in Config \cup {NoFile}
  BY <1>3, <1>4 DEF IInv, TypeOK
<1>7. CASE Return
  <2>1. /\ PlaceOK' /\ todo' \in Seq(Device) /\ op' \in {"get", "send"}
        /\ pc' \in {"idle", "next"} /\ CopiedIsComplete' /\ CutIsOwn'
    BY <1>1, <1>7, GetReturns
  <2> QED
    BY <1>1, <1>5, <1>6, <2>1, SetupStays DEF IInv, TypeOK
<1>8. CASE GoTo("move_cfg")
  <2>1. /\ PlaceOK' /\ todo' \in Seq(Device) /\ op' \in {"get", "send"} /\ pc' = "move_cfg"
        /\ Current' = Current
    BY <1>1, <1>8, GoesOn DEF GetPlaces
  <2>2. CopiedIsComplete'
    BY <2>1 DEF CopiedIsComplete
  <2>3. cisco_cfg' \in Config
    <3>1. cisco_cfg' # NoFile \/ \E g \in {"full", "part", "empty"} : cisco_cfg' = Got(Current, g)
      BY <2>1, <1>8 DEF XrvSession, CsrSession, CsrCut, CutOut, Return
    <3> QED
      BY <1>3, <1>6, <3>1
  <2>4. ~Return
    BY <2>1 DEF Return
  <2>5. CutIsOwn'
    BY <1>1, <1>3, <1>4, <2>1, <2>3, <2>4, SetupStays DEF CutIsOwn
  <2> QED
    BY <1>1, <1>5, <1>6, <2>1, <2>2, <2>5, SetupStays DEF IInv, TypeOK
<1> QED
  BY <1>7, <1>8 DEF XrvSession, CsrSession, CsrCut

\* What is moved is what was cut out just before.
LEMMA MoveCfgKeeps == IInv /\ MoveCfg /\ UNCHANGED setup => IInv'
<1> SUFFICES ASSUME IInv, MoveCfg, UNCHANGED setup PROVE IInv'
  OBVIOUS
<1>1. /\ pc \in GetPlaces /\ pc = "move_cfg" /\ UNCHANGED <<latest, home, now, acked, sent>>
      /\ TypeOf(Current) \in CiscoTypes /\ GoTo("unlink")
  BY DEF IInv, PlaceOK, MoveCfg, GetPlaces
<1>2. Current \in Device /\ now \in Stamp /\ setup \in Setups
  BY <1>1, GetFacts DEF IInv, TypeOK
<1>3. /\ PlaceOK' /\ todo' \in Seq(Device) /\ op' \in {"get", "send"} /\ pc' = "unlink"
      /\ Current' = Current
  BY <1>1, GoesOn DEF GetPlaces
<1>4. LinksAreOlder' /\ CopiedIsComplete' /\ CutIsOwn'
  BY <1>1, <1>3, SetupStays
  DEF IInv, LinksAreOlder, CopiedIsComplete, CutIsOwn, ScpTypes, CiscoTypes
<1>5. MadeBy(Current) \subseteq {Root} \cup Dir
  BY <1>2, DeviceFacts DEF MadeBy
<1>6. dirs' \subseteq {Root} \cup Dir
  BY <1>5 DEF IInv, TypeOK, MoveCfg
<1>7. CASE UNCHANGED <<archive, cisco_cfg>>
  <2>1. ArchiveIsAuthentic' /\ LinkedIsComplete'
    BY <1>1, <1>7, FilesStay
  <2> QED
    BY <1>1, <1>3, <1>4, <1>6, <1>7, <2>1, SetupStays DEF IInv, TypeOK
<1>8. ASSUME archive' = [archive EXCEPT ![OwnPath(Current, now)] = cisco_cfg],
             cisco_cfg' = NoFile
      PROVE  IInv'
  <2>1. /\ archive' \in [Path -> Config \cup {NoFile}]
        /\ ArchiveIsAuthentic' /\ LinkedIsComplete'
    <3>1. cisco_cfg \in Config /\ (~DiskFails => cisco_cfg.of = Current /\ cisco_cfg.made = now)
      BY <1>1 DEF IInv, CutIsOwn
    <3> QED
      BY <1>1, <1>8, <3>1, WriteKeeps
  <2> QED
    BY <1>1, <1>3, <1>4, <1>6, <1>8, <2>1, SetupStays DEF IInv, TypeOK
<1> QED
  BY <1>7, <1>8 DEF MoveCfg

\* Taking the old link away.
LEMMA UnlinkKeeps == IInv /\ Unlink /\ UNCHANGED setup => IInv'
<1> SUFFICES ASSUME IInv, Unlink, UNCHANGED setup PROVE IInv'
  OBVIOUS
<1>1. /\ pc \in GetPlaces /\ pc = "unlink" /\ GoTo("symlink")
      /\ UNCHANGED <<dirs, archive, cisco_cfg, home, now, acked, sent>>
  BY DEF Unlink, GetPlaces
<1>2. Current \in Device /\ now \in Stamp /\ setup \in Setups
  BY <1>1, GetFacts DEF IInv, TypeOK
<1>3. /\ PlaceOK' /\ todo' \in Seq(Device) /\ op' \in {"get", "send"} /\ pc' = "symlink"
      /\ Current' = Current
  BY <1>1, GoesOn DEF GetPlaces
<1>4. /\ latest' \in [Dir \X Extensions -> 0 .. MaxStamp]
      /\ \A l \in Dir \X Extensions : latest'[l] = 0 \/ latest'[l] = latest[l]
  <2>1. latest' = latest \/ latest' = [latest EXCEPT ![OwnLink(Current)] = 0]
    BY DEF Unlink
  <2> QED
    BY <2>1, StampAssumption DEF IInv, TypeOK
<1>5. LinksAreOlder'
  BY <1>1, <1>2, <1>4, SetupStays, StampAssumption DEF IInv, LinksAreOlder, Stamp
<1>6. CopiedIsComplete' /\ CutIsOwn'
  BY <1>1, <1>3, SetupStays DEF IInv, CopiedIsComplete, CutIsOwn, Got
<1>7. ArchiveIsAuthentic'
  BY <1>1, SetupStays DEF IInv, ArchiveIsAuthentic
<1>8. LinkedIsComplete'
  <2>1. \A d \in Device : OwnLink(d) \in Dir \X Extensions
    BY <1>2, DeviceFacts
  <2> QED
    BY <1>1, <1>4, <2>1, SetupStays DEF IInv, LinkedIsComplete
<1> QED
  BY <1>1, <1>3, <1>4, <1>5, <1>6, <1>7, <1>8, SetupStays DEF IInv, TypeOK

\* The link made at the end of a GET names what it has copied.
LEMMA SymlinkKeeps == IInv /\ Symlink /\ UNCHANGED setup => IInv'
<1> SUFFICES ASSUME IInv, Symlink, UNCHANGED setup PROVE IInv'
  OBVIOUS
<1>1. /\ pc \in GetPlaces /\ pc = "symlink" /\ Return
      /\ UNCHANGED <<dirs, archive, cisco_cfg, home, now, sent>>
      /\ acked' = [acked EXCEPT ![Current] = now]
  BY DEF Symlink, GetPlaces
<1>2. Current \in Device /\ now \in Stamp /\ now \in 0 .. MaxStamp /\ setup \in Setups
  BY <1>1, GetFacts DEF IInv, TypeOK
<1>3. /\ PlaceOK' /\ todo' \in Seq(Device) /\ op' \in {"get", "send"}
      /\ pc' \in {"idle", "next"} /\ CopiedIsComplete' /\ CutIsOwn'
  BY <1>1, GetReturns
<1>4. /\ latest' \in [Dir \X Extensions -> 0 .. MaxStamp]
      /\ \A l \in Dir \X Extensions :
           latest'[l] = latest[l] \/ (l = OwnLink(Current) /\ latest'[l] = now)
  BY <1>2 DEF IInv, TypeOK, Symlink
<1>5. LinksAreOlder'
  BY <1>1, <1>2, <1>3, <1>4, SetupStays, StampAssumption DEF IInv, LinksAreOlder, GetPlaces
<1>6. ArchiveIsAuthentic'
  BY <1>1, SetupStays DEF IInv, ArchiveIsAuthentic
<1>7. LinkedIsComplete'
  <2> SUFFICES ASSUME NEW d \in Device, TypeOf(d) \in ScpTypes, latest'[OwnLink(d)] # 0
               PROVE  LET file == archive[OwnPath(d, latest'[OwnLink(d)])]
                      IN  file # NoFile /\ file.grade = "full" /\ SafeName(file.of) = SafeName(d)
    BY <1>1, SetupStays DEF LinkedIsComplete
  <2>1. OwnLink(d) \in Dir \X Extensions
    BY <1>2, DeviceFacts
  <2>2. CASE latest'[OwnLink(d)] = latest[OwnLink(d)]
    BY <2>2 DEF IInv, LinkedIsComplete
  <2>3. CASE OwnLink(d) = OwnLink(Current) /\ latest'[OwnLink(d)] = now
    <3>1. SafeName(d) = SafeName(Current) /\ Ext[TypeOf(d)] = Ext[TypeOf(Current)]
      BY <2>3 DEF OwnLink
    <3>2. TypeOf(Current) \in DOMAIN Ext
      BY <1>2, DeviceFacts
    <3>3. TypeOf(Current) \in ScpTypes
      BY <3>1, <3>2 DEF Ext, ScpTypes
    <3>4. OwnPath(d, now) = OwnPath(Current, now)
      BY <3>1 DEF OwnPath
    <3>5. archive[OwnPath(d, now)] = Got(Current, "full")
      BY <1>1, <3>3, <3>4 DEF IInv, CopiedIsComplete
    <3>6. Got(Current, "full") # NoFile /\ Got(Current, "full").of = Current
          /\ Got(Current, "full").grade = "full"
      BY <1>2, DeviceFacts DEF Got
    <3> QED
      BY <2>3, <3>1, <3>5, <3>6
  <2> QED
    BY <1>4, <2>1, <2>2, <2>3
<1> QED
  BY <1>1, <1>2, <1>3, <1>4, <1>5, <1>6, <1>7, SetupStays DEF IInv, TypeOK

-----------------------------------------------------------------------------
(* The steps of a SEND.                                                    *)

\* What a SEND reads is a file of the archive.
LEMMA SendFileFacts ==
  ASSUME TypeOK, NEW d \in Device, NEW p \in SendFile(d)
  PROVE  p \in Path /\ archive[p] \in Config
<1>1. setup \in Setups /\ TypeOf(d) \in DOMAIN Ext /\ SafeName(d) \in Dir
  BY DeviceFacts DEF TypeOK
<1>2. \A i \in DOMAIN Wanted(d) : Wanted(d)[i] \in Extensions
  BY <1>1, DeviceFacts DEF Wanted, Extensions
<1>3. \A i \in Linked(d) :
        /\ Wanted(d)[i] \in Extensions
        /\ latest[<<SafeName(d), Wanted(d)[i]>>] \in Stamp
  <2> SUFFICES ASSUME NEW i \in Linked(d)
               PROVE  /\ Wanted(d)[i] \in Extensions
                      /\ latest[<<SafeName(d), Wanted(d)[i]>>] \in Stamp
    OBVIOUS
  <2>1. Wanted(d)[i] \in Extensions /\ latest[<<SafeName(d), Wanted(d)[i]>>] # 0
    BY <1>2 DEF Linked
  <2>2. latest[<<SafeName(d), Wanted(d)[i]>>] \in 0 .. MaxStamp
    BY <1>1, <2>1 DEF TypeOK
  <2> QED
    BY <2>1, <2>2, StampAssumption DEF Stamp
<1>4. p \in Path
  <2>1. CASE Linked(d) # {}
    <3>1. PICK i \in Linked(d) :
            p = [dir |-> SafeName(d), ext |-> Wanted(d)[i],
                 stamp |-> latest[<<SafeName(d), Wanted(d)[i]>>]]
      <4>1. p \in SendPath(d)
        BY DEF SendFile
      <4> QED
        BY <2>1, <4>1 DEF SendPath
    <3> QED
      BY <1>1, <1>3, <3>1 DEF Path
  <2>2. CASE Linked(d) = {}
    <3>1. SendPath(d) = {q \in Stored(d) : \A r \in Stored(d) : r.stamp <= q.stamp}
      BY <2>2 DEF SendPath
    <3>2. p \in Stored(d)
      BY <3>1 DEF SendFile
    <3> QED
      BY <3>2 DEF Stored
  <2> QED
    BY <2>1, <2>2
<1> QED
  BY <1>4 DEF SendFile, TypeOK

\* A SEND changes nothing of the archive.
LEMMA SendKeeps == IInv /\ SendStep /\ UNCHANGED setup => IInv'
<1> SUFFICES ASSUME IInv, SendStep, UNCHANGED setup PROVE IInv'
  OBVIOUS
<1>1. /\ UNCHANGED <<dirs, archive, latest, cisco_cfg, now, acked>>
      /\ pc # "idle" /\ op = "send" /\ pc \notin GetPlaces
  BY DEF IInv, PlaceOK, SendStep, Send, SendCopy, SendUpload, SendClean, store, GetPlaces
<1>2. /\ Current \in Device /\ setup \in Setups /\ now \in 0 .. MaxStamp
      /\ todo \in Seq(Device) /\ todo # << >>
  BY <1>1, Serving DEF IInv, TypeOK, PlaceOK
<1>3. /\ PlaceOK' /\ todo' \in Seq(Device) /\ op' \in {"get", "send"}
      /\ pc' \in {"idle", "next", "upload", "clean"}
  <2>1. CASE Return
    BY <1>1, <1>2, <2>1, ReturnKeeps DEF IInv
  <2>2. ASSUME NEW label \in {"upload", "clean"}, GoTo(label)
        PROVE  /\ PlaceOK' /\ todo' \in Seq(Device) /\ op' \in {"get", "send"}
               /\ pc' \in {"upload", "clean"}
    BY <1>1, <1>2, <2>2 DEF GoTo, PlaceOK, GetPlaces
  <2> QED
    BY <2>1, <2>2 DEF SendStep, Send, SendCopy, SendUpload, SendClean
<1>4. CopiedIsComplete' /\ CutIsOwn'
  BY <1>3 DEF CopiedIsComplete, CutIsOwn
<1>5. ArchiveIsAuthentic' /\ LinkedIsComplete' /\ LinksAreOlder'
  BY <1>1, <1>3, FilesStay DEF GetPlaces
<1>6. sent' \in [to : Device, config : Config] \cup {NoFile}
  <2>1. sent' \in {sent, NoFile} \/
        \E p \in SendFile(Current) : sent' = [to |-> Current, config |-> archive[p]]
    BY DEF SendStep, Send, SendCopy, SendUpload, SendClean, CopiesFor, HomeFile
  <2>2. \A p \in SendFile(Current) : archive[p] \in Config
    BY <1>2, SendFileFacts DEF IInv
  <2> QED
    BY <1>2, <2>1, <2>2 DEF IInv, TypeOK
<1>7. home' \subseteq HomeFiles
  <2>1. home \subseteq HomeFiles
    BY DEF IInv, TypeOK
  <2>2. CASE SendCopy
    <3>1. \A p \in SendFile(Current) :
            HomeFile(SafeName(Current), "copy", archive[p]) \in HomeFiles
      BY <1>2, SendFileFacts, DeviceFacts DEF IInv, HomeFile, HomeFiles
    <3> QED
      BY <2>1, <2>2, <3>1 DEF SendCopy, CopiesFor
  <2>3. CASE ~SendCopy
    BY <2>1, <2>3 DEF SendStep, Send, SendUpload, SendClean, store
  <2> QED
    BY <2>2, <2>3
<1> QED
  BY <1>1, <1>3, <1>4, <1>5, <1>6, <1>7, SetupStays DEF IInv, TypeOK

-----------------------------------------------------------------------------

\* Every step keeps the invariant.
LEMMA NextIInv == IInv /\ [Next]_vars => IInv'
<1> SUFFICES ASSUME IInv, [Next]_vars PROVE IInv'
  OBVIOUS
<1>1. CASE Next
  BY <1>1, CommandKeeps, GetBeginKeeps, CopyKeeps, EltexKeeps, SessionKeeps, MoveCfgKeeps,
     UnlinkKeeps, SymlinkKeeps, SendKeeps, KillKeeps
  DEF Next, GetStep
<1>2. CASE UNCHANGED vars
  <2>1. UNCHANGED <<setup, dirs, archive, latest, cisco_cfg, home, now, todo, op, pc, acked, sent>>
    BY <1>2 DEF vars
  <2>2. TypeOK'
    BY <2>1, SetupStays DEF IInv, TypeOK
  <2>3. ArchiveIsAuthentic' /\ LinkedIsComplete' /\ LinksAreOlder'
    BY <2>1, FilesStay
  <2>4. Current' = Current
    BY <2>1 DEF Current
  <2>5. PlaceOK'
    BY <2>1, <2>4, SetupStays DEF IInv, PlaceOK
  <2>6. CopiedIsComplete' /\ CutIsOwn'
    BY <2>1, <2>4, SetupStays DEF IInv, CopiedIsComplete, CutIsOwn, Got
  <2> QED
    BY <2>2, <2>3, <2>5, <2>6 DEF IInv
<1> QED
  BY <1>1, <1>2

\* The invariant holds throughout.
LEMMA InductiveInvariant == Spec => []IInv
  BY InitIInv, NextIInv, PTL DEF Spec

\* Every variable keeps to its type, whatever the devices and the faults.
THEOREM TypeCorrect == Spec => []TypeOK
<1>1. IInv => TypeOK
  BY DEF IInv
<1> QED
  BY <1>1, InductiveInvariant, PTL

\* A dated file of a router that is no Eltex comes from the GET its name dates,
\* in spite of the cisco.cfg all Cisco devices share.
THEOREM ArchiveIsAuthenticHolds == Spec => []ArchiveIsAuthentic
<1>1. IInv => ArchiveIsAuthentic
  BY DEF IInv
<1> QED
  BY <1>1, InductiveInvariant, PTL

\* The link of a MikroTik or Juniper directory names a complete file of it, for
\* any number of devices in the directory and any kills and failures.
THEOREM LinkedIsCompleteHolds == Spec => []LinkedIsComplete
<1>1. IInv => LinkedIsComplete
  BY DEF IInv
<1> QED
  BY <1>1, InductiveInvariant, PTL

-----------------------------------------------------------------------------
(* What a SEND finds, and what is in ~/.                                   *)

\* What is in ~/ belongs to the command under way.
Copies == {f \in HomeFiles : f.name = SafeName(Current) /\ f.kind = "copy"}
Fetched == {HomeFile(HostName[Current], "fetched", Got(Current, g)) : g \in {"full", "part"}}
HomeFollows ==
  HomeIsPassed =>
    CASE pc = "move"                -> home = {} \/ \E f \in Fetched : home = {f}
      [] pc \in {"upload", "clean"} -> home \subseteq Copies
      [] OTHER                      -> home = {}

\* The directories of what is stored, and of what an Eltex router was asked for.
DirsExist ==
  /\ "noroot" \notin Faults => Root \in dirs
  /\ \A p \in Path : archive[p] # NoFile => p.dir \in dirs
  /\ pc = "copying" => SafeName(Current) \in dirs
  /\ HomeIsPassed /\ pc \in GetPlaces /\ TypeOf(Current) = "eltex" => SafeName(Current) \in dirs

\* What ArchiveIsAuthentic says of the others, of Eltex.
EltexIsAuthentic ==
  HomeIsPassed => \A p \in Path : archive[p] # NoFile /\ p.ext = "config" =>
    /\ archive[p].made = p.stamp
    /\ SafeName(archive[p].of) = p.dir /\ Ext[TypeOf(archive[p].of)] = p.ext

\* The links, and the file that is about to be linked.
LinksAreOwned == \A l \in Dir \X Extensions : latest[l] # 0 => \E e \in Device : l = OwnLink(e)
LinkingOK ==
  pc \in {"unlink", "symlink"} /\ ~DiskFails =>
    /\ pc = "symlink" => latest[OwnLink(Current)] = 0
    /\ TypeOf(Current) # "eltex" /\ SafeName(Current) \in dirs =>
         archive[OwnPath(Current, now)] # NoFile

\* What a SEND to d would find is of the last acknowledged GET or a later one.
Holds(d) == {n \in Stamp : archive[OwnPath(d, n)] # NoFile}
RecentOK(d) ==
  /\ acked[d] <= now
  /\ latest[OwnLink(d)] # 0 => latest[OwnLink(d)] >= acked[d]
  /\ latest[OwnLink(d)] = 0 /\ ~(pc = "symlink" /\ d = Current) =>
       Holds(d) = {} \/ \E n \in Holds(d) : n >= acked[d]
AllRecent == OneDeviceOneDirectory => \A d \in Device : Undisturbed(d) => RecentOK(d)

SentBySend == op = "get" => sent = NoFile

SInv ==
  /\ HomeFollows /\ DirsExist /\ EltexIsAuthentic
  /\ LinksAreOwned /\ LinkingOK /\ AllRecent
  /\ SentBySend /\ SendsOwnAndRecent

\* More of what the setup decides.
LEMMA PremisesStay ==
  ASSUME setup' = setup
  PROVE  /\ HomeIsPassed' <=> HomeIsPassed
         /\ OneDeviceOneDirectory' <=> OneDeviceOneDirectory
         /\ \A d \in Device : Undisturbed(d)' <=> Undisturbed(d)
         /\ HostName' = HostName /\ Faults' = Faults /\ Stamp' = Stamp
<1>1. HostName' = HostName /\ Faults' = Faults /\ Device' = Device /\ Stamp' = Stamp
  BY SetupStays DEF HostName, Faults, Stamp
<1>2. HomeIsPassed' <=> HomeIsPassed
  BY <1>1, SetupStays DEF HomeIsPassed
<1>3. OneDeviceOneDirectory' <=> OneDeviceOneDirectory
  BY <1>1, SetupStays DEF OneDeviceOneDirectory
<1>4. \A d \in Device : Undisturbed(d)' <=> Undisturbed(d)
  BY <1>2, SetupStays DEF Undisturbed
<1> QED
  BY <1>1, <1>2, <1>3, <1>4

\* A name begins with itself.
LEMMA OwnPrefix ==
  ASSUME setup \in Setups, NEW d \in Device
  PROVE  IsPrefix(SafeName(d), SafeName(d))
<1>1. PICK name : name = List[d].name
  OBVIOUS
<1>2. Len(name) \in Nat /\ DOMAIN name = 1 .. Len(name)
  BY <1>1, SetupAssumption DEF Device, List
<1>3. PICK x : x = SafeName(d)
  OBVIOUS
<1>4. DOMAIN x = 1 .. Len(name) /\ x = [i \in 1 .. Len(name) |-> x[i]]
  BY <1>1, <1>2, <1>3 DEF SafeName, SanitizeDeviceName
<1>5. x \in Seq({x[i] : i \in 1 .. Len(name)})
  BY <1>2, <1>4
<1>6. Len(x) \in Nat
  BY <1>5
<1> QED
  BY <1>3, <1>6 DEF IsPrefix

\* No configuration is the lack of one.
LEMMA ConfigIsFile ==
  ASSUME setup \in Setups
  PROVE  \A c \in Config : c # NoFile
BY NoFileAssumption DEF Config, Device, List, Stamp

LEMMA SInvInit == Init => SInv
<1> SUFFICES ASSUME Init PROVE SInv
  OBVIOUS
<1>1. HomeFollows /\ DirsExist /\ EltexIsAuthentic /\ LinksAreOwned /\ LinkingOK
  BY DEF Init, HomeFollows, DirsExist, EltexIsAuthentic, LinksAreOwned, LinkingOK, GetPlaces
<1>2. AllRecent
  <2> SUFFICES ASSUME NEW d \in Device PROVE RecentOK(d)
    BY DEF AllRecent
  <2>1. OwnLink(d) \in Dir \X Extensions /\ \A n \in Stamp : OwnPath(d, n) \in Path
    BY DeviceFacts DEF Init
  <2>2. latest[OwnLink(d)] = 0 /\ acked[d] = 0 /\ now = 0
    BY <2>1 DEF Init
  <2>3. Holds(d) = {}
    BY <2>1 DEF Init, Holds
  <2> QED
    BY <2>2, <2>3 DEF RecentOK
<1>3. SentBySend /\ SendsOwnAndRecent
  BY DEF Init, SentBySend, SendsOwnAndRecent
<1> QED
  BY <1>1, <1>2, <1>3 DEF SInv

\* All a step writes to the archive, and where.
Writes ==
  \/ archive' = archive
  \/ /\ pc \in {"copy", "copying", "move", "move_cfg"} /\ UNCHANGED <<now, latest, acked>>
     /\ SafeName(Current) \in dirs'
     /\ \E c \in Config :
          /\ archive' = [archive EXCEPT ![OwnPath(Current, now)] = c]
          /\ HomeIsPassed /\ TypeOf(Current) = "eltex" => c.of = Current /\ c.made = now

LEMMA StepWrites ==
  ASSUME IInv, SInv, Next
  PROVE  Writes /\ dirs \subseteq dirs'
<1>1. setup' = setup /\ setup \in Setups
  BY DEF Next, IInv, TypeOK
<1>2. CASE CopyStarts \/ CopyEnds
  <2>1. /\ pc \in GetPlaces /\ pc \in {"copy", "copying"} /\ UNCHANGED <<dirs, latest, now, acked>>
        /\ SafeName(Current) \in dirs
        /\ TypeOf(Current) # "eltex"
    BY <1>2 DEF CopyStarts, CopyEnds, At, SInv, DirsExist, IInv, PlaceOK, GetPlaces, ScpTypes
  <2>2. \A g \in {"full", "part"} : Got(Current, g) \in Config
    BY <1>1, <2>1, GetFacts, DeviceFacts DEF Got
  <2> QED
    BY <1>2, <2>1, <2>2 DEF CopyStarts, CopyEnds, Writes
<1>3. CASE EltexMove
  <2>1. /\ pc = "move" /\ pc \in GetPlaces /\ UNCHANGED <<dirs, latest, now, acked>>
        /\ Mv(Current)
    BY <1>3 DEF EltexMove, GetPlaces
  <2>2. CASE archive' = archive
    BY <2>1, <2>2 DEF Writes
  <2>3. ASSUME NEW f \in home, SafeName(Current) \in dirs,
               archive' = [archive EXCEPT ![OwnPath(Current, now)] = f.config]
        PROVE  Writes
    <3>1. f.config \in Config
      BY DEF IInv, TypeOK, HomeFiles
    <3>2. HomeIsPassed => f \in Fetched
      BY <2>1 DEF SInv, HomeFollows
    <3>3. f \in Fetched => f.config.of = Current /\ f.config.made = now
      BY DEF Fetched, HomeFile, Got
    <3> QED
      BY <2>1, <2>3, <3>1, <3>2, <3>3 DEF Writes
  <2> QED
    BY <2>1, <2>2, <2>3 DEF Mv, Moves, Matching
<1>4. CASE MoveCfg
  <2>1. /\ pc = "move_cfg" /\ UNCHANGED <<latest, now, acked>> /\ dirs \subseteq dirs'
        /\ cisco_cfg \in Config /\ TypeOf(Current) # "eltex"
    BY <1>4 DEF MoveCfg, IInv, CutIsOwn, PlaceOK, CiscoTypes
  <2> QED
    BY <1>4, <2>1 DEF MoveCfg, Writes
<1>5. CASE \/ Command \/ GetBegin \/ CopyFails \/ EltexSession \/ XrvSession \/ CsrSession
           \/ Unlink \/ Symlink \/ SendStep \/ Kill
  <2>1. archive' = archive /\ dirs \subseteq dirs'
    BY <1>5 DEF Command, GetBegin, CopyFails, EltexSession, XrvSession, CsrSession, CsrCut, Unlink,
                Symlink, SendStep, Send, SendCopy, SendUpload, SendClean, Kill, store
  <2> QED
    BY <2>1 DEF Writes
<1> QED
  BY <1>2, <1>3, <1>4, <1>5 DEF Next, GetStep

\* What ~/ holds goes from one place to the next.
LEMMA HomeKeeps == IInv /\ SInv /\ Next => HomeFollows'
<1> SUFFICES ASSUME IInv, SInv, Next, HomeIsPassed PROVE HomeFollows'
  BY PremisesStay DEF HomeFollows, Next
<1>1. setup' = setup /\ setup \in Setups /\ "kill" \notin Faults /\ ~DiskFails
  BY DEF Next, IInv, TypeOK, HomeIsPassed, DiskFails
<1>2. /\ pc = "move" => home = {} \/ \E f \in Fetched : home = {f}
      /\ pc \in {"upload", "clean"} => home \subseteq Copies
      /\ pc \notin {"move", "upload", "clean"} => home = {}
  BY DEF SInv, HomeFollows
<1>3. ASSUME home' = {}, pc' \notin {"upload", "clean"} PROVE HomeFollows'
  BY <1>3 DEF HomeFollows
<1>4. CASE \/ Command \/ GetBegin \/ CopyStarts \/ CopyEnds \/ CopyFails \/ XrvSession
           \/ CsrSession \/ MoveCfg \/ Unlink \/ Symlink \/ Send
  <2>1. home' = home /\ pc \notin {"move", "upload", "clean"} /\ pc' \notin {"upload", "clean"}
    BY <1>4 DEF Command, GetBegin, CopyStarts, CopyEnds, CopyFails, XrvSession, CsrSession, CsrCut,
                MoveCfg, Unlink, Symlink, Send, At, GoTo, Return, store
  <2> QED
    BY <1>2, <1>3, <2>1
<1>5. CASE EltexSession
  <2>1. home = {} /\ pc \in GetPlaces /\ UNCHANGED now
    BY <1>2, <1>5 DEF EltexSession, At, GetPlaces
  <2>2. CASE home' = {} /\ pc' \notin {"upload", "clean"}
    BY <1>3, <2>2
  <2>3. CASE GoTo("move") /\ \E g \in {"full", "part"} :
               home' = home \cup {HomeFile(HostName[Current], "fetched", Got(Current, g))}
    <3>1. pc' = "move" /\ Current' = Current /\ now' = now /\ HostName' = HostName
      BY <1>1, <2>1, <2>3, PremisesStay DEF GoTo, Current
    <3>2. Fetched' = Fetched
      BY <3>1 DEF Fetched, Got
    <3>3. \E f \in Fetched : home' = {f}
      BY <2>1, <2>3 DEF Fetched
    <3> QED
      BY <3>1, <3>2, <3>3 DEF HomeFollows
  <2> QED
    BY <1>5, <2>1, <2>2, <2>3 DEF EltexSession, GoTo, Return
<1>6. CASE EltexMove
  <2>1. /\ pc = "move" /\ pc \in GetPlaces /\ Mv(Current) /\ pc' \notin {"upload", "clean"}
        /\ TypeOf(Current) = "eltex"
    BY <1>6 DEF EltexMove, GetPlaces, GoTo, Return, IInv, PlaceOK
  <2>2. Current \in Device /\ SafeName(Current) \in dirs
    BY <2>1, GetFacts DEF SInv, DirsExist
  <2>3. home = {} \/ \E f \in Fetched : home = {f}
    BY <1>2, <2>1
  <2>4. CASE home = {}
    <3>1. home' = {}
      BY <1>1, <2>1, <2>4 DEF Mv, Moves, Matching
    <3> QED
      BY <1>3, <2>1, <3>1
  <2>5. ASSUME NEW f \in Fetched, home = {f} PROVE HomeFollows'
    <3>1. IsPrefix(SafeName(Current), f.name)
      BY <2>1, <2>2 DEF HomeIsPassed, Fetched, HomeFile
    <3>2. Matching(Current) = {f}
      BY <2>5, <3>1 DEF Matching
    <3>3. home' = {}
      BY <1>1, <2>1, <2>2, <2>5, <3>2 DEF Mv, Moves
    <3> QED
      BY <1>3, <2>1, <3>3
  <2> QED
    BY <2>3, <2>4, <2>5
<1>7. CASE SendCopy
  <2>1. home = {} /\ pc = "next" /\ op = "send"
    BY <1>2, <1>7 DEF SendCopy
  <2>2. CASE SendPath(Current) = {}
    <3>1. home' = {} /\ pc' \notin {"upload", "clean"}
      BY <1>7, <2>1, <2>2 DEF SendCopy, CopiesFor, SendFile, Return
    <3> QED
      BY <1>3, <3>1
  <2>3. CASE GoTo("upload")
    <3>1. pc' = "upload" /\ Current' = Current
      BY <2>3 DEF GoTo, Current
    <3>2. Copies' = Copies
      BY <1>1, <3>1, SetupStays DEF Copies
    <3>3. Current \in Device /\ \A p \in SendFile(Current) : archive[p] \in Config
      BY <2>1, Serving, SendFileFacts DEF IInv
    <3>4. \A p \in SendFile(Current) : HomeFile(SafeName(Current), "copy", archive[p]) \in Copies
      BY <3>3, DeviceFacts DEF Copies, HomeFile, HomeFiles, IInv, TypeOK
    <3>5. home' \subseteq Copies
      BY <1>7, <2>1, <3>4 DEF SendCopy, CopiesFor
    <3> QED
      BY <3>1, <3>2, <3>5 DEF HomeFollows
  <2> QED
    BY <1>7, <2>2, <2>3 DEF SendCopy
<1>8. CASE SendUpload
  <2>1. pc' = "clean" /\ Current' = Current /\ home' = home /\ home \subseteq Copies
    BY <1>2, <1>8 DEF SendUpload, GoTo, Current, store
  <2>2. Copies' = Copies
    BY <1>1, <2>1, SetupStays DEF Copies
  <2> QED
    BY <2>1, <2>2 DEF HomeFollows
<1>9. CASE SendClean
  <2>1. /\ pc = "clean" /\ home \subseteq Copies /\ pc' \notin {"upload", "clean"}
        /\ home' = {f \in home : f.kind # "copy" \/ f \notin Matching(Current)}
    BY <1>1, <1>2, <1>9 DEF SendClean, Return
  <2>2. Current \in Device
    BY <2>1, Serving DEF IInv
  <2>3. \A f \in home : f.kind = "copy" /\ f \in Matching(Current)
    BY <1>1, <2>1, <2>2, OwnPrefix DEF Copies, Matching
  <2>4. home' = {}
    BY <2>1, <2>3
  <2> QED
    BY <1>3, <2>1, <2>4
<1> QED
  BY <1>1, <1>4, <1>5, <1>6, <1>7, <1>8, <1>9 DEF Next, GetStep, SendStep, Kill

\* Directories stay, and files are put into those that exist.
LEMMA DirsKeep == IInv /\ SInv /\ Next => DirsExist'
<1> SUFFICES ASSUME IInv, SInv, Next PROVE DirsExist'
  OBVIOUS
<1>1. /\ setup' = setup /\ setup \in Setups /\ Writes /\ dirs \subseteq dirs' /\ Faults' = Faults
      /\ (HomeIsPassed' <=> HomeIsPassed)
  BY StepWrites, PremisesStay DEF Next, IInv, TypeOK
<1>2. "noroot" \notin Faults' => Root \in dirs'
  BY <1>1 DEF SInv, DirsExist
<1>3. \A p \in Path' : archive'[p] # NoFile => p.dir \in dirs'
  <2> SUFFICES ASSUME NEW p \in Path, archive'[p] # NoFile PROVE p.dir \in dirs'
    BY <1>1, SetupStays
  <2>1. CASE archive' = archive
    BY <1>1, <2>1 DEF SInv, DirsExist
  <2>2. ASSUME SafeName(Current) \in dirs', NEW c,
               archive' = [archive EXCEPT ![OwnPath(Current, now)] = c]
        PROVE  p.dir \in dirs'
    <3>1. CASE p = OwnPath(Current, now)
      BY <2>2, <3>1 DEF OwnPath
    <3>2. CASE p # OwnPath(Current, now)
      BY <1>1, <2>2, <3>2 DEF SInv, DirsExist, IInv, TypeOK
    <3> QED
      BY <3>1, <3>2
  <2> QED
    BY <1>1, <2>1, <2>2 DEF Writes
<1>4. pc' = "copying" => SafeName(Current)' \in dirs'
  <2> SUFFICES ASSUME pc' = "copying" PROVE SafeName(Current)' \in dirs'
    OBVIOUS
  <2>1. CopyStarts
    BY DEF Next, GetStep, SendStep, Command, GetBegin, CopyEnds, CopyFails, EltexSession,
           EltexMove, XrvSession, CsrSession, CsrCut, MoveCfg, Unlink, Symlink, Send, SendCopy, SendUpload,
           SendClean, Kill, GoTo, Return
  <2>2. SafeName(Current) \in dirs /\ Current' = Current
    BY <2>1 DEF CopyStarts, GoTo, Current
  <2>3. SafeName(Current)' = SafeName(Current)
    BY <1>1, <2>2, SetupStays
  <2> QED
    BY <1>1, <2>2, <2>3
<1>5. HomeIsPassed' /\ pc' \in GetPlaces /\ TypeOf(Current)' = "eltex" => SafeName(Current)' \in dirs'
  <2> SUFFICES ASSUME HomeIsPassed, pc' \in GetPlaces, TypeOf(Current)' = "eltex"
               PROVE  SafeName(Current)' \in dirs'
    BY <1>1
  <2>1. /\ Current' = Current
        /\ GetBegin \/ pc \in GetPlaces
    BY DEF Next, GetStep, SendStep, Command, GetBegin, CopyStarts, CopyEnds, CopyFails,
           EltexSession, EltexMove, XrvSession, CsrSession, CsrCut, MoveCfg, Unlink, Symlink, Send,
           SendCopy, SendUpload, SendClean, Kill, GoTo, Return, GetPlaces, Current, At
  <2>2. TypeOf(Current) = "eltex" /\ SafeName(Current)' = SafeName(Current)
    BY <1>1, <2>1, SetupStays
  <2>3. CASE GetBegin
    <3>1. Root \in dirs
      BY DEF HomeIsPassed, SInv, DirsExist
    <3>2. dirs' = dirs \cup {SafeName(Current)}
      BY <2>2, <2>3, <3>1 DEF GetBegin, MadeBy, CiscoTypes
    <3> QED
      BY <2>2, <3>2
  <2>4. CASE pc \in GetPlaces
    BY <1>1, <2>2, <2>4 DEF SInv, DirsExist
  <2> QED
    BY <2>1, <2>3, <2>4
<1> QED
  BY <1>2, <1>3, <1>4, <1>5 DEF DirsExist

\* Eltex files are what their names say, too, as long as ~/ is.
LEMMA EltexAuthenticKeeps == IInv /\ SInv /\ Next => EltexIsAuthentic'
<1> SUFFICES ASSUME IInv, SInv, Next, HomeIsPassed,
                    NEW p \in Path, archive'[p] # NoFile, p.ext = "config"
             PROVE  /\ archive'[p].made = p.stamp
                    /\ SafeName(archive'[p].of) = p.dir
                    /\ Ext[TypeOf(archive'[p].of)] = p.ext
  BY SetupStays, PremisesStay DEF EltexIsAuthentic, Next
<1>1. /\ setup' = setup /\ setup \in Setups /\ Writes /\ archive \in [Path -> Config \cup {NoFile}]
  BY StepWrites DEF Next, IInv, TypeOK
<1>2. CASE archive'[p] = archive[p]
  BY <1>2 DEF SInv, EltexIsAuthentic
<1>3. ASSUME pc \in GetPlaces, p = OwnPath(Current, now), NEW c \in Config, archive'[p] = c,
             TypeOf(Current) = "eltex" => c.of = Current /\ c.made = now
      PROVE  c.made = p.stamp /\ SafeName(c.of) = p.dir /\ Ext[TypeOf(c.of)] = p.ext
  <2>1. Current \in Device /\ TypeOf(Current) \in DOMAIN Ext
    BY <1>1, <1>3, GetFacts, DeviceFacts
  <2>2. p.ext = Ext[TypeOf(Current)] /\ p.dir = SafeName(Current) /\ p.stamp = now
    BY <1>3 DEF OwnPath
  <2>3. TypeOf(Current) = "eltex"
    BY <2>1, <2>2 DEF Ext
  <2> QED
    BY <1>3, <2>2, <2>3
<1>4. CASE archive' # archive
  <2>1. pc \in GetPlaces
    BY <1>1, <1>4 DEF Writes, GetPlaces
  <2>2. PICK c \in Config :
          /\ archive' = [archive EXCEPT ![OwnPath(Current, now)] = c]
          /\ TypeOf(Current) = "eltex" => c.of = Current /\ c.made = now
    BY <1>1, <1>4 DEF Writes
  <2>3. CASE p = OwnPath(Current, now)
    <3>1. archive'[p] = c
      BY <1>1, <2>2, <2>3
    <3> QED
      BY <1>3, <2>1, <2>2, <2>3, <3>1
  <2>4. CASE p # OwnPath(Current, now)
    BY <1>1, <1>2, <2>2, <2>4
  <2> QED
    BY <2>3, <2>4
<1> QED
  BY <1>2, <1>4

\* Links are only made for devices, and before that taken away.
LEMMA LinksKeep == IInv /\ SInv /\ Next => LinksAreOwned' /\ LinkingOK'
<1> SUFFICES ASSUME IInv, SInv, Next PROVE LinksAreOwned' /\ LinkingOK'
  OBVIOUS
<1>1. /\ setup' = setup /\ setup \in Setups /\ latest \in [Dir \X Extensions -> 0 .. MaxStamp]
  BY DEF Next, IInv, TypeOK
<1>2. /\ latest' = latest \/ \E n : latest' = [latest EXCEPT ![OwnLink(Current)] = n]
      /\ latest' # latest => pc \in GetPlaces
  BY DEF Next, GetStep, SendStep, Command, GetBegin, CopyStarts, CopyEnds, CopyFails, EltexSession,
         EltexMove, XrvSession, CsrSession, CsrCut, MoveCfg, Unlink, Symlink, Send, SendCopy, SendUpload,
         SendClean, Kill, store, GetPlaces
<1>3. LinksAreOwned'
  <2> SUFFICES ASSUME NEW l \in Dir \X Extensions, latest'[l] # 0
               PROVE  \E e \in Device : l = OwnLink(e)
    BY <1>1, SetupStays DEF LinksAreOwned
  <2>1. CASE latest'[l] = latest[l]
    BY <2>1 DEF SInv, LinksAreOwned
  <2>2. CASE latest'[l] # latest[l]
    <3>1. l = OwnLink(Current) /\ pc \in GetPlaces
      BY <1>1, <1>2, <2>2
    <3> QED
      BY <3>1, GetFacts
  <2> QED
    BY <2>1, <2>2
<1>4. LinkingOK'
  <2> SUFFICES ASSUME pc' \in {"unlink", "symlink"}, ~DiskFails
               PROVE  /\ pc' = "symlink" => latest'[OwnLink(Current)'] = 0
                      /\ TypeOf(Current)' # "eltex" /\ SafeName(Current)' \in dirs' =>
                           archive'[OwnPath(Current, now)'] # NoFile
    BY <1>1, SetupStays DEF LinkingOK
  <2>1. /\ CopyEnds \/ CopyFails \/ EltexMove \/ MoveCfg \/ Unlink
        /\ pc \in GetPlaces /\ Current' = Current /\ now' = now /\ ~CopyFails
    BY DEF Next, GetStep, SendStep, Command, GetBegin, CopyStarts, CopyEnds, CopyFails,
           EltexSession, EltexMove, XrvSession, CsrSession, CsrCut, MoveCfg, Unlink, Symlink, Send,
           SendCopy, SendUpload, SendClean, Kill, GoTo, Return, GetPlaces, Current, At
  <2>2. /\ TypeOf(Current)' = TypeOf(Current) /\ SafeName(Current)' = SafeName(Current)
        /\ OwnLink(Current)' = OwnLink(Current) /\ OwnPath(Current, now)' = OwnPath(Current, now)
    BY <1>1, <2>1, SetupStays
  <2>3. /\ Current \in Device /\ now \in Stamp /\ OwnPath(Current, now) \in Path
        /\ OwnLink(Current) \in Dir \X Extensions
        /\ archive \in [Path -> Config \cup {NoFile}]
    BY <1>1, <2>1, GetFacts, DeviceFacts DEF IInv, TypeOK
  <2>4. CASE CopyEnds
    <3>1. pc' = "unlink" /\ Got(Current, "full") # NoFile
      BY <1>1, <2>3, <2>4, DeviceFacts DEF CopyEnds, GoTo, Got
    <3>2. archive'[OwnPath(Current, now)] = Got(Current, "full")
      BY <2>3, <2>4 DEF CopyEnds
    <3> QED
      BY <2>2, <3>1, <3>2
  <2>5. CASE EltexMove
    <3>1. pc' = "unlink" /\ TypeOf(Current) = "eltex"
      BY <2>5 DEF EltexMove, GoTo, Return, IInv, PlaceOK
    <3> QED
      BY <2>2, <3>1
  <2>6. CASE MoveCfg
    <3>1. pc' = "unlink" /\ cisco_cfg \in Config
      BY <2>6 DEF MoveCfg, GoTo, IInv, CutIsOwn
    <3>2. SafeName(Current) \in dirs' => archive'[OwnPath(Current, now)] = cisco_cfg
      BY <2>3, <2>6 DEF MoveCfg
    <3> QED
      BY <1>1, <2>2, <3>1, <3>2, ConfigIsFile
  <2>7. CASE Unlink
    <3>1. /\ pc = "unlink" /\ pc' = "symlink" /\ archive' = archive /\ dirs' = dirs
          /\ latest' = [latest EXCEPT ![OwnLink(Current)] = 0]
      BY <2>7 DEF Unlink, GoTo
    <3>2. latest'[OwnLink(Current)] = 0
      BY <1>1, <2>3, <3>1
    <3>3. TypeOf(Current) # "eltex" /\ SafeName(Current) \in dirs =>
            archive[OwnPath(Current, now)] # NoFile
      BY <3>1 DEF SInv, LinkingOK
    <3> QED
      BY <2>2, <3>1, <3>2, <3>3
  <2> QED
    BY <2>1, <2>4, <2>5, <2>6, <2>7
<1> QED
  BY <1>3, <1>4

\* Devices with directories of their own do not meet.
LEMMA OwnLinksDiffer ==
  ASSUME OneDeviceOneDirectory, NEW d \in Device, NEW e \in Device, d # e
  PROVE  OwnLink(d) # OwnLink(e) /\ \A m, n : OwnPath(d, m) # OwnPath(e, n)
<1>1. SafeName(d) # SafeName(e)
  BY DEF OneDeviceOneDirectory
<1>2. OwnLink(d) # OwnLink(e)
  BY <1>1 DEF OwnLink
<1>3. ASSUME NEW m, NEW n PROVE OwnPath(d, m) # OwnPath(e, n)
  <2>1. OwnPath(d, m).dir # OwnPath(e, n).dir
    BY <1>1 DEF OwnPath
  <2> QED
    BY <2>1
<1> QED
  BY <1>2, <1>3

\* A step that leaves the links alone leaves what a SEND finds, or adds to it.
LEMMA RecentGrows ==
  ASSUME IInv, setup' = setup, NEW d \in Device, RecentOK(d), Writes,
         UNCHANGED <<latest, acked>>, now' \in Nat, now' >= now,
         pc # "symlink"
  PROVE  RecentOK(d)'
<1>1. /\ setup \in Setups /\ now \in Nat /\ acked[d] \in Nat /\ acked[d] <= now
      /\ archive \in [Path -> Config \cup {NoFile}]
      /\ OwnLink(d)' = OwnLink(d) /\ Stamp' = Stamp
      /\ \A n \in Stamp : OwnPath(d, n) \in Path /\ OwnPath(d, n)' = OwnPath(d, n)
  BY StampAssumption, SetupStays, DeviceFacts, PremisesStay DEF IInv, TypeOK, RecentOK
<1>2. acked'[d] = acked[d] /\ latest'[OwnLink(d)] = latest[OwnLink(d)] /\ acked'[d] <= now'
  BY <1>1
<1>3. ASSUME latest[OwnLink(d)] = 0
      PROVE  Holds(d)' = {} \/ \E n \in Holds(d)' : n >= acked[d]
  <2>1. Holds(d) = {} \/ \E n \in Holds(d) : n >= acked[d]
    BY <1>3 DEF RecentOK
  <2>2. Holds(d)' = {n \in Stamp : archive'[OwnPath(d, n)] # NoFile}
    BY <1>1, SetupStays DEF Holds
  <2>3. CASE archive' = archive
    <3>1. Holds(d)' = Holds(d)
      BY <2>2, <2>3 DEF Holds
    <3> QED
      BY <2>1, <3>1
  <2>4. CASE archive' # archive
    <3>1. PICK c \in Config : archive' = [archive EXCEPT ![OwnPath(Current, now)] = c]
      BY <2>4 DEF Writes
    <3>2. c # NoFile
      BY <1>1, ConfigIsFile
    <3>3. ASSUME NEW n \in Stamp
          PROVE  /\ archive[OwnPath(d, n)] # NoFile => archive'[OwnPath(d, n)] # NoFile
                 /\ archive'[OwnPath(d, n)] # NoFile =>
                      archive[OwnPath(d, n)] # NoFile \/ OwnPath(d, n) = OwnPath(Current, now)
      BY <1>1, <3>1, <3>2
    <3>4. \A n \in Stamp : OwnPath(d, n) = OwnPath(Current, now) => n = now
      <4>1. \A n : OwnPath(d, n).stamp = n /\ OwnPath(Current, now).stamp = now
        BY DEF OwnPath
      <4> QED
        BY <4>1
    <3>5. CASE Holds(d) = {}
      <4>1. \A n \in Holds(d)' : n = now
        BY <2>2, <3>3, <3>4, <3>5 DEF Holds
      <4> QED
        BY <1>1, <4>1
    <3>6. ASSUME NEW n \in Holds(d), n >= acked[d] PROVE n \in Holds(d)'
      BY <2>2, <3>3, <3>6 DEF Holds
    <3> QED
      BY <2>1, <3>5, <3>6
  <2> QED
    BY <2>3, <2>4
<1>4. latest[OwnLink(d)] # 0 => latest[OwnLink(d)] >= acked[d]
  BY DEF RecentOK
<1>5. acked'[d] = acked[d] /\ latest'[OwnLink(d)'] = latest[OwnLink(d)]
  BY <1>1, <1>2
<1>6. latest'[OwnLink(d)'] = 0 => Holds(d)' = {} \/ \E n \in Holds(d)' : n >= acked'[d]
  BY <1>3, <1>5
<1>7. latest'[OwnLink(d)'] # 0 => latest'[OwnLink(d)'] >= acked'[d]
  BY <1>4, <1>5
<1> QED
  BY <1>2, <1>6, <1>7 DEF RecentOK

\* Taking a link away and making the new one.
LEMMA UnlinkRecent ==
  ASSUME IInv, SInv, Unlink, setup' = setup, OneDeviceOneDirectory,
         NEW d \in Device, ~DiskFails, RecentOK(d)
  PROVE  RecentOK(d)'
<1>1. /\ pc = "unlink" /\ pc' = "symlink" /\ pc \in GetPlaces /\ Current' = Current
      /\ latest' = [latest EXCEPT ![OwnLink(Current)] = 0]
      /\ UNCHANGED <<archive, now, acked>>
  BY DEF Unlink, GoTo, GetPlaces, Current
<1>2. /\ setup \in Setups /\ latest \in [Dir \X Extensions -> 0 .. MaxStamp]
      /\ Current \in Device /\ OwnLink(d) \in Dir \X Extensions
      /\ OwnLink(d)' = OwnLink(d) /\ Stamp' = Stamp
      /\ \A n \in Stamp : OwnPath(d, n)' = OwnPath(d, n)
  BY <1>1, GetFacts, SetupStays, DeviceFacts, PremisesStay DEF IInv, TypeOK
<1>3. Holds(d)' = Holds(d)
  BY <1>1, <1>2 DEF Holds
<1>4. acked'[d] = acked[d] /\ acked'[d] <= now'
  BY <1>1 DEF RecentOK
<1>5. CASE d = Current
  <2>1. latest'[OwnLink(d)] = 0
    BY <1>1, <1>2, <1>5
  <2> QED
    BY <1>1, <1>2, <1>4, <1>5, <2>1 DEF RecentOK
<1>6. CASE d # Current
  <2>1. latest'[OwnLink(d)] = latest[OwnLink(d)]
    BY <1>1, <1>2, <1>6, OwnLinksDiffer
  <2> QED
    BY <1>1, <1>2, <1>3, <1>4, <2>1 DEF RecentOK
<1> QED
  BY <1>5, <1>6

LEMMA SymlinkRecent ==
  ASSUME IInv, SInv, Symlink, setup' = setup, OneDeviceOneDirectory,
         NEW d \in Device, ~DiskFails, RecentOK(d)
  PROVE  RecentOK(d)'
<1>1. /\ pc = "symlink" /\ pc \in GetPlaces /\ pc' \in {"idle", "next"}
      /\ acked' = [acked EXCEPT ![Current] = now]
      /\ UNCHANGED <<archive, now, dirs>>
      /\ latest[OwnLink(Current)] = 0
  BY DEF Symlink, Return, GetPlaces, SInv, LinkingOK
<1>2. /\ setup \in Setups /\ latest \in [Dir \X Extensions -> 0 .. MaxStamp]
      /\ acked \in [Device -> 0 .. MaxStamp]
      /\ Current \in Device /\ now \in Stamp /\ OwnLink(d) \in Dir \X Extensions
      /\ OwnLink(d)' = OwnLink(d) /\ Stamp' = Stamp
      /\ \A n \in Stamp : OwnPath(d, n)' = OwnPath(d, n) /\ OwnPath(d, n) \in Path
  BY <1>1, GetFacts, SetupStays, DeviceFacts, PremisesStay DEF IInv, TypeOK
<1>3. Holds(d)' = Holds(d)
  BY <1>1, <1>2 DEF Holds
<1>4. CASE d = Current
  <2>1. acked'[d] = now /\ acked'[d] <= now'
    BY <1>1, <1>2, <1>4, StampAssumption DEF Stamp
  <2>2. CASE latest' = [latest EXCEPT ![OwnLink(Current)] = now]
    <3>1. latest'[OwnLink(d)] = now /\ now # 0 /\ now >= now
      BY <1>2, <1>4, <2>2, StampAssumption DEF Stamp
    <3> QED
      BY <1>2, <2>1, <3>1 DEF RecentOK
  <2>3. CASE SafeName(Current) \notin dirs /\ latest' = latest
    <3>1. \A n \in Stamp : OwnPath(d, n).dir = SafeName(Current)
      BY <1>4 DEF OwnPath
    <3>2. Holds(d) = {}
      BY <1>2, <2>3, <3>1 DEF SInv, DirsExist, Holds
    <3>3. latest'[OwnLink(d)] = 0
      BY <1>1, <1>4, <2>3
    <3> QED
      BY <1>2, <1>3, <2>1, <3>2, <3>3 DEF RecentOK
  <2> QED
    BY <1>1, <2>2, <2>3 DEF Symlink
<1>5. CASE d # Current
  <2>1. latest'[OwnLink(d)] = latest[OwnLink(d)]
    BY <1>2, <1>5, OwnLinksDiffer DEF Symlink
  <2>2. acked'[d] = acked[d]
    BY <1>1, <1>2, <1>5
  <2> QED
    BY <1>1, <1>2, <1>3, <1>5, <2>1, <2>2 DEF RecentOK
<1> QED
  BY <1>4, <1>5

\* A kill between the two leaves the file the link was to name.
LEMMA KillRecent ==
  ASSUME IInv, SInv, Kill, setup' = setup, NEW d \in Device, Undisturbed(d), RecentOK(d)
  PROVE  RecentOK(d)'
<1>1. /\ pc' = "idle" /\ UNCHANGED <<archive, latest, now, acked, dirs>>
      /\ "kill" \in Faults /\ ~DiskFails /\ TypeOf(d) # "eltex"
  BY DEF Kill, store, Undisturbed, HomeIsPassed
<1>2. /\ setup \in Setups /\ OwnLink(d)' = OwnLink(d) /\ Stamp' = Stamp
      /\ \A n \in Stamp : OwnPath(d, n)' = OwnPath(d, n) /\ OwnPath(d, n) \in Path
  BY SetupStays, DeviceFacts, PremisesStay DEF IInv, TypeOK
<1>3. Holds(d)' = Holds(d)
  BY <1>1, <1>2 DEF Holds
<1>4. ASSUME pc = "symlink", d = Current
      PROVE  Holds(d) = {} \/ \E n \in Holds(d) : n >= acked[d]
  <2>1. now \in Stamp /\ acked[d] \in Nat
    BY <1>4, GetFacts, StampAssumption DEF GetPlaces, IInv, TypeOK
  <2>2. CASE SafeName(d) \in dirs
    <3>1. archive[OwnPath(d, now)] # NoFile
      BY <1>1, <1>4, <2>2 DEF SInv, LinkingOK
    <3>2. now \in Holds(d) /\ now >= acked[d]
      BY <2>1, <3>1 DEF Holds, RecentOK, Stamp
    <3> QED
      BY <3>2
  <2>3. CASE SafeName(d) \notin dirs
    <3>1. \A n \in Stamp : OwnPath(d, n).dir = SafeName(d)
      BY DEF OwnPath
    <3> QED
      BY <1>2, <2>3, <3>1 DEF SInv, DirsExist, Holds
  <2> QED
    BY <2>2, <2>3
<1>5. latest[OwnLink(d)] = 0 => Holds(d) = {} \/ \E n \in Holds(d) : n >= acked[d]
  BY <1>4 DEF RecentOK
<1> QED
  BY <1>1, <1>2, <1>3, <1>5 DEF RecentOK

LEMMA RecentKeeps == IInv /\ SInv /\ Next => AllRecent'
<1> SUFFICES ASSUME IInv, SInv, Next, OneDeviceOneDirectory, NEW d \in Device, Undisturbed(d)
             PROVE  RecentOK(d)'
  BY SetupStays, PremisesStay DEF AllRecent, Next
<1>1. setup' = setup /\ RecentOK(d) /\ ~DiskFails /\ Writes /\ now \in 0 .. MaxStamp
  BY StepWrites DEF Next, SInv, AllRecent, Undisturbed, IInv, TypeOK
<1>2. CASE Unlink
  BY <1>1, <1>2, UnlinkRecent
<1>3. CASE Symlink
  BY <1>1, <1>3, SymlinkRecent
<1>4. CASE Kill
  BY <1>1, <1>4, KillRecent
<1>5. CASE \/ Command \/ GetBegin \/ CopyStarts \/ CopyEnds \/ CopyFails \/ EltexSession
           \/ EltexMove \/ XrvSession \/ CsrSession \/ MoveCfg \/ SendStep
  <2>1. /\ UNCHANGED <<latest, acked>> /\ pc # "symlink" /\ now' \in {now, now + 1}
    BY <1>5 DEF Command, GetBegin, CopyStarts, CopyEnds, CopyFails, EltexSession, EltexMove,
                XrvSession, CsrSession, CsrCut, MoveCfg, SendStep, Send, SendCopy, SendUpload, SendClean,
                At, store
  <2>2. now' \in Nat /\ now' >= now
    BY <1>1, <2>1, StampAssumption
  <2> QED
    BY <1>1, <2>1, <2>2, RecentGrows
<1> QED
  BY <1>2, <1>3, <1>4, <1>5 DEF Next, GetStep

\* The file a SEND reads: of the device, and no older than what was reported.
LEMMA SendsRecent ==
  ASSUME IInv, SInv, OneDeviceOneDirectory, NEW d \in Device, Undisturbed(d),
         pc # "symlink", NEW p \in SendFile(d)
  PROVE  archive[p].of = d /\ archive[p].made >= acked[d]
<1>1. /\ setup \in Setups /\ p \in Path /\ archive[p] \in Config /\ archive[p] # NoFile
      /\ TypeOf(d) \in DOMAIN Ext /\ SafeName(d) \in Dir /\ OwnLink(d) \in Dir \X Extensions
      /\ \A n \in Stamp : OwnPath(d, n) \in Path
      /\ ~DiskFails /\ RecentOK(d) /\ p \in SendPath(d)
  BY SendFileFacts, DeviceFacts DEF IInv, TypeOK, SendFile, Undisturbed, SInv, AllRecent
<1>2. /\ \A i \in DOMAIN Wanted(d) : Wanted(d)[i] \in Extensions
      /\ \E i \in DOMAIN Wanted(d) : Wanted(d)[i] = Ext[TypeOf(d)]
  BY <1>1 DEF Wanted, Ext, Extensions
<1>3. p.dir = SafeName(d) /\ p.stamp \in Stamp /\ p.ext \in Extensions
  <2>1. CASE Linked(d) # {}
    <3>1. PICK i \in Linked(d) : p = [dir |-> SafeName(d), ext |-> Wanted(d)[i],
                                      stamp |-> latest[<<SafeName(d), Wanted(d)[i]>>]]
      BY <1>1, <2>1 DEF SendPath
    <3>2. p.dir = SafeName(d)
      BY <3>1
    <3> QED
      BY <1>1, <3>2 DEF Path
  <2>2. CASE Linked(d) = {}
    BY <1>1, <2>2 DEF SendPath, Stored, Path
  <2> QED
    BY <2>1, <2>2
<1>4. /\ archive[p].made = p.stamp
      /\ SafeName(archive[p].of) = p.dir /\ Ext[TypeOf(archive[p].of)] = p.ext
  <2>1. CASE p.ext # "config"
    BY <1>1, <2>1 DEF IInv, ArchiveIsAuthentic
  <2>2. CASE p.ext = "config"
    <3>1. TypeOf(d) = "eltex"
      <4>1. \A i \in DOMAIN Wanted(d) : Wanted(d)[i] = "config" => TypeOf(d) = "eltex"
        BY <1>1 DEF Wanted, Ext
      <4>2. \E i \in DOMAIN Wanted(d) : p.ext = Wanted(d)[i]
        <5>1. CASE Linked(d) # {}
          <6>1. PICK i \in Linked(d) : p = [dir |-> SafeName(d), ext |-> Wanted(d)[i],
                                            stamp |-> latest[<<SafeName(d), Wanted(d)[i]>>]]
            BY <1>1, <5>1 DEF SendPath
          <6>2. p.ext = Wanted(d)[i] /\ i \in DOMAIN Wanted(d)
            BY <6>1 DEF Linked
          <6> QED
            BY <6>2
        <5>2. CASE Linked(d) = {}
          BY <1>1, <5>2 DEF SendPath, Stored, Range
        <5> QED
          BY <5>1, <5>2
      <4> QED
        BY <2>2, <4>1, <4>2
    <3> QED
      BY <1>1, <2>2, <3>1 DEF SInv, EltexIsAuthentic, Undisturbed
  <2> QED
    BY <2>1, <2>2
<1>5. archive[p].of = d /\ p.ext = Ext[TypeOf(d)]
  <2>1. archive[p].of \in Device
    BY <1>1 DEF Config
  <2> QED
    BY <1>3, <1>4, <2>1 DEF OneDeviceOneDirectory
<1>6. p = OwnPath(d, p.stamp)
  BY <1>1, <1>3, <1>5 DEF OwnPath, Path
<1>7. CASE Linked(d) # {}
  <2>1. PICK i \in Linked(d) : p = [dir |-> SafeName(d), ext |-> Wanted(d)[i],
                                    stamp |-> latest[<<SafeName(d), Wanted(d)[i]>>]]
    BY <1>1, <1>7 DEF SendPath
  <2>2. p.stamp = latest[OwnLink(d)] /\ latest[OwnLink(d)] # 0
    BY <1>5, <2>1 DEF OwnLink, Linked
  <2> QED
    BY <1>1, <1>4, <1>5, <2>2 DEF RecentOK
<1>8. CASE Linked(d) = {}
  <2>1. latest[OwnLink(d)] = 0
    BY <1>2, <1>8 DEF Linked, OwnLink
  <2>2. p \in Stored(d) /\ \A q \in Stored(d) : q.stamp <= p.stamp
    BY <1>1, <1>8 DEF SendPath
  <2>3. p.stamp \in Holds(d)
    BY <1>1, <1>3, <1>6 DEF Holds
  <2>4. PICK n \in Holds(d) : n >= acked[d]
    BY <1>1, <2>1, <2>3 DEF RecentOK
  <2>5. OwnPath(d, n) \in Stored(d) /\ OwnPath(d, n).stamp = n
    <3>1. n \in Stamp /\ archive[OwnPath(d, n)] # NoFile
      BY <2>4 DEF Holds
    <3>2. /\ OwnPath(d, n).dir = SafeName(d) /\ OwnPath(d, n).ext = Ext[TypeOf(d)]
          /\ OwnPath(d, n).stamp = n
      BY DEF OwnPath
    <3>3. Ext[TypeOf(d)] \in Range(Wanted(d))
      BY <1>2 DEF Range
    <3> QED
      BY <1>1, <3>1, <3>2, <3>3 DEF Stored
  <2>6. n <= p.stamp
    BY <2>2, <2>5
  <2>7. n \in Nat /\ p.stamp \in Nat /\ acked[d] \in Nat
    BY <1>3, StampAssumption DEF IInv, TypeOK, Holds, Stamp
  <2> QED
    BY <1>4, <1>5, <2>4, <2>6, <2>7
<1> QED
  BY <1>7, <1>8

\* What was sent stays recent: no GET begins before the next command.
LEMMA SentKeeps == IInv /\ SInv /\ Next => SentBySend' /\ SendsOwnAndRecent'
<1> SUFFICES ASSUME IInv, SInv, Next PROVE SentBySend' /\ SendsOwnAndRecent'
  OBVIOUS
<1>1. /\ setup' = setup /\ (OneDeviceOneDirectory' <=> OneDeviceOneDirectory)
      /\ \A d \in Device : Undisturbed(d)' <=> Undisturbed(d)
  BY PremisesStay DEF Next
<1>2. sent' = NoFile => SentBySend' /\ SendsOwnAndRecent'
  BY DEF SentBySend, SendsOwnAndRecent
<1>3. CASE sent' = sent /\ sent # NoFile
  <2>1. op = "send" /\ sent \in [to : Device, config : Config]
    BY <1>3 DEF SInv, SentBySend, IInv, TypeOK
  <2>2. op' = op /\ acked' = acked
    BY <1>3, <2>1 DEF Next, GetStep, SendStep, Command, GetBegin, CopyStarts, CopyEnds, CopyFails,
         EltexSession, EltexMove, XrvSession, CsrSession, CsrCut, MoveCfg, Unlink, Symlink, Send,
         SendCopy, SendUpload, SendClean, Kill, GoTo, Return, At, IInv, PlaceOK, GetPlaces, store
  <2>3. sent.to \in Device
    BY <2>1
  <2>4. SendsOwnAndRecent'
    BY <1>1, <1>3, <2>2, <2>3 DEF SInv, SendsOwnAndRecent
  <2> QED
    BY <2>1, <2>2, <2>4 DEF SentBySend
<1>4. ASSUME pc \in {"next", "upload"}, op = "send", op' = op, acked' = acked,
             NEW p \in SendFile(Current), sent' = [to |-> Current, config |-> archive[p]]
      PROVE  SentBySend' /\ SendsOwnAndRecent'
  <2>1. Current \in Device /\ pc # "symlink"
    BY <1>4, Serving DEF IInv
  <2>2. OneDeviceOneDirectory /\ Undisturbed(Current) =>
          archive[p].of = Current /\ archive[p].made >= acked[Current]
    BY <2>1, SendsRecent
  <2>3. sent'.to = Current /\ sent'.config = archive[p]
    BY <1>4
  <2>4. SendsOwnAndRecent'
    BY <1>1, <1>4, <2>1, <2>2, <2>3 DEF SendsOwnAndRecent
  <2> QED
    BY <1>4, <2>4 DEF SentBySend
<1>5. CASE Send \/ SendUpload
  <2>1. pc \in {"next", "upload"} /\ op = "send" /\ op' = op /\ acked' = acked
    BY <1>5 DEF Send, SendUpload, Return, GoTo, IInv, PlaceOK
  <2> QED
    BY <1>2, <1>4, <1>5, <2>1 DEF Send, SendUpload, CopiesFor, HomeFile
<1>6. CASE Command
  BY <1>2, <1>6 DEF Command
<1>7. CASE GetStep \/ SendCopy \/ SendClean \/ Kill
  <2>1. sent' = sent
    BY <1>7 DEF GetStep, GetBegin, CopyStarts, CopyEnds, CopyFails, EltexSession, EltexMove,
                XrvSession, CsrSession, CsrCut, MoveCfg, Unlink, Symlink, SendCopy, SendClean, Kill, store
  <2> QED
    BY <1>2, <1>3, <2>1
<1> QED
  BY <1>5, <1>6, <1>7 DEF Next, SendStep

LEMMA NextSInv == IInv /\ SInv /\ [Next]_vars => SInv'
<1> SUFFICES ASSUME IInv, SInv, [Next]_vars PROVE SInv'
  OBVIOUS
<1>1. CASE Next
  BY <1>1, HomeKeeps, DirsKeep, EltexAuthenticKeeps, LinksKeep, RecentKeeps, SentKeeps DEF SInv
<1>2. CASE UNCHANGED vars
  <2>1. UNCHANGED <<setup, dirs, archive, latest, cisco_cfg, home, now, todo, op, pc, acked, sent>>
    BY <1>2 DEF vars
  <2>2. UNCHANGED <<List, HostName, Faults>>
    BY <2>1 DEF List, HostName, Faults
  <2> USE DEF Device, TypeOf, SafeName, Dir, Stamp, Path, Config, Got,
              HomeFiles, Fails, DiskFails, Current, OwnPath, OwnLink
  <2>3. HomeFollows' /\ DirsExist'
    BY <2>1, <2>2 DEF SInv, HomeFollows, HomeIsPassed, Copies, Fetched, DirsExist
  <2>4. EltexIsAuthentic' /\ LinksAreOwned' /\ LinkingOK'
    BY <2>1, <2>2 DEF SInv, EltexIsAuthentic, HomeIsPassed, LinksAreOwned, LinkingOK
  <2>5. AllRecent'
    BY <2>1, <2>2 DEF SInv, AllRecent, OneDeviceOneDirectory, Undisturbed, HomeIsPassed, RecentOK,
                      Holds
  <2>6. SentBySend' /\ SendsOwnAndRecent'
    BY <2>1, <2>2 DEF SInv, SentBySend, SendsOwnAndRecent, OneDeviceOneDirectory, Undisturbed,
                      HomeIsPassed
  <2> QED
    BY <2>3, <2>4, <2>5, <2>6 DEF SInv
<1> QED
  BY <1>1, <1>2

LEMMA SecondInvariant == Spec => []SInv
  BY SInvInit, NextSInv, InductiveInvariant, PTL DEF Spec

\* Where names stay different and the disk works, a SEND puts a configuration of
\* its own router to it, no older than the last GET reported as successful,
\* whatever was killed or failed between, for any devices; for an Eltex where
\* nothing is left in ~/.
THEOREM SendsOwnAndRecentHolds == Spec => []SendsOwnAndRecent
<1>1. SInv => SendsOwnAndRecent
  BY DEF SInv
<1> QED
  BY <1>1, SecondInvariant, PTL

\* Each command takes from ~/ what it has put or had put there, for any number
\* of Eltex devices, and names that are prefixes of one another, where mv, cp and
\* rm work, no command is killed and the archive can be made.
THEOREM HomeIsLeftCleanHolds == Spec => []HomeIsLeftClean
<1>1. SInv => HomeIsLeftClean
  BY DEF SInv, HomeFollows, HomeIsLeftClean
<1> QED
  BY <1>1, SecondInvariant, PTL
=============================================================================
