---------------------------- MODULE ConfigArchive ----------------------------
(***************************************************************************)
(* GET and SEND: execute_device_action of src/TUI/main.c with the drivers   *)
(* it calls, and the two loops over all devices.  A GET leaves a dated file *)
(* in the directory of the device under ./../../configs and points the link *)
(* "latest" there at it; a SEND takes the file the link names, or the       *)
(* newest one.  The process can be killed between any two steps, and every  *)
(* driver can fail.                                                         *)
(*                                                                          *)
(* A configuration is who it came from, in which GET, and how much of it    *)
(* there is.  The routers, the shell tools and the file system are the      *)
(* environment.  The date in a file name is the number of the GET: a GET    *)
(* talks to a router, which takes longer than the one second of the format. *)
(***************************************************************************)
EXTENDS Naturals, Sequences, SequencesExt

CONSTANTS
  Setups,     \* device lists, with their routers and what can fail there
  Reserved,   \* the characters sanitize_device_name replaces
  Underscore,
  NoFile,
  MaxStamp    \* bound: number of GETs

FaultKinds == {"driver", "kill", "disk", "noroot"}

ScpTypes == {"mikrotik", "juniper"}
CiscoTypes == {"xrv", "csr"}
Ext == [eltex |-> "config", mikrotik |-> "rsc", juniper |-> "conf",
        xrv |-> "cfg", csr |-> "cfg"]
Extensions == {"config", "rsc", "conf", "cfg"}

\* A list without a device has nothing to get or send.
ASSUME SetupAssumption == \A s \in Setups :
  /\ Len(s.list) \in Nat \ {0} /\ DOMAIN s.list = 1 .. Len(s.list)
  /\ \A d \in DOMAIN s.list :
       /\ Len(s.list[d].name) \in Nat /\ DOMAIN s.list[d].name = 1 .. Len(s.list[d].name)
       /\ s.list[d].type \in DOMAIN Ext
  /\ DOMAIN s.host = DOMAIN s.list
  /\ s.faults \subseteq FaultKinds
ASSUME StampAssumption == MaxStamp \in Nat
ASSUME NoFileAssumption == \A s \in Setups : \A d \in DOMAIN s.list :
  \A g \in {"full", "part", "empty"}, n \in 1 .. MaxStamp :
    NoFile # [of |-> d, grade |-> g, made |-> n]

VARIABLES
  setup,      \* a member of Setups, which stays
  dirs,       \* the directories that exist: Root and those of devices
  archive,    \* the dated files
  latest,     \* the links: the stamp of the file they name, 0 for no link
  cisco_cfg,  \* cisco.cfg in the working directory
  home,       \* files in ~/ on their way from or to Eltex routers
  now,        \* GETs begun, the clock of the file names
  todo,       \* devices the running command has still to serve
  op,         \* "get" or "send"
  pc,         \* where execute_device_action is
  acked,      \* the last GET of each device that was reported as successful
  sent        \* what the last SEND loaded into which router, if anything

vars == <<setup, dirs, archive, latest, cisco_cfg, home, now, todo, op, pc, acked, sent>>
store == <<dirs, archive, latest, cisco_cfg, home>>

List == setup.list      \* g_store.devices: a name (characters) and a type each
HostName == setup.host  \* how a router names the files it copies to a host
Faults == setup.faults

Device == DOMAIN List
TypeOf(d) == List[d].type

\* sanitize_device_name
SanitizeDeviceName(name) ==
  [i \in DOMAIN name |-> IF name[i] \in Reserved THEN Underscore ELSE name[i]]

SafeName(d) == SanitizeDeviceName(List[d].name)

Dir == {SafeName(d) : d \in Device}
Root == << >>  \* ./../../configs itself
Stamp == 1 .. MaxStamp
Path == [dir : Dir, ext : Extensions, stamp : Stamp]
Config == [of : Device, grade : {"full", "part", "empty"}, made : Stamp]

Got(d, g) == [of |-> d, grade |-> g, made |-> now]
HomeFile(name, kind, config) == [name |-> name, kind |-> kind, config |-> config]
HomeFiles ==
  [name : Dir \cup {HostName[d] : d \in Device}, kind : {"fetched", "copy"},
   config : Config]

TypeOK ==
  /\ setup \in Setups
  /\ dirs \subseteq {Root} \cup Dir
  /\ archive \in [Path -> Config \cup {NoFile}]
  /\ latest \in [Dir \X Extensions -> 0 .. MaxStamp]
  /\ cisco_cfg \in Config \cup {NoFile}
  /\ home \subseteq HomeFiles
  /\ now \in 0 .. MaxStamp
  /\ todo \in Seq(Device)
  /\ op \in {"get", "send"}
  /\ pc \in {"idle", "next", "session", "copy", "copying", "move",
             "move_cfg", "unlink", "symlink", "upload", "clean"}
  /\ acked \in [Device -> 0 .. MaxStamp]
  /\ sent \in [to : Device, config : Config] \cup {NoFile}

\* ./../../configs is relative to the working directory, so it need not exist.
Init ==
  /\ setup \in Setups
  /\ dirs \in IF "noroot" \in Faults THEN {{}, {Root}} ELSE {{Root}}
  /\ archive = [p \in Path |-> NoFile]
  /\ latest = [l \in Dir \X Extensions |-> 0]
  /\ cisco_cfg = NoFile
  /\ home = {}
  /\ now = 0
  /\ todo = << >>
  /\ op = "get"
  /\ pc = "idle"
  /\ acked = [d \in Device |-> 0]
  /\ sent = NoFile

Fails == "driver" \in Faults
DiskFails == "disk" \in Faults

\* The device being served, and where its files go.
Current == Head(todo)
OwnPath(d, s) == [dir |-> SafeName(d), ext |-> Ext[TypeOf(d)], stamp |-> s]
OwnLink(d) == <<SafeName(d), Ext[TypeOf(d)]>>

At(label, types) == pc = label /\ TypeOf(Current) \in types

\* execute_device_action returns, and the loop goes to the next device.
Return ==
  /\ todo' = Tail(todo)
  /\ pc' = IF Len(todo) = 1 THEN "idle" ELSE "next"
  /\ UNCHANGED op

GoTo(label) == pc' = label /\ UNCHANGED <<todo, op>>

-----------------------------------------------------------------------------
(* The commands.                                                           *)

\* A single device or all of them, in the order of the list.
Command ==
  /\ pc = "idle"
  /\ \/ \E d \in Device : todo' = <<d>>
     \/ todo' = [d \in Device |-> d]
  /\ \/ op' = "get" /\ now + Len(todo') <= MaxStamp
     \/ op' = "send"
  /\ pc' = "next"
  /\ sent' = NoFile
  /\ UNCHANGED <<store, now, acked>>

\* ensure_directory makes one level only, mikrotik_scp_get also the parents.
MadeBy(d) ==
  IF TypeOf(d) = "mikrotik" THEN {Root, SafeName(d)}
  ELSE IF Root \in dirs THEN {SafeName(d)} ELSE {}

\* The first steps of a GET.  For xRV the shell starts a new cisco.cfg, which
\* holds the raw session until the configuration is cut out of it, unless the
\* driver cannot make its expect script.
GetBegin ==
  /\ pc = "next" /\ op = "get"
  /\ now' = now + 1
  /\ dirs' = IF TypeOf(Current) \in CiscoTypes THEN dirs
             ELSE dirs \cup MadeBy(Current)
  /\ \/ TypeOf(Current) \in ScpTypes /\ GoTo("copy") /\ UNCHANGED cisco_cfg
     \/ TypeOf(Current) \in {"eltex", "csr"} /\ GoTo("session") /\ UNCHANGED cisco_cfg
     \/ /\ TypeOf(Current) = "xrv" /\ GoTo("session")
        /\ cisco_cfg' = [of |-> Current, grade |-> "part", made |-> now']
     \/ TypeOf(Current) = "xrv" /\ Fails /\ Return /\ UNCHANGED cisco_cfg
  /\ UNCHANGED <<archive, latest, home, acked, sent>>

-----------------------------------------------------------------------------
(* mikrotik_scp_get and juniper_vmx_backup_get: an export on the router,    *)
(* then scp, which creates the local file before it has all of it.          *)

CopyStarts ==
  /\ At("copy", ScpTypes)
  /\ SafeName(Current) \in dirs
  /\ archive' = [archive EXCEPT ![OwnPath(Current, now)] = Got(Current, "part")]
  /\ GoTo("copying")
  /\ UNCHANGED <<dirs, latest, cisco_cfg, home, now, acked, sent>>

CopyEnds ==
  /\ pc = "copying"
  /\ archive' = [archive EXCEPT ![OwnPath(Current, now)] = Got(Current, "full")]
  /\ GoTo("unlink")
  /\ UNCHANGED <<dirs, latest, cisco_cfg, home, now, acked, sent>>

\* Mutant: the status of scp is not looked at.
CopyFailsUnchecked ==
  /\ pc \in {"copy", "copying"}
  /\ Fails \/ (pc = "copy" /\ SafeName(Current) \notin dirs)
  /\ GoTo("unlink")
  /\ UNCHANGED <<store, now, acked, sent>>

\* The export fails, scp cannot start, or it stops half way.
CopyFails ==
  /\ pc \in {"copy", "copying"}
  /\ Fails \/ (pc = "copy" /\ SafeName(Current) \notin dirs)
  /\ Return
  /\ UNCHANGED <<store, now, acked, sent>>

-----------------------------------------------------------------------------
(* eltex_me_scp_get: the router copies its configuration to ~/ under a name *)
(* of its own; mv takes every file whose name starts with that of the       *)
(* device.  Nothing but the status of expect is looked at.                  *)

EltexSession ==
  /\ At("session", {"eltex"})
  /\ \/ /\ \E g \in {"full"} \cup (IF Fails THEN {"part"} ELSE {}) :
             home' = home \cup {HomeFile(HostName[Current], "fetched", Got(Current, g))}
        /\ GoTo("move")
     \/ Fails /\ GoTo("move") /\ UNCHANGED home
     \/ Fails /\ Return /\ UNCHANGED home  \* no expect script
  /\ UNCHANGED <<dirs, archive, latest, cisco_cfg, now, acked, sent>>

Matching(d) == {f \in home : IsPrefix(SafeName(d), f.name)}

\* mv ~/<name>* <path>, with one match; with none, with several or without
\* room on the disk mv fails, which is not noticed.
Moves(d) == SafeName(d) \in dirs /\ \E f \in home : Matching(d) = {f}
Mv(d) ==
  \/ /\ Moves(d)
     /\ \E f \in Matching(d) :
          /\ archive' = [archive EXCEPT ![OwnPath(d, now)] = f.config]
          /\ home' = home \ {f}
  \/ (~Moves(d) \/ DiskFails) /\ UNCHANGED <<archive, home>>

\* Mutant: files are only fetched from ~/ when the session ended well.
MoveOnSuccess ==
  /\ pc = "move"
  /\ \/ Mv(Current) /\ GoTo("unlink")
     \/ Fails /\ Return /\ UNCHANGED <<archive, home>>
  /\ UNCHANGED <<dirs, latest, cisco_cfg, now, acked, sent>>

EltexMove ==
  /\ pc = "move"
  /\ Mv(Current)
  /\ GoTo("unlink") \/ (Fails /\ Return)
  /\ UNCHANGED <<dirs, latest, cisco_cfg, now, acked, sent>>

-----------------------------------------------------------------------------
(* get_cisco_config and get_cisco_csr_config: the session is recorded and   *)
(* the configuration cut out of it, into cisco.cfg of the working directory. *)

\* What is cut out of a session: sed stops the xRV text at the first line with
\* "end" in it, a prompt that times out leaves an incomplete one or nothing.
CutOut(type) ==
  IF Fails THEN {"full", "part", "empty"}
  ELSE {"full"} \cup (IF type = "xrv" THEN {"part"} ELSE {})

\* The size is looked at before the text is cut out.
XrvSession ==
  /\ At("session", {"xrv"})
  /\ \E g \in CutOut("xrv") : cisco_cfg' = Got(Current, g)
  /\ GoTo("move_cfg") \/ (Fails /\ Return)
  /\ UNCHANGED <<dirs, archive, latest, home, now, acked, sent>>

\* Mutant: an old cisco.cfg is not replaced when nothing was received.
CsrKeepsOld ==
  /\ At("session", {"csr"})
  /\ \/ cisco_cfg' = Got(Current, "full")
     \/ Fails /\ UNCHANGED cisco_cfg
  /\ IF cisco_cfg' = NoFile THEN Return ELSE GoTo("move_cfg")
  /\ UNCHANGED <<dirs, archive, latest, home, now, acked, sent>>

\* The size of what was cut out decides, not the status of the session; when
\* the shell cannot write the new text, an older cisco.cfg stays.
CsrCut ==
  /\ \/ \E g \in CutOut("csr") : cisco_cfg' = Got(Current, g)
     \/ DiskFails /\ UNCHANGED cisco_cfg
  /\ \/ cisco_cfg' # NoFile /\ cisco_cfg'.grade # "empty" /\ GoTo("move_cfg")
     \/ Return  \* 1000 bytes or less

CsrSession ==
  /\ At("session", {"csr"})
  /\ CsrCut \/ (Fails /\ Return /\ UNCHANGED cisco_cfg)  \* no expect script
  /\ UNCHANGED <<dirs, archive, latest, home, now, acked, sent>>

\* ensure_directory and mv, neither of them checked.
MoveCfg ==
  /\ pc = "move_cfg"
  /\ dirs' = dirs \cup MadeBy(Current)
  /\ \/ /\ SafeName(Current) \in dirs'
        /\ archive' = [archive EXCEPT ![OwnPath(Current, now)] = cisco_cfg]
        /\ cisco_cfg' = NoFile
     \/ /\ SafeName(Current) \notin dirs' \/ DiskFails
        /\ UNCHANGED <<archive, cisco_cfg>>
  /\ GoTo("unlink")
  /\ UNCHANGED <<latest, home, now, acked, sent>>

-----------------------------------------------------------------------------
(* The end of every successful GET: unlink(latest), symlink(path, latest).  *)

\* Mutant: the old link is not removed before symlink.
UnlinkMissing == pc = "unlink" /\ GoTo("symlink") /\ UNCHANGED <<store, now, acked, sent>>

Unlink ==
  /\ pc = "unlink"
  /\ \/ latest' = [latest EXCEPT ![OwnLink(Current)] = 0]
     \/ DiskFails /\ UNCHANGED latest
  /\ GoTo("symlink")
  /\ UNCHANGED <<dirs, archive, cisco_cfg, home, now, acked, sent>>

\* Mutant: the link is named after a later reading of the clock.
SymlinkRetimed ==
  /\ pc = "symlink"
  /\ latest' = [latest EXCEPT ![OwnLink(Current)] = now + 1]
  /\ acked' = [acked EXCEPT ![Current] = now]
  /\ Return
  /\ UNCHANGED <<dirs, archive, cisco_cfg, home, now, sent>>

Symlink ==
  /\ pc = "symlink"
  /\ \/ /\ SafeName(Current) \in dirs /\ latest[OwnLink(Current)] = 0
        /\ latest' = [latest EXCEPT ![OwnLink(Current)] = now]
     \/ /\ \/ SafeName(Current) \notin dirs
           \/ latest[OwnLink(Current)] # 0
           \/ DiskFails
        /\ UNCHANGED latest
  /\ acked' = [acked EXCEPT ![Current] = now]
  /\ Return
  /\ UNCHANGED <<dirs, archive, cisco_cfg, home, now, sent>>

-----------------------------------------------------------------------------
(* SEND.                                                                   *)

\* The kinds of file a SEND looks for, the preferred one first.
Wanted(d) ==
  IF TypeOf(d) = "juniper" THEN <<"conf", "cfg">> ELSE <<Ext[TypeOf(d)]>>

Linked(d) == {i \in DOMAIN Wanted(d) : latest[<<SafeName(d), Wanted(d)[i]>>] # 0}

Stored(d) ==
  {p \in Path : /\ p.dir = SafeName(d) /\ p.ext \in Range(Wanted(d))
                /\ archive[p] # NoFile}

\* readlink(latest), which says nothing of the file, or `ls -t | head -1'.
\* The order of the dates is that of the modification times.
SendPath(d) ==
  IF Linked(d) # {}
  THEN {[dir |-> SafeName(d), ext |-> Wanted(d)[i],
         stamp |-> latest[<<SafeName(d), Wanted(d)[i]>>]] :
           i \in {i \in Linked(d) : \A j \in Linked(d) : i <= j}}
  ELSE {p \in Stored(d) : \A q \in Stored(d) : q.stamp <= p.stamp}

\* The files a SEND to d can read, at most one.
SendFile(d) == {p \in SendPath(d) : archive[p] # NoFile}

\* The drivers that read the file themselves.  Whether the router takes all of
\* it does not matter here: `sent' is what was put to it.
Send ==
  /\ pc = "next" /\ op = "send" /\ TypeOf(Current) # "eltex"
  /\ \/ \E p \in SendFile(Current) :
          sent' = [to |-> Current, config |-> archive[p]]
     \/ /\ SendFile(Current) = {} \/ Fails
        /\ sent' = NoFile
  /\ Return
  /\ UNCHANGED <<store, now, acked>>

\* Eltex: cp <path> ~/, for the router to fetch it from there, and rm
\* ~/<name>*.config; whether either of them works is not looked at.
CopiesFor(d) ==
  {HomeFile(SafeName(d), "copy", archive[p]) : p \in SendFile(d)}

SendCopy ==
  /\ pc = "next" /\ op = "send" /\ TypeOf(Current) = "eltex"
  /\ \/ home' = home \cup CopiesFor(Current)
     \/ DiskFails /\ UNCHANGED home
  /\ IF SendPath(Current) = {} THEN Return ELSE GoTo("upload")
  /\ UNCHANGED <<dirs, archive, latest, cisco_cfg, now, acked, sent>>

SendUpload ==
  /\ pc = "upload"
  /\ \/ \E f \in CopiesFor(Current) \cap home :
          sent' = [to |-> Current, config |-> f.config]
     \/ (CopiesFor(Current) \cap home = {} \/ Fails) /\ sent' = NoFile
  /\ GoTo("clean")
  /\ UNCHANGED <<store, now, acked>>

SendClean ==
  /\ pc = "clean"
  /\ \/ home' = {f \in home : f.kind # "copy" \/ f \notin Matching(Current)}
     \/ DiskFails /\ UNCHANGED home
  /\ Return
  /\ UNCHANGED <<dirs, archive, latest, cisco_cfg, now, acked, sent>>

-----------------------------------------------------------------------------

\* The process ends, in whatever it is doing, and is started again.
Kill ==
  /\ "kill" \in Faults
  /\ pc # "idle"
  /\ pc' = "idle" /\ todo' = << >>
  /\ UNCHANGED <<store, now, op, acked, sent>>

GetStep ==
  \/ GetBegin \/ CopyStarts \/ CopyEnds \/ CopyFails
  \/ EltexSession \/ EltexMove \/ XrvSession \/ CsrSession \/ MoveCfg
  \/ Unlink \/ Symlink

SendStep == Send \/ SendCopy \/ SendUpload \/ SendClean

Next ==
  /\ Command \/ GetStep \/ SendStep \/ Kill
  /\ UNCHANGED setup

Spec == Init /\ [][Next]_vars

-----------------------------------------------------------------------------
(* Properties.                                                             *)

\* A dated file of a Cisco, MikroTik or Juniper directory comes from a router
\* that owns the directory and from the GET its name dates: what a killed or
\* failed GET left in the shared cisco.cfg never gets into another GET's file,
\* as long as the file system does what mv and the shell ask of it.
ArchiveIsAuthentic ==
  ~DiskFails => \A p \in Path : archive[p] # NoFile /\ p.ext # "config" =>
    /\ archive[p].made = p.stamp
    /\ SafeName(archive[p].of) = p.dir /\ Ext[TypeOf(archive[p].of)] = p.ext

\* For the drivers that use scp the link, while there is one, names a complete
\* file of that directory, whatever was killed or failed since it was made.
LinkedIsComplete ==
  \A d \in Device : TypeOf(d) \in ScpTypes /\ latest[OwnLink(d)] # 0 =>
    LET file == archive[OwnPath(d, latest[OwnLink(d)])]
    IN  file # NoFile /\ file.grade = "full" /\ SafeName(file.of) = SafeName(d)

\* What the code leaves to its user: names that stay different, a file system
\* that works, and for Eltex, whose mv, cp and rm it does not look at, also a
\* directory to move to, routers whose files begin with the name of their device,
\* and no command that is killed.
OneDeviceOneDirectory == \A d, e \in Device : SafeName(d) = SafeName(e) => d = e
HomeIsPassed ==
  /\ {"kill", "noroot", "disk"} \cap Faults = {}
  /\ \A d \in Device : TypeOf(d) = "eltex" => IsPrefix(SafeName(d), HostName[d])
Undisturbed(d) == ~DiskFails /\ (TypeOf(d) = "eltex" => HomeIsPassed)

\* A router is only sent a configuration of its own, and never one older than
\* the last GET of it that was reported as successful.
SendsOwnAndRecent ==
  sent # NoFile /\ OneDeviceOneDirectory /\ Undisturbed(sent.to) =>
    sent.config.of = sent.to /\ sent.config.made >= acked[sent.to]

\* Between commands nothing is left in ~/ that the next GET of an Eltex device
\* would take for its configuration, however its sessions end.
HomeIsLeftClean == pc = "idle" /\ HomeIsPassed => home = {}
=============================================================================
