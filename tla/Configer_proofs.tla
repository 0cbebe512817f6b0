--------------------------- MODULE Configer_proofs ---------------------------
(***************************************************************************)
(* Proofs about Configer, for every set of passwords, texts, prompts and    *)
(* faults: the password in memory and the one of the file agree, what is    *)
(* reported as done is on the disk, and only a reset changes a password.    *)
(* Then the types, the device lists among them: that a list reported as     *)
(* done reads back as it is, and that the store of the whole program is the *)
(* atomic register StoreFile promises.                                      *)
(***************************************************************************)
EXTENDS Configer, Selection_proofs, TLAPS

DiskProofs == INSTANCE StoreFile_proofs WITH Image <- StoreImage

InSave == Disk!InCall \cup Disk!Returned
ByMenu == {"add", "edit", "delete", "bulk"}

\* The save call and the phase go together, and it saves what memory holds.
SaveMatchesMemory ==
  /\ pc \in {"idle"} \cup InSave
  /\ phase = "saving" <=> pc # "idle"
  /\ phase = "saving" => command \in ByMenu \cup {"create", "open", "reset"}
  /\ phase = "saving" => image = ImageOf(g_store, g_master_password)

\* The temporary file takes the image up to the rename, and <path> has it then.
FileFollowsImage ==
  /\ pc = "fsync" => temp_path = [data |-> image, synced |-> FALSE]
  /\ pc \in {"fclose", "rename"} => temp_path = [data |-> image, synced |-> TRUE]
  /\ pc = "ok" => path = NoFile \/ path.data = image

\* While the menu or one of its commands runs, the file has the password that
\* is in memory.
MenuPassword ==
  phase = "menu" \/ (phase = "saving" /\ command \in ByMenu) =>
    path = NoFile \/ path.data.password = g_master_password

\* A store is only created where there is none.
CreatesWhereNone ==
  phase = "create" \/ (command \in {"create", "open"} /\ pc \in Disk!InCall) =>
    path = NoFile

\* No command has ended before the menu.
StatusIsNone ==
  phase \in {"off", "create", "unlock", "reset"}
    \/ command \in {"create", "open", "reset"} => status = "none"

CommandInSave == phase # "saving" => command = "none"

IInv ==
  /\ SaveMatchesMemory /\ FileFollowsImage /\ MenuPassword /\ CreatesWhereNone
  /\ StatusIsNone /\ CommandInSave /\ DoneIsOnDisk

\* The initial state satisfies the inductive invariant.
LEMMA InitIInv == Init => IInv
  BY DEF Init, NoProcess, Disk!Init, IInv, SaveMatchesMemory, FileFollowsImage,
     MenuPassword, CreatesWhereNone, StatusIsNone, CommandInSave, DoneIsOnDisk,
     InSave, ByMenu, Disk!InCall, Disk!Returned

\* The password of an image is the one it was made with.
LEMMA ImagePassword ==
  ASSUME NEW store, NEW password
  PROVE  ImageOf(store, password).password = password
  BY DEF ImageOf, Encrypted

\* Every step preserves it.
LEMMA NextIInv == IInv /\ [Next]_vars => IInv'
<1> SUFFICES ASSUME IInv, [Next]_vars PROVE IInv'
  OBVIOUS
<1>a. ImageOf(g_store, g_master_password).password = g_master_password
  BY ImagePassword
<1> USE DEF IInv, SaveMatchesMemory, FileFollowsImage, MenuPassword,
    CreatesWhereNone, StatusIsNone, CommandInSave, DoneIsOnDisk, InSave, ByMenu,
    Disk!InCall, Disk!Returned, Disk!files, disk
<1>1. CASE Start
  BY <1>1 DEF Start
<1>2. CASE NewStore
  BY <1>2 DEF NewStore, Save, Disk!Begin
<1>3. CASE Decline
  BY <1>3 DEF Decline, Exit
<1>4. CASE OpenStore
  BY <1>4 DEF OpenStore, Opens, Decrypts
<1>5. CASE OpenFails
  BY <1>5 DEF OpenFails, CountAttempt
<1>6. CASE OpenCreates
  BY <1>6 DEF OpenCreates, Save, Disk!Begin
<1>7. ASSUME phase = "menu", NEW why \in ByMenu, Save(why),
             UNCHANGED <<g_master_password, attempts, status>>
      PROVE  IInv'
  BY <1>7 DEF Save, Disk!Begin
<1>8. CASE ManageAddDevice \/ ManageEditDevice \/ ManageDeleteDevice \/ ManageBulkEdit
  BY <1>7, <1>8
     DEF ManageAddDevice, ManageEditDevice, ManageDeleteDevice, ManageBulkEdit
<1>9. CASE CommandRejected
  BY <1>9 DEF CommandRejected
<1>10. CASE Quit
  BY <1>10 DEF Quit, Exit
<1>11. CASE SaveReturned
  BY <1>11, <1>a DEF SaveReturned, BackToMenu, Disk!Return, Exit, CountAttempt
<1>12. CASE SaveStep
  <2> USE <1>12 DEF SaveStep, program
  <2>1. CASE Disk!Prepare
    BY <2>1 DEF Disk!Prepare
  <2>2. CASE Disk!OpenTemp
    BY <2>2 DEF Disk!OpenTemp
  <2>3. CASE Disk!WriteTemp
    BY <2>3 DEF Disk!WriteTemp
  <2>4. CASE Disk!SyncTemp
    BY <2>4 DEF Disk!SyncTemp
  <2>5. CASE Disk!CloseTemp
    BY <2>5 DEF Disk!CloseTemp
  <2>6. CASE Disk!RenameTemp
    BY <2>6, <1>a DEF Disk!RenameTemp
  <2>7. CASE Disk!Undo
    BY <2>7 DEF Disk!Undo
  <2> QED
    BY <1>12, <2>1, <2>2, <2>3, <2>4, <2>5, <2>6, <2>7 DEF Disk!SaveStep
<1>13. CASE Killed
  BY <1>13 DEF Killed, Exit, Disk!Kill, Disk!AbortOnDoubleClose
<1>14. CASE PowerLoss
  BY <1>14 DEF PowerLoss, Exit, Disk!PowerLoss
<1>15. CASE Outside
  BY <1>15 DEF Outside, program, Disk!WriteBack, Disk!Remove
<1>16. CASE UNCHANGED vars
  BY <1>16 DEF vars, program
<1> HIDE DEF IInv, SaveMatchesMemory, FileFollowsImage, MenuPassword,
    CreatesWhereNone, StatusIsNone, CommandInSave, DoneIsOnDisk, InSave, ByMenu,
    Disk!InCall, Disk!Returned, Disk!files, disk
<1> QED
  BY <1>1, <1>2, <1>3, <1>4, <1>5, <1>6, <1>8, <1>9, <1>10, <1>11, <1>12,
     <1>13, <1>14, <1>15, <1>16 DEF Next, Startup, Manage

\* IInv is an invariant of every behaviour.
LEMMA InductiveInvariant == Spec => []IInv
  BY InitIInv, NextIInv, PTL DEF Spec

\* In the menu the file opens with the password held in memory, after any order
\* of failed attempts, resets, failed saves, kills and power failures.
THEOREM MasterMatchesFileHolds == Spec => []MasterMatchesFile
<1>1. IInv => MasterMatchesFile
  BY DEF IInv, MenuPassword, MasterMatchesFile
<1> QED
  BY <1>1, InductiveInvariant, PTL

\* What main() reports as done is on the disk until the next command.
THEOREM DoneIsOnDiskHolds == Spec => []DoneIsOnDisk
<1>1. IInv => DoneIsOnDisk
  BY DEF IInv
<1> QED
  BY <1>1, InductiveInvariant, PTL

\* The only step of a running program that puts a store under another password
\* is the rename of a reset.
THEOREM PasswordChangesByResetHolds == Spec => PasswordChangesByReset
<1> DEFINE Kept ==
      path # NoFile /\ path' # NoFile /\ phase' # "off"
        /\ path'.data.password # path.data.password => command = "reset"
<1>1. IInv /\ [Next]_vars => [Kept]_vars
  <2> SUFFICES ASSUME IInv, Next, path # path', phase' # "off" PROVE Kept
    BY DEF Kept
  <2>1. Disk!RenameTemp \/ Disk!Remove
    BY DEF Next, Startup, Manage, Start, NewStore, Decline, OpenStore, OpenFails,
       OpenCreates, Save, Disk!Begin, ManageAddDevice, ManageEditDevice,
       ManageDeleteDevice, ManageBulkEdit, CommandRejected, Quit, SaveReturned, BackToMenu,
       Disk!Return, SaveStep, Disk!SaveStep, Disk!Prepare, Disk!OpenTemp,
       Disk!WriteTemp, Disk!SyncTemp, Disk!CloseTemp, Disk!Undo, Killed,
       PowerLoss, Exit, Outside, Disk!WriteBack, disk, Disk!files, Disk!Kill,
       Disk!AbortOnDoubleClose
  <2>2. CASE Disk!Remove
    BY <2>2 DEF Disk!Remove
  <2>3. CASE Disk!RenameTemp /\ path' # NoFile /\ path # NoFile
    <3>1. pc = "rename" /\ path' = temp_path /\ phase = "saving"
      BY <2>3 DEF Disk!RenameTemp, IInv, SaveMatchesMemory
    <3>2. path'.data = ImageOf(g_store, g_master_password)
      BY <3>1 DEF IInv, SaveMatchesMemory, FileFollowsImage
    <3>3. path'.data.password = g_master_password
      BY <3>2, ImagePassword
    <3>4. command \in ByMenu \cup {"reset"}
      BY <2>3, <3>1 DEF IInv, SaveMatchesMemory, CreatesWhereNone, Disk!InCall
    <3> QED
      BY <2>3, <3>1, <3>3, <3>4 DEF IInv, MenuPassword
  <2> QED
    BY <2>1, <2>2, <2>3
<1> QED
  BY <1>1, InductiveInvariant, PTL DEF Spec, PasswordChangesByReset

-----------------------------------------------------------------------------
(* The lists of devices.                                                   *)

\* What the import keeps of a text that parses is a list of devices.
LEMMA ImportedType ==
  ASSUME NEW yaml \in Seq(YamlDevice), ImportOk(yaml)
  PROVE  Imported(yaml) \in Seq(DeviceRecord)
<1> DEFINE A == {d \in YamlDevice : Parses(d)}
           S == {d \in YamlDevice : HasRequired(d)}
<1>1. yaml \in Seq(A)
  <2>1. \A i \in 1 .. Len(yaml) : yaml[i] \in A
    BY DEF ImportOk
  <2> HIDE DEF A
  <2> QED
    BY <2>1
<1>2. A \subseteq DeviceRecord
  BY DEF YamlDevice, DeviceRecord, Parses
<1>3. Selected(yaml, S) \in Seq(A \cap S)
  <2> HIDE DEF A, S
  <2> QED
    BY <1>1, SelectedType
<1>4. Selected(yaml, S) \in Seq(DeviceRecord)
  <2> HIDE DEF A, S
  <2> QED
    BY <1>2, <1>3
<1> QED
  BY <1>4 DEF Imported

\* The text ends with the list or in a device of it.
LEMMA LastPrintedRange ==
  ASSUME NEW store \in Seq(DeviceRecord)
  PROVE  LastPrinted(store) \in 0 .. Len(store)
<1> DEFINE IsFirst(i) == IsCut(store, i) /\ \A j \in 1 .. i - 1 : ~IsCut(store, j)
           T == {i \in 1 .. Len(store) : IsCut(store, i)}
<1>1. CASE Uncut(store)
  BY <1>1 DEF LastPrinted
<1>2. CASE ~Uncut(store)
  <2>1. T \subseteq Nat /\ T # {}
    <3>1. \E i \in 1 .. Len(store) : IsCut(store, i)
      BY <1>2 DEF Uncut
    <3> QED
      BY <3>1
  <2>2. PICK i \in T : \A j \in T : i <= j
    <3> HIDE DEF T
    <3> QED
      BY <2>1, LeastMember
  <2>3. i \in 1 .. Len(store) /\ IsFirst(i)
    <3>1. ASSUME NEW j \in 1 .. i - 1 PROVE ~IsCut(store, j)
      BY <2>2
    <3> QED
      BY <2>2, <3>1
  <2>4. (CHOOSE k \in 1 .. Len(store) : IsFirst(k)) \in 1 .. Len(store)
    <3> HIDE DEF IsFirst
    <3> QED
      BY <2>3
  <2> QED
    BY <1>2, <2>4 DEF LastPrinted
<1> QED
  BY <1>1, <1>2

\* A device is printed as one of a text.
LEMMA PrintedType ==
  ASSUME NEW d \in DeviceRecord, NEW whole \in BOOLEAN
  PROVE  Printed(d, whole) \in YamlDevice
  BY QuotedAssumption DEF DeviceRecord, YamlDevice, Printed

\* The text of a list of devices is one of a list of devices.
LEMMA ExportType ==
  ASSUME NEW store \in Seq(DeviceRecord)
  PROVE  ExportYaml(store) \in Seq(YamlDevice)
<1> DEFINE Whole(i) == ~IsCut(store, i) \/ LosesNewline(store, i)
<1>1. ASSUME NEW i \in 1 .. LastPrinted(store)
      PROVE  Printed(store[i], Whole(i)) \in YamlDevice
  <2>1. store[i] \in DeviceRecord /\ Whole(i) \in BOOLEAN
    BY LastPrintedRange
  <2> HIDE DEF Whole
  <2> QED
    BY <2>1, PrintedType
<1>2. ExportYaml(store) = [i \in 1 .. LastPrinted(store) |-> Printed(store[i], Whole(i))]
  BY DEF ExportYaml
<1>3. LastPrinted(store) \in Nat
  BY LastPrintedRange
<1> HIDE DEF Whole
<1> QED
  BY <1>1, <1>2, <1>3

\* A list of plain texts none of which is cut is printed as it is.
LEMMA PrintedAsItIs ==
  ASSUME NEW store \in Seq(DeviceRecord), PlainTexts(store), Uncut(store)
  PROVE  ExportYaml(store) = store
<1>1. LastPrinted(store) = Len(store)
  BY DEF LastPrinted
<1>2. ASSUME NEW i \in 1 .. Len(store)
      PROVE  Printed(store[i], ~IsCut(store, i) \/ LosesNewline(store, i)) = store[i]
  BY Zenon DEF PlainTexts, Uncut
<1>3. ExportYaml(store) = [i \in 1 .. Len(store) |-> store[i]]
  BY <1>1, <1>2, Zenon DEF ExportYaml
<1> QED
  BY <1>3

\* The length of a printed device is a number.
LEMMA EntryIsNumber ==
  ASSUME NEW d \in DeviceRecord
  PROVE  EntryLength(d) \in Nat
<1>1. /\ Length[d.name] \in Nat /\ Length[d.type] \in Nat /\ Length[d.ip] \in Nat
      /\ Length[d.username] \in Nat /\ Length[d.password] \in Nat
  BY SizesAssumption, TextAssumption DEF DeviceRecord
<1> QED
  BY <1>1 DEF EntryLength, UpToPassword

\* Before each device of a list more than the slack is left of the buffer.
Roomy == {b \in [cap : Nat, used : Nat] : b.used + Slack < b.cap /\ b.cap >= InitialCap}

\* Printing one more device, and doubling, keeps it so.
LEMMA PrintingStaysRoomy ==
  ASSUME NEW b \in Roomy, NEW d \in DeviceRecord
  PROVE  AfterPrinting(b, d) \in Roomy
<1>1. EntryLength(d) \in Nat
  BY EntryIsNumber
<1>2. EntryLength(d) <= InitialCap
  BY SizesAssumption
<1> QED
  BY <1>1, <1>2, SizesAssumption DEF AfterPrinting, Roomy

\* The recursive definition of Buffer has a value, by induction over the list.
LEMMA BufferIsRoomy ==
  ASSUME NEW store \in Seq(DeviceRecord)
  PROVE  \A i \in 0 .. Len(store) : Buffer(store)[i] \in Roomy
<1> DEFINE First == [cap |-> InitialCap, used |-> Header]
           Good(F, n) ==
             F[0] = First /\ \A i \in 1 .. n : F[i] = AfterPrinting(F[i - 1], store[i])
           T == {n \in Nat : n <= Len(store) =>
                              \E F \in [0 .. n -> Roomy] : Good(F, n)}
           Of(F) == [i \in 0 .. Len(store) |->
                       IF i = 0 THEN First ELSE AfterPrinting(F[i - 1], store[i])]
           U == CHOOSE F : F = Of(F)
<1>0. First \in Roomy
  BY SizesAssumption DEF Roomy
<1>1. 0 \in T
  <2> DEFINE F == [i \in 0 .. 0 |-> First]
  <2>1. F \in [0 .. 0 -> Roomy]
    BY <1>0
  <2>2. Good(F, 0)
    OBVIOUS
  <2> QED
    BY <2>1, <2>2
<1>2. ASSUME NEW n \in Nat, n \in T, n + 1 <= Len(store) PROVE n + 1 \in T
  <2>1. PICK F \in [0 .. n -> Roomy] : Good(F, n)
    <3>1. n <= Len(store)
      BY <1>2
    <3> HIDE DEF Good
    <3> QED
      BY <1>2, <3>1
  <2> DEFINE G == [i \in 0 .. n + 1 |->
                     IF i = n + 1 THEN AfterPrinting(F[n], store[n + 1]) ELSE F[i]]
  <2>2. store[n + 1] \in DeviceRecord /\ F[n] \in Roomy
    BY <1>2
  <2>3. AfterPrinting(F[n], store[n + 1]) \in Roomy
    BY <2>2, PrintingStaysRoomy
  <2>4. G \in [0 .. n + 1 -> Roomy]
    BY <2>3
  <2>5. Good(G, n + 1)
    <3> HIDE DEF First
    <3>1. G[0] = First
      BY <2>1
    <3>2. ASSUME NEW i \in 1 .. n + 1
          PROVE  G[i] = AfterPrinting(G[i - 1], store[i])
      <4>1. CASE i = n + 1
        <5>1. G[i] = AfterPrinting(F[n], store[n + 1]) /\ G[i - 1] = F[n]
          BY <4>1
        <5> QED
          BY <4>1, <5>1
      <4>2. CASE i # n + 1
        <5>1. i \in 1 .. n /\ i - 1 \in 0 .. n
          BY <4>2
        <5>2. G[i] = F[i] /\ G[i - 1] = F[i - 1]
          BY <4>2, <5>1
        <5> QED
          BY <2>1, <5>1, <5>2
      <4> QED
        BY <4>1, <4>2
    <3> QED
      BY <3>1, <3>2
  <2> HIDE DEF G, Good
  <2> QED
    BY <2>4, <2>5
<1>3. Nat \subseteq T
  <2>1. \A n \in Nat : n \in T => n + 1 \in T
    <3> SUFFICES ASSUME NEW n \in Nat, n \in T PROVE n + 1 \in T
      OBVIOUS
    <3>1. CASE n + 1 <= Len(store)
      <4> HIDE DEF T
      <4> QED
        BY <3>1, <1>2
    <3>2. CASE ~ (n + 1 <= Len(store))
      BY <3>2
    <3> QED
      BY <3>1, <3>2
  <2> HIDE DEF T
  <2> QED
    BY <1>1, <2>1, Induction
<1>4. PICK F \in [0 .. Len(store) -> Roomy] : Good(F, Len(store))
  <2>1. Len(store) \in T
    <3> HIDE DEF T
    <3> QED
      BY <1>3
  <2> HIDE DEF Good
  <2> QED
    BY <2>1
<1>5. F = Of(F)
  <2> HIDE DEF First
  <2>1. F = [i \in 0 .. Len(store) |-> F[i]]
    OBVIOUS
  <2>2. ASSUME NEW i \in 0 .. Len(store)
        PROVE  F[i] = IF i = 0 THEN First ELSE AfterPrinting(F[i - 1], store[i])
    BY <1>4
  <2>3. [i \in 0 .. Len(store) |-> F[i]] = Of(F)
    BY <2>2
  <2> QED
    BY <2>1, <2>3
<1>6. U = Of(U)
  <2> HIDE DEF Of
  <2> QED
    BY <1>5
<1>7. Buffer(store) = U
  BY DEF Buffer
<1> HIDE DEF U, First
<1>8. U[0] = First
  BY <1>6
<1>9. ASSUME NEW i \in 1 .. Len(store) PROVE U[i] = AfterPrinting(U[i - 1], store[i])
  <2>1. i \in 0 .. Len(store) /\ i # 0
    OBVIOUS
  <2>2. Of(U)[i] = AfterPrinting(U[i - 1], store[i])
    BY <2>1
  <2> QED
    BY <1>6, <2>2
<1> DEFINE R == {n \in Nat : n <= Len(store) => U[n] \in Roomy}
<1>10. 0 \in R
  BY <1>0, <1>8
<1>11. ASSUME NEW n \in Nat, n \in R PROVE n + 1 \in R
  <2>1. CASE n + 1 <= Len(store)
    <3>1. n + 1 \in 1 .. Len(store) /\ (n + 1) - 1 = n /\ n <= Len(store)
      BY <2>1
    <3>2. U[n] \in Roomy /\ store[n + 1] \in DeviceRecord
      BY <1>11, <3>1
    <3>3. U[n + 1] = AfterPrinting(U[n], store[n + 1])
      BY <3>1, <1>9
    <3> QED
      BY <3>2, <3>3, PrintingStaysRoomy
  <2>2. CASE ~ (n + 1 <= Len(store))
    BY <2>2
  <2> QED
    BY <2>1, <2>2
<1>12. Nat \subseteq R
  <2> HIDE DEF R
  <2> QED
    BY <1>10, <1>11, Induction
<1> QED
  BY <1>7, <1>12

\* Devices that fit into the slack are never cut, in a list of any length.
LEMMA ShortAreUncut ==
  ASSUME NEW store \in Seq(DeviceRecord),
         \A i \in 1 .. Len(store) : EntryLength(store[i]) <= Slack
  PROVE  Uncut(store)
<1> SUFFICES ASSUME NEW i \in 1 .. Len(store) PROVE ~IsCut(store, i)
  BY DEF Uncut
<1>1. Buffer(store)[i - 1] \in Roomy
  <2>1. i - 1 \in 0 .. Len(store)
    OBVIOUS
  <2> QED
    BY <2>1, BufferIsRoomy
<1>2. EntryLength(store[i]) \in Nat
  <2>1. store[i] \in DeviceRecord
    OBVIOUS
  <2> QED
    BY <2>1, EntryIsNumber
<1> QED
  BY <1>1, <1>2, SizesAssumption DEF IsCut, Roomy

\* A valid list that is printed as it is reads back as that list.
LEMMA ImportsValid ==
  ASSUME NEW store \in Seq(DeviceRecord), store # << >>, ValidateStore(store)
  PROVE  ImportOk(store) /\ Imported(store) = store
<1> DEFINE S == {d \in YamlDevice : HasRequired(d)}
<1>1. ASSUME NEW i \in 1 .. Len(store) PROVE store[i] \in S /\ Parses(store[i])
  <2>1. store[i] \in DeviceRecord /\ HasRequired(store[i])
    BY DEF ValidateStore
  <2>2. \A d \in DeviceRecord : d \in YamlDevice /\ Parses(d)
    BY TextAssumption DEF DeviceRecord, YamlDevice, Parses
  <2> QED
    BY <2>1, <2>2
<1>2. store \in Seq(S)
  <2> HIDE DEF S
  <2> QED
    BY <1>1
<1>3. Selected(store, S) = store
  <2> HIDE DEF S
  <2> QED
    BY <1>2, SelectedAll
<1>4. Imported(store) = store
  BY <1>3 DEF Imported
<1>5. Len(store) \in 1 .. STORE_MAX_DEVICES
  BY MaxAssumption, EmptySeq DEF ValidateStore
<1> QED
  BY <1>1, <1>4, <1>5 DEF ImportOk

\* The commands make lists of devices of lists of devices.
LEMMA ListsStayLists ==
  ASSUME NEW store \in Seq(DeviceRecord)
  PROVE  /\ \A d \in DeviceRecord : Added(store, d) \in Seq(DeviceRecord)
         /\ \A d \in DeviceRecord, i \in 1 .. Len(store) :
              Updated(store, i, d) \in Seq(DeviceRecord)
         /\ \A i \in 1 .. Len(store) : Deleted(store, i) \in Seq(DeviceRecord)
<1>1. ASSUME NEW i \in 1 .. Len(store) PROVE Deleted(store, i) \in Seq(DeviceRecord)
  <2> DEFINE From(k) == IF k < i THEN k ELSE k + 1
  <2>1. Len(store) - 1 \in Nat
    OBVIOUS
  <2>2. ASSUME NEW k \in 1 .. Len(store) - 1 PROVE store[From(k)] \in DeviceRecord
    <3>1. From(k) \in 1 .. Len(store)
      OBVIOUS
    <3> HIDE DEF From
    <3> QED
      BY <3>1
  <2>3. [k \in 1 .. Len(store) - 1 |-> store[From(k)]] \in Seq(DeviceRecord)
    <3> HIDE DEF From
    <3> QED
      BY <2>1, <2>2
  <2> QED
    BY <2>3 DEF Deleted
<1> QED
  BY <1>1 DEF Added, Updated

-----------------------------------------------------------------------------
(* The types, and the file as an atomic register.                          *)

\* The types of the program; before a save and in the menu there is a master
\* password, and open_or_create is only called while attempts are left.
ProgramOK ==
  /\ phase \in Phases
  /\ command \in Commands
  /\ attempts \in 0 .. MaxAttempts
  /\ g_store \in Seq(DeviceRecord)
  /\ g_master_password \in Password \cup {NoPassword}
  /\ status \in {"none", "ok", "failed"}
  /\ phase \in {"saving", "menu"} => g_master_password \in Password
  /\ phase = "unlock" \/ (phase = "saving" /\ command = "open") =>
       attempts < MaxAttempts
  /\ phase \in {"off", "create"} => attempts = 0

\* What can be saved of a list and a master password is an image of the file.
LEMMA ImageType ==
  ASSUME NEW store \in Seq(DeviceRecord), NEW password \in Password
  PROVE  ImageOf(store, password) \in StoreImage
  BY ExportType DEF ImageOf, Encrypted, StoreImage

\* A device typed at the prompts is a record of the list; so is one edited.
LEMMA TypedDevice ==
  /\ [name : TypedName, type : DeviceType, ip : TypedIp,
      username : TypedUsername, password : TypedPassword] \subseteq DeviceRecord
  /\ \A old \in DeviceRecord :
       [name : Answers(old.name, TypedName), type : {old.type},
        ip : Answers(old.ip, TypedIp),
        username : Answers(old.username, TypedUsername),
        password : Answers(old.password, TypedPassword)] \subseteq DeviceRecord
  BY TypedAssumption, TextAssumption DEF DeviceRecord, Answers

\* A file that opens holds a list of devices.
LEMMA OpenedType ==
  ASSUME Disk!TypeOK, path # NoFile, NEW password, Opens(path, password)
  PROVE  Imported(path.data.document) \in Seq(DeviceRecord)
<1>1. path.data \in StoreImage
  BY DEF Disk!TypeOK, Disk!Entry, Disk!File, Opens
<1>2. path.data.document \in Seq(YamlDevice)
  BY <1>1 DEF StoreImage
<1> QED
  BY <1>2, ImportedType DEF Opens

\* Every step keeps the types of the program.
LEMMA NextProgramOK ==
  ASSUME ProgramOK, Disk!TypeOK, SaveMatchesMemory, [Next]_vars
  PROVE  ProgramOK'
<1> << >> \in Seq(DeviceRecord)
  OBVIOUS
<1> USE DEF ProgramOK, Phases, Commands, MaxAttempts
<1>1. CASE Start
  BY <1>1 DEF Start
<1>2. CASE NewStore
  BY <1>2 DEF NewStore, Save
<1>3. CASE Decline \/ Quit \/ Killed \/ PowerLoss
  <2>1. Exit
    BY <1>3 DEF Decline, Quit, Killed, PowerLoss
  <2> QED
    BY <2>1 DEF Exit
<1>4. CASE OpenStore
  BY <1>4, OpenedType DEF OpenStore
<1>5. CASE OpenFails
  BY <1>5 DEF OpenFails, CountAttempt
<1>6. CASE OpenCreates
  BY <1>6 DEF OpenCreates, Save
<1>7. ASSUME phase = "menu", NEW why \in {"add", "edit", "delete", "bulk"},
             Save(why), UNCHANGED <<g_master_password, attempts, status>>,
             g_store' \in Seq(DeviceRecord)
      PROVE  ProgramOK'
  BY <1>7 DEF Save
<1>8. CASE ManageAddDevice
  <2>1. g_store' \in Seq(DeviceRecord)
    BY <1>8, TypedDevice, ListsStayLists DEF ManageAddDevice
  <2> QED
    BY <1>7, <1>8, <2>1 DEF ManageAddDevice
<1>9. CASE ManageEditDevice
  <2>1. PICK i \in 1 .. Len(g_store) :
        \E d \in [name : Answers(g_store[i].name, TypedName),
               type : {g_store[i].type},
               ip : Answers(g_store[i].ip, TypedIp),
               username : Answers(g_store[i].username, TypedUsername),
               password : Answers(g_store[i].password, TypedPassword)] :
          g_store' = Updated(g_store, i, d)
    BY <1>9 DEF ManageEditDevice
  <2>2. g_store[i] \in DeviceRecord
    OBVIOUS
  <2>3. PICK d \in DeviceRecord : g_store' = Updated(g_store, i, d)
    BY <2>1, <2>2, TypedDevice
  <2>4. g_store' \in Seq(DeviceRecord)
    BY <2>3, ListsStayLists
  <2> QED
    BY <1>7, <1>9, <2>4 DEF ManageEditDevice
<1>10. CASE ManageDeleteDevice
  <2>1. g_store' \in Seq(DeviceRecord)
    BY <1>10, ListsStayLists DEF ManageDeleteDevice
  <2> QED
    BY <1>7, <1>10, <2>1 DEF ManageDeleteDevice
<1>11. CASE ManageBulkEdit
  <2>1. \A yaml \in EditedYaml \cup {ExportYaml(g_store)} : yaml \in Seq(YamlDevice)
    BY EditedAssumption, ExportType
  <2>2. g_store' \in Seq(DeviceRecord)
    BY <1>11, <2>1, ImportedType DEF ManageBulkEdit
  <2> QED
    BY <1>7, <1>11, <2>2 DEF ManageBulkEdit
<1>12. CASE CommandRejected
  BY <1>12 DEF CommandRejected
<1>13. CASE SaveReturned
  <2>1. pc \in {"ok", "failed"} /\ phase = "saving"
    BY <1>13 DEF SaveReturned, Disk!Return, Disk!Returned
  <2>2. CASE Exit
    BY <2>2 DEF Exit
  <2>3. CASE command = "open" /\ CountAttempt /\ command' = "none"
             /\ UNCHANGED <<g_store, g_master_password, status>>
    BY <2>1, <2>3 DEF CountAttempt
  <2>4. CASE BackToMenu(pc)
    BY <2>1, <2>4 DEF BackToMenu
  <2> QED
    BY <1>13, <2>2, <2>3, <2>4 DEF SaveReturned
<1>14. CASE SaveStep \/ Outside \/ UNCHANGED vars
  BY <1>14 DEF SaveStep, Outside, vars, program
<1> QED
  BY <1>1, <1>2, <1>3, <1>4, <1>5, <1>6, <1>8, <1>9, <1>10, <1>11, <1>12,
     <1>13, <1>14 DEF Next, Startup, Manage

\* Whatever the program does is a step of the save protocol, or none.
LEMMA NextIsDiskStep ==
  ASSUME ProgramOK', [Next]_vars
  PROVE  [Disk!Next]_(Disk!vars)
<1>1. ASSUME NEW why, Save(why) PROVE \E img \in StoreImage : Disk!Begin(img)
  <2>1. g_store' \in Seq(DeviceRecord) /\ g_master_password' \in Password
    BY <1>1 DEF ProgramOK, Save
  <2>2. ImageOf(g_store', g_master_password') \in StoreImage
    BY <2>1, ImageType
  <2> QED
    BY <1>1, <2>2 DEF Save
<1>2. CASE NewStore \/ OpenCreates \/ ManageAddDevice \/ ManageEditDevice
           \/ ManageDeleteDevice \/ ManageBulkEdit
  BY <1>1, <1>2 DEF Disk!Next, NewStore, OpenCreates, ManageAddDevice,
     ManageEditDevice, ManageDeleteDevice, ManageBulkEdit
<1>3. CASE Start \/ Decline \/ OpenStore \/ OpenFails \/ CommandRejected \/ Quit
  BY <1>3 DEF Start, Decline, OpenStore, OpenFails, CommandRejected, Quit, disk, Disk!vars
<1>4. CASE SaveReturned \/ SaveStep
  BY <1>4 DEF SaveReturned, SaveStep, Disk!Next
<1>5. CASE Killed \/ PowerLoss \/ Outside
  BY <1>5 DEF Killed, PowerLoss, Outside, Disk!Next, Disk!Environment
<1>6. CASE UNCHANGED vars
  BY <1>6 DEF vars, disk, Disk!vars
<1> QED
  BY <1>2, <1>3, <1>4, <1>5, <1>6 DEF Next, Startup, Manage

\* The copy of StoreFile that Configer uses, and the one that is proved about.
LEMMA SameDisk ==
  /\ Disk!Init <=> DiskProofs!Init
  /\ [Disk!Next]_(Disk!vars) <=> [DiskProofs!Next]_(DiskProofs!vars)
  /\ DiskProofs!IInv => Disk!TypeOK
  /\ DiskProofs!ImageAssumption /\ DiskProofs!FaultsAssumption
<1>1. [Disk!Next]_(Disk!vars) <=> [DiskProofs!Next]_(DiskProofs!vars)
  BY DEF Disk!Next, Disk!vars, Disk!SaveStep, Disk!Environment, Disk!Begin,
     Disk!Prepare, Disk!OpenTemp, Disk!WriteTemp, Disk!SyncTemp, Disk!CloseTemp,
     Disk!RenameTemp, Disk!Undo, Disk!Return, Disk!AbortOnDoubleClose, Disk!Kill,
     Disk!WriteBack, Disk!PowerLoss, Disk!Remove, Disk!files, Disk!IoFails,
     Disk!Returned, Disk!AfterLoss,
     DiskProofs!Next, DiskProofs!vars, DiskProofs!SaveStep,
     DiskProofs!Environment, DiskProofs!Begin, DiskProofs!Prepare,
     DiskProofs!OpenTemp, DiskProofs!WriteTemp, DiskProofs!SyncTemp,
     DiskProofs!CloseTemp, DiskProofs!RenameTemp, DiskProofs!Undo,
     DiskProofs!Return, DiskProofs!AbortOnDoubleClose, DiskProofs!Kill,
     DiskProofs!WriteBack, DiskProofs!PowerLoss, DiskProofs!Remove,
     DiskProofs!files, DiskProofs!IoFails, DiskProofs!Returned,
     DiskProofs!AfterLoss
<1>2. Disk!Init <=> DiskProofs!Init
  BY DEF Disk!Init, DiskProofs!Init
<1>3. DiskProofs!IInv => Disk!TypeOK
  BY DEF DiskProofs!IInv, DiskProofs!TypeOK, Disk!TypeOK, DiskProofs!Entry,
     Disk!Entry, DiskProofs!File, Disk!File, DiskProofs!InCall, Disk!InCall,
     DiskProofs!Returned, Disk!Returned
<1>4. DiskProofs!ImageAssumption /\ DiskProofs!FaultsAssumption
  BY DiskAssumption DEF DiskProofs!ImageAssumption, DiskProofs!FaultsAssumption,
     Disk!ImageAssumption, Disk!FaultsAssumption, DiskProofs!File, Disk!File,
     DiskProofs!FaultKinds, Disk!FaultKinds
<1> QED
  BY <1>1, <1>2, <1>3, <1>4

\* Types, the register's invariant and the one above hold together.
Typed == IInv /\ ProgramOK /\ DiskProofs!IInv

LEMMA TypedInvariant == Spec => []Typed /\ [][DiskProofs!Next]_(DiskProofs!vars)
<1>1. Init => Typed
  <2> SUFFICES ASSUME Init PROVE Typed
    OBVIOUS
  <2>1. IInv
    BY InitIInv
  <2>2. ProgramOK
    BY DEF Init, NoProcess, ProgramOK, Phases, Commands, MaxAttempts
  <2>3. DiskProofs!IInv
    BY SameDisk, DiskProofs!InitIInv DEF Init
  <2> QED
    BY <2>1, <2>2, <2>3 DEF Typed
<1>2. Typed /\ [Next]_vars => Typed' /\ [DiskProofs!Next]_(DiskProofs!vars)
  <2> SUFFICES ASSUME Typed, [Next]_vars
               PROVE  Typed' /\ [DiskProofs!Next]_(DiskProofs!vars)
    OBVIOUS
  <2>1. IInv'
    BY NextIInv DEF Typed
  <2>2. ProgramOK'
    BY NextProgramOK, SameDisk DEF Typed, IInv
  <2>3. [DiskProofs!Next]_(DiskProofs!vars)
    BY <2>2, NextIsDiskStep, SameDisk
  <2>4. DiskProofs!IInv'
    BY <2>3, SameDisk, DiskProofs!NextIInv DEF Typed
  <2> QED
    BY <2>1, <2>2, <2>3, <2>4 DEF Typed
<1> QED
  BY <1>1, <1>2, PTL DEF Spec

\* Every variable of the program and of its files keeps its type.
THEOREM TypeCorrect == Spec => []TypeOK
<1>1. Typed => TypeOK
  BY SameDisk DEF Typed, ProgramOK, TypeOK
<1> QED
  BY <1>1, TypedInvariant, PTL

\* A list reported as done opens with the password of memory and reads back as
\* it is, when validate_store accepts it, its texts mean what they say and the
\* buffer of the export cuts none of its devices.
THEOREM DoneListReopensHolds == Spec => []DoneListReopens
<1>1. Typed => DoneListReopens
  <2> SUFFICES ASSUME Typed, DoneAndValid, PlainTexts(g_store), Uncut(g_store)
               PROVE  Reopens
    BY DEF DoneListReopens
  <2>1. path.data = ImageOf(g_store, g_master_password)
    BY DEF Typed, IInv, DoneIsOnDisk, DoneAndValid
  <2>2. g_store \in Seq(DeviceRecord) /\ g_master_password \in Password
    BY DEF Typed, ProgramOK, DoneAndValid
  <2>3. path.data.document = g_store /\ path.data.password = g_master_password
    BY <2>1, <2>2, PrintedAsItIs DEF ImageOf, Encrypted
  <2>4. path.data # Partial
    BY <2>1, <2>2, ImageType, DiskAssumption DEF Disk!ImageAssumption
  <2>5. ImportOk(g_store) /\ Imported(g_store) = g_store
    BY <2>2, ImportsValid DEF DoneAndValid
  <2> QED
    BY <2>3, <2>4, <2>5 DEF Opens, Decrypts, Reopens, DoneAndValid
<1> QED
  BY <1>1, TypedInvariant, PTL

\* With no device longer than the slack of the buffer (512 characters, 443 of
\* them for its texts and the name of its type), that is so of every valid list
\* of plain texts, however long the list.
THEOREM ShortListReopensHolds ==
  Spec => [](DoneAndValid /\ PlainTexts(g_store)
               /\ (\A i \in 1 .. Len(g_store) : EntryLength(g_store[i]) <= Slack)
                 => Reopens)
<1>1. Typed /\ DoneListReopens =>
        (DoneAndValid /\ PlainTexts(g_store)
               /\ (\A i \in 1 .. Len(g_store) : EntryLength(g_store[i]) <= Slack)
                 => Reopens)
  BY ShortAreUncut DEF Typed, ProgramOK, DoneListReopens
<1> QED
  BY <1>1, TypedInvariant, DoneListReopensHolds, PTL

\* Every behaviour of the program, seen at its files, is one of the save
\* protocol of StoreFile.
THEOREM FollowsStoreFile == Spec => Disk!Spec
<1>1. Init => Disk!Init
  BY DEF Init
<1>2. Typed /\ Typed' /\ [Next]_vars => [Disk!Next]_(Disk!vars)
  BY NextIsDiskStep DEF Typed
<1> QED
  BY <1>1, <1>2, TypedInvariant, PTL DEF Spec, Disk!Spec

\* So what StoreFile promises holds of the program: its store is an atomic
\* register through all its commands, failed attempts and ends.
THEOREM StoreIsAtomicRegisterHolds == Spec => Disk!IsAtomicRegister
<1>1. Spec => DiskProofs!Spec
  <2>1. Init => DiskProofs!Init
    BY SameDisk DEF Init
  <2> QED
    BY <2>1, TypedInvariant, PTL DEF Spec, DiskProofs!Spec
<1>2. DiskProofs!Spec => DiskProofs!IsAtomicRegister
  BY DiskProofs!ImplementsRegister, SameDisk
<1>3. DiskProofs!IsAtomicRegister => Disk!IsAtomicRegister
  <2>1. DiskProofs!Register!Init <=> Disk!Register!Init
    BY DEF DiskProofs!Register!Init, Disk!Register!Init, Disk!InCall, DiskProofs!InCall
  <2>2. [DiskProofs!Register!Next]_(DiskProofs!Register!vars)
          <=> [Disk!Register!Next]_(Disk!Register!vars)
    BY DEF Disk!Register!Next, Disk!Register!Request,
       Disk!Register!Commit, Disk!Register!Refuse,
       Disk!Register!Answered, Disk!Register!Die, Disk!Register!Harden,
       Disk!Register!PowerFailure, Disk!Register!Erase,
       Disk!Register!vars, DiskProofs!Register!Next,
       DiskProofs!Register!Request, DiskProofs!Register!Commit,
       DiskProofs!Register!Refuse, DiskProofs!Register!Answered,
       DiskProofs!Register!Die, DiskProofs!Register!Harden,
       DiskProofs!Register!PowerFailure, DiskProofs!Register!Erase,
       DiskProofs!Register!vars, Disk!InCall, DiskProofs!InCall
  <2> QED
    BY <2>1, <2>2, PTL
       DEF DiskProofs!IsAtomicRegister, Disk!IsAtomicRegister,
           DiskProofs!Register!Spec, Disk!Register!Spec
<1> QED
  BY <1>1, <1>2, <1>3, PTL
=============================================================================
