------------------------------ MODULE StoreFile ------------------------------
(***************************************************************************)
(* How credential_store_save puts an image of the store on the disk: it    *)
(* writes "<path>.tmp", flushes and syncs it, and renames it over <path>.   *)
(* One action is one library call of that function (or a group of calls    *)
(* with the same failure path), so a kill or a power failure can come      *)
(* between any two of them.  The file system is the environment: `path'    *)
(* and `temp_path' are what programs see, `durable' is the entry of <path>  *)
(* that a power failure would leave, since rename is visible before the    *)
(* directory is written back and the function never syncs the directory.   *)
(***************************************************************************)
CONSTANTS
  Image,    \* what a complete file can hold (header, ciphertext and tag)
  NoFile,   \* a directory entry that does not exist
  Partial,  \* the contents of a file that was only written in part
  Faults    \* the faults the environment produces, a subset of FaultKinds

FaultKinds == {"io", "kill", "power", "remove"}

File == [data : Image \cup {Partial}, synced : BOOLEAN]
Entry == File \cup {NoFile}

ASSUME ImageAssumption ==
  NoFile \notin Image /\ NoFile \notin File /\ Partial \notin Image
ASSUME FaultsAssumption == Faults \subseteq FaultKinds

VARIABLES
  path,       \* the entry at <path>: a file, or NoFile
  temp_path,  \* the entry at <path>.tmp
  durable,    \* the entry at <path> on stable storage
  image,      \* what the current or the last call was asked to save
  pc          \* where credential_store_save is, or what it returned

vars == <<path, temp_path, durable, image, pc>>
files == <<path, temp_path, durable>>

InCall == {"prepare", "fopen", "fwrite", "fsync", "fclose", "rename",
           "undo", "undo_closed"}
Returned == {"ok", "failed"}

TypeOK ==
  /\ path \in Entry
  /\ temp_path \in Entry
  /\ durable \in Entry
  /\ image \in Image \cup {NoFile}
  /\ pc \in {"idle"} \cup InCall \cup Returned

Init ==
  /\ path = NoFile
  /\ temp_path = NoFile
  /\ durable = NoFile
  /\ image = NoFile
  /\ pc = "idle"

IoFails == "io" \in Faults

-----------------------------------------------------------------------------
(* The calls of credential_store_save, in order.                           *)

\* Mutant: the text to save was cut.
BeginCut(img) == pc = "idle" /\ image' = Partial /\ pc' = "prepare" /\ UNCHANGED files

Begin(img) ==
  /\ pc = "idle"
  /\ image' = img
  /\ pc' = "prepare"
  /\ UNCHANGED files

\* Random bytes, export, key derivation and encryption: memory only.
Prepare ==
  /\ pc = "prepare"
  /\ \/ pc' = "fopen"
     \/ IoFails /\ pc' = "failed"
  /\ UNCHANGED <<files, image>>

\* fopen(temp_path, "wb") truncates whatever an earlier call left there.
OpenTemp ==
  /\ pc = "fopen"
  /\ \/ /\ temp_path' = [data |-> Partial, synced |-> FALSE]
        /\ pc' = "fwrite"
     \/ /\ IoFails
        /\ pc' = "failed"
        /\ UNCHANGED temp_path
  /\ UNCHANGED <<path, durable, image>>

\* Mutant: the results of fwrite and fflush are not looked at.
WriteTempUnchecked ==
  /\ pc = "fwrite" /\ pc' = "fsync"
  /\ \/ temp_path' = [data |-> image, synced |-> FALSE]
     \/ IoFails /\ UNCHANGED temp_path
  /\ UNCHANGED <<path, durable, image>>

\* Header, ciphertext and tag, then fflush.
WriteTemp ==
  /\ pc = "fwrite"
  /\ \/ /\ temp_path' = [data |-> image, synced |-> FALSE]
        /\ pc' = "fsync"
     \/ /\ IoFails
        /\ pc' = "undo"
        /\ UNCHANGED temp_path
  /\ UNCHANGED <<path, durable, image>>

\* Mutant: the file is closed without fsync.
SyncTempMissing == pc = "fsync" /\ pc' = "fclose" /\ UNCHANGED <<files, image>>

SyncTemp ==
  /\ pc = "fsync"
  /\ \/ /\ temp_path' = [temp_path EXCEPT !.synced = TRUE]
        /\ pc' = "fclose"
     \/ /\ IoFails
        /\ pc' = "undo"
        /\ UNCHANGED temp_path
  /\ UNCHANGED <<path, durable, image>>

\* A failed fclose still ends the stream, and the error path closes it again.
CloseTemp ==
  /\ pc = "fclose"
  /\ \/ pc' = "rename"
     \/ IoFails /\ pc' = "undo_closed"
  /\ UNCHANGED <<files, image>>

RenameTemp ==
  /\ pc = "rename"
  /\ \/ /\ path' = temp_path
        /\ temp_path' = NoFile
        /\ pc' = "ok"
     \/ /\ IoFails
        /\ pc' = "undo_closed"
        /\ UNCHANGED <<path, temp_path>>
  /\ UNCHANGED <<durable, image>>

\* Mutant: the error path removes <path> instead of the temporary file.
UndoRemovesPath ==
  /\ pc \in {"undo", "undo_closed"} /\ pc' = "failed"
  /\ path' = NoFile
  /\ UNCHANGED <<temp_path, durable, image>>

\* fclose and unlink(temp_path); the result of unlink is not looked at.
Undo ==
  /\ pc \in {"undo", "undo_closed"}
  /\ \/ temp_path' = NoFile
     \/ IoFails /\ UNCHANGED temp_path
  /\ pc' = "failed"
  /\ UNCHANGED <<path, durable, image>>

\* The caller takes the result.
Return ==
  /\ pc \in Returned
  /\ pc' = "idle"
  /\ UNCHANGED <<files, image>>

-----------------------------------------------------------------------------
(* The environment.                                                        *)

\* Closing a closed stream is undefined: the process may as well abort.
AbortOnDoubleClose ==
  /\ pc = "undo_closed"
  /\ pc' = "idle"
  /\ UNCHANGED <<files, image>>

\* The process dies; what it wrote stays visible.
Kill ==
  /\ "kill" \in Faults
  /\ pc' = "idle"
  /\ UNCHANGED <<files, image>>

\* The kernel writes the directory back.  Only a power failure tells.
WriteBack ==
  /\ "power" \in Faults
  /\ durable' = path
  /\ UNCHANGED <<path, temp_path, image, pc>>

\* What a power failure can leave of an entry that is on stable storage: data
\* that was never synced may or may not have reached the disk.
AfterLoss(e) ==
  IF e = NoFile \/ e.synced THEN {e}
  ELSE {[data |-> d, synced |-> TRUE] : d \in {e.data, Partial}}

PowerLoss ==
  /\ "power" \in Faults
  /\ \E f \in AfterLoss(durable) : path' = f /\ durable' = f
  /\ temp_path' \in {NoFile, [data |-> Partial, synced |-> TRUE]}
  /\ pc' = "idle"
  /\ UNCHANGED image

\* The file is deleted from outside.
Remove ==
  /\ "remove" \in Faults
  /\ path' = NoFile
  /\ UNCHANGED <<temp_path, durable, image, pc>>

SaveStep ==
  \/ Prepare \/ OpenTemp \/ WriteTemp \/ SyncTemp \/ CloseTemp \/ RenameTemp
  \/ Undo

Environment == Kill \/ WriteBack \/ PowerLoss \/ Remove

Next ==
  \/ \E img \in Image : Begin(img)
  \/ SaveStep
  \/ Return
  \/ AbortOnDoubleClose
  \/ Environment

Spec == Init /\ [][Next]_vars

-----------------------------------------------------------------------------
(* Properties.                                                             *)

\* Whatever fails and wherever the process or the machine stops inside
\* credential_store_save, neither what <path> shows nor what it would show
\* after a power failure is ever a partly written file.
Whole == [data : Image, synced : {TRUE}]
NeverTorn == {path, durable} \subseteq Whole \cup {NoFile}

\* Just before the rename the temporary file is complete and on the disk, and
\* holds what this call was asked to save: leftovers of an earlier call that
\* died or failed to unlink are never renamed.
RenamesItsOwnImage ==
  pc = "rename" => temp_path = [data |-> image, synced |-> TRUE]

\* The promise of the module: an atomic register (module DurableRegister).
Register == INSTANCE DurableRegister WITH
  Value <- Image,
  Nothing <- NoFile,
  visible <- IF path = NoFile THEN NoFile ELSE path.data,
  stable <- IF durable = NoFile THEN NoFile ELSE durable.data,
  wanted <- image,
  state <- IF pc \in InCall THEN "busy" ELSE pc

IsAtomicRegister == Register!Spec
=============================================================================
