------------------------------- MODULE Configer -------------------------------
(***************************************************************************)
(* The program's life around its store: main() of src/TUI/main.c from the   *)
(* first access check to the menu, the commands of "Manage devices", and    *)
(* the end of the process, wanted or not.  Every save is the call-by-call   *)
(* protocol of StoreFile, so that a kill or a power failure can strike      *)
(* inside any command, and the program starts again from what is left.      *)
(***************************************************************************)
EXTENDS CredentialStore

CONSTANTS
  Password,          \* master passwords, typed right or wrong
  NoPassword,        \* the cleared g_master_password
  NoFile, Partial, Faults,
  TypedName, TypedIp, TypedUsername, TypedPassword,  \* answers to prompts
  EditedYaml         \* texts the user may leave in the editor, parsed

MaxAttempts == 3

ASSUME TypedAssumption ==
  /\ TypedName \subseteq ShortText /\ TypedUsername \subseteq ShortText
  /\ TypedPassword \subseteq Text /\ TypedIp \subseteq PromptIp
ASSUME EditedAssumption == \A yaml \in EditedYaml : yaml \in Seq(YamlDevice)
ASSUME PasswordAssumption == NoPassword \notin Password

VARIABLES
  path, temp_path, durable, image, pc,  \* the file and the save call in it
  phase,              \* where main() is; "off" when there is no process
  command,            \* the operation that called credential_store_save
  attempts,           \* failed attempts to open the store
  g_store,            \* the device list in memory
  g_master_password,
  status              \* how the last command of this session ended

StoreImage == [document : Seq(YamlDevice), password : Password]

Disk == INSTANCE StoreFile WITH Image <- StoreImage

ASSUME DiskAssumption == Disk!ImageAssumption /\ Disk!FaultsAssumption

disk == <<path, temp_path, durable, image, pc>>
program == <<phase, command, attempts, g_store, g_master_password, status>>
vars == <<disk, program>>

Phases == {"off", "create", "unlock", "reset", "saving", "menu"}
Commands == {"none", "create", "open", "reset", "add", "edit", "delete", "bulk"}

TypeOK ==
  /\ Disk!TypeOK
  /\ phase \in Phases
  /\ command \in Commands
  /\ attempts \in 0 .. MaxAttempts
  /\ g_store \in Seq(DeviceRecord)
  /\ g_master_password \in Password \cup {NoPassword}
  /\ status \in {"none", "ok", "failed"}

NoProcess ==
  /\ phase = "off"
  /\ command = "none"
  /\ attempts = 0
  /\ g_store = << >>
  /\ g_master_password = NoPassword
  /\ status = "none"

Init == Disk!Init /\ NoProcess

\* encrypt_payload: the text under a key derived from the password, with a tag;
\* decrypt_payload: the tag fits under the same password only.
Encrypted(text, password) == [document |-> text, password |-> password]
Decrypts(file, password) == file.password = password

\* The image that a save made now would write.
ImageOf(store, password) == Encrypted(ExportYaml(store), password)

\* credential_store_save(&g_store, STORE_FILE_PATH, g_master_password), with
\* the list and the password as this step leaves them.
Save(why) ==
  /\ Disk!Begin(ImageOf(g_store', g_master_password'))
  /\ phase' = "saving"
  /\ command' = why

Exit ==
  /\ phase' = "off" /\ command' = "none" /\ attempts' = 0
  /\ g_store' = << >> /\ g_master_password' = NoPassword /\ status' = "none"

-----------------------------------------------------------------------------
(* main(), up to the menu.                                                 *)

\* access(STORE_FILE_PATH, F_OK)
Start ==
  /\ phase = "off"
  /\ phase' = IF path = NoFile THEN "create" ELSE "unlock"
  /\ UNCHANGED <<disk, command, attempts, g_store, g_master_password, status>>

\* A new store, empty, under a password typed twice; the same for a reset.
NewStore ==
  /\ phase \in {"create", "reset"}
  /\ g_master_password' \in Password
  /\ g_store' = << >>
  /\ Save(phase)
  /\ UNCHANGED <<attempts, status>>

\* The two passwords differ, the input ends, or the reset is declined.
Decline == phase \in {"create", "unlock", "reset"} /\ Exit /\ UNCHANGED disk

\* Whether credential_store_open_or_create can read the list back.
Opens(file, password) ==
  /\ file.data # Partial
  /\ Decrypts(file.data, password)
  /\ ImportOk(file.data.document)
  /\ ValidateStore(Imported(file.data.document))

\* Mutants: the bound of the loop is not looked at; the attempt is not counted.
CountForever == attempts' = attempts + 1 /\ phase' = "unlock"
CountNot == phase' = "unlock" /\ UNCHANGED attempts

CountAttempt ==
  /\ attempts' = attempts + 1
  /\ phase' = IF attempts + 1 < MaxAttempts THEN "unlock" ELSE "reset"

OpenStore ==
  /\ phase = "unlock"
  /\ g_master_password' \in Password
  /\ path # NoFile /\ Opens(path, g_master_password')
  /\ g_store' = Imported(path.data.document)
  /\ phase' = "menu"
  /\ attempts' = 0
  /\ UNCHANGED <<disk, command, status>>

\* Wrong password, unreadable or invalid file.  What a failed attempt leaves in
\* g_store is cleared by the next memset before anything looks at it.
OpenFails ==
  /\ phase = "unlock"
  /\ g_master_password' \in Password
  /\ path # NoFile
  /\ Disk!IoFails \/ ~Opens(path, g_master_password')
  /\ CountAttempt
  /\ g_store' = << >>
  /\ UNCHANGED <<disk, command, status>>

\* Mutant: a new store is made when the file cannot be opened for any reason.
OpenCreatesAnyway ==
  /\ phase = "unlock"
  /\ g_master_password' \in Password
  /\ path = NoFile \/ Disk!IoFails
  /\ g_store' = << >>
  /\ Save("open")
  /\ UNCHANGED <<attempts, status>>

\* The file went away after main() saw it: open_or_create makes a new one.
OpenCreates ==
  /\ phase = "unlock"
  /\ g_master_password' \in Password
  /\ path = NoFile
  /\ g_store' = << >>
  /\ Save("open")
  /\ UNCHANGED <<attempts, status>>

-----------------------------------------------------------------------------
(* The commands of the menu "Manage devices".                              *)

ManageAddDevice ==
  /\ phase = "menu"
  /\ CanAdd(g_store)
  /\ \E d \in [name : TypedName, type : DeviceType, ip : TypedIp,
               username : TypedUsername, password : TypedPassword] :
       g_store' = Added(g_store, d)
  /\ UNCHANGED g_master_password
  /\ Save("add")
  /\ UNCHANGED <<attempts, status>>

\* A blank answer keeps the field.
Answers(old, typed) == {old} \cup (typed \ {Blank})

ManageEditDevice ==
  /\ phase = "menu"
  /\ \E i \in 1 .. Len(g_store) :
     \E d \in [name : Answers(g_store[i].name, TypedName),
               type : {g_store[i].type},
               ip : Answers(g_store[i].ip, TypedIp),
               username : Answers(g_store[i].username, TypedUsername),
               password : Answers(g_store[i].password, TypedPassword)] :
       g_store' = Updated(g_store, i, d)
  /\ UNCHANGED g_master_password
  /\ Save("edit")
  /\ UNCHANGED <<attempts, status>>

ManageDeleteDevice ==
  /\ phase = "menu"
  /\ \E i \in 1 .. Len(g_store) : g_store' = Deleted(g_store, i)
  /\ UNCHANGED g_master_password
  /\ Save("delete")
  /\ UNCHANGED <<attempts, status>>

\* The user leaves the exported text as it is or some other text; what it
\* imports as replaces the list, and is not validated.
ManageBulkEdit ==
  /\ phase = "menu"
  /\ \E yaml \in EditedYaml \cup {ExportYaml(g_store)} :
       ImportOk(yaml) /\ g_store' = Imported(yaml)
  /\ UNCHANGED g_master_password
  /\ Save("bulk")
  /\ UNCHANGED <<attempts, status>>

\* A command that returns before it touches the list: the input ends, a type,
\* address or index is not accepted, the list is full or empty, the editor or
\* the import fails.
CommandRejected ==
  /\ phase = "menu"
  /\ status' = "failed"
  /\ UNCHANGED <<disk, phase, command, attempts, g_store, g_master_password>>

Quit == phase = "menu" /\ Exit /\ UNCHANGED disk

BackToMenu(result) ==
  /\ phase' = "menu" /\ command' = "none" /\ status' = result /\ attempts' = 0
  /\ UNCHANGED <<g_store, g_master_password>>

\* Mutants: a failed save is reported as done; a failed reset leads to the menu.
SaveAlwaysDone == phase = "saving" /\ Disk!Return /\ BackToMenu("ok")
ResetUnchecked == phase = "saving" /\ Disk!Return /\ BackToMenu(pc)

\* What each caller does with the result of credential_store_save.
SaveReturned ==
  /\ phase = "saving"
  /\ Disk!Return
  /\ \/ /\ command \in {"create", "reset"} /\ pc = "failed"
        /\ Exit
     \/ /\ command = "open" /\ pc = "failed"
        /\ CountAttempt
        /\ command' = "none"
        /\ UNCHANGED <<g_store, g_master_password, status>>
     \/ /\ pc = "ok" \/ command \notin {"create", "reset", "open"}
        /\ BackToMenu(pc)

-----------------------------------------------------------------------------

SaveStep == Disk!SaveStep /\ UNCHANGED program

\* The process ends in the middle of whatever it is doing.
Killed ==
  /\ phase # "off"
  /\ Disk!Kill \/ Disk!AbortOnDoubleClose
  /\ Exit

PowerLoss == Disk!PowerLoss /\ Exit

Outside == (Disk!WriteBack \/ Disk!Remove) /\ UNCHANGED program

Startup ==
  \/ Start \/ NewStore \/ Decline \/ OpenStore \/ OpenFails \/ OpenCreates

Manage ==
  \/ ManageAddDevice \/ ManageEditDevice \/ ManageDeleteDevice
  \/ ManageBulkEdit \/ CommandRejected

Next ==
  \/ Startup \/ Manage \/ Quit \/ SaveStep \/ SaveReturned
  \/ Killed \/ PowerLoss \/ Outside

Spec == Init /\ [][Next]_vars

\* A running program goes on, and its user goes on answering the prompts that
\* come before the menu.  Nothing is assumed of the menu, of kills or of the
\* kernel.
Answer == NewStore \/ Decline \/ OpenStore \/ OpenFails \/ OpenCreates

Fairness ==
  WF_vars(SaveStep) /\ WF_vars(SaveReturned) /\ WF_vars(Answer)

FairSpec == Spec /\ Fairness

-----------------------------------------------------------------------------
(* Properties.                                                             *)

\* In the menu, the file on disk opens with the password held in memory: no
\* order of failed attempts, resets, failed saves, kills and power failures
\* leads to commands that would save under a password the file never had.
MasterMatchesFile ==
  phase = "menu" /\ path # NoFile => path.data.password = g_master_password

\* A command reported as done has its list on the disk, and it stays so until
\* the next command: main() never says "Device added" of a list that only the
\* memory holds.
DoneIsOnDisk ==
  phase = "menu" /\ status = "ok" /\ path # NoFile =>
    path.data = ImageOf(g_store, g_master_password)

\* A list of the menu that was reported as done and that validate_store accepts.
DoneAndValid ==
  /\ phase = "menu" /\ status = "ok" /\ path # NoFile
  /\ g_store # << >> /\ ValidateStore(g_store)

Reopens ==
  Opens(path, g_master_password) /\ Imported(path.data.document) = g_store

\* Such a list can be opened again and is then the same list, if no text of it
\* means something to a YAML parser and the export's buffer cuts none of it.
DoneListReopens ==
  DoneAndValid /\ PlainTexts(g_store) /\ Uncut(g_store) => Reopens

\* A store is never put under another password, except by the reset the user
\* confirmed (a power failure, which ends the process, may undo one).
PasswordChangesByReset ==
  [][path # NoFile /\ path' # NoFile /\ phase' # "off"
       /\ path'.data.password # path.data.password => command = "reset"]_vars

\* The dialogue before the menu ends, in the menu or with the program: three
\* failed attempts lead out of the loop, whatever open_or_create had to save.
StartupEnds ==
  phase \in {"create", "unlock", "reset"} ~> phase \in {"menu", "off"}

-----------------------------------------------------------------------------
(* What the program says of itself, and does not keep.                     *)

\* "Wrong password or corrupted store": an attempt fails only for one of the
\* two reasons the message names.
FailsOnlyIfWrongOrCorrupted ==
  [][attempts' = attempts + 1 /\ pc = "idle" =>
       path.data = Partial \/ path.data.password # g_master_password']_vars
=============================================================================
