--------------------------------- MODULE Tui ---------------------------------
(***************************************************************************)
(* The screen and the prompts of src/TUI/main.c: the items build_menu made  *)
(* last, the selection, and the questions a command asks on the terminal.   *)
(* What a command does once it has its answers is Configer's and            *)
(* ConfigArchive's; here it changes the device list or serves a device.     *)
(*                                                                          *)
(* A line typed at a prompt is its length and what it says.  fgets takes    *)
(* what its buffer holds, and the rest of the line stays in the buffer of   *)
(* stdin, which flushinp does not reach, for the next prompt.               *)
(***************************************************************************)
EXTENDS Naturals, Sequences

CONSTANTS
  Record,          \* what a device may consist of
  NoRecord,
  MENU_MAX_ITEMS,
  STORE_MAX_DEVICES,
  LineLength       \* lengths of the lines a user types

ASSUME CapacityAssumption == MENU_MAX_ITEMS \in Nat /\ MENU_MAX_ITEMS > 5
ASSUME StoreMaxAssumption == STORE_MAX_DEVICES \in Nat
ASSUME LengthAssumption == LineLength \subseteq Nat
ASSUME RecordAssumption == NoRecord \notin Record

VARIABLES
  g_store,
  screen, items, selected,  \* selected counts from 1
  dialogue, ask,            \* the command that asks, and its question
  picked,                   \* the device chosen in this dialogue, or 0
  left,                     \* characters of a line that no prompt took yet
  eof,                      \* the end of the input, which stays
  served                    \* history: what the last GET or SEND was for

menu == <<screen, items, selected>>
prompts == <<dialogue, ask, picked, left, eof>>
vars == <<g_store, menu, prompts, served>>

Action ==
  {"nav_get", "nav_send", "nav_manage", "run_get", "run_send", "get_all",
   "send_all", "add", "edit", "delete", "bulk", "history", "back"}
Item(action) == [action |-> action, device_index |-> 0, label |-> NoRecord]
MenuItem ==
  [action : Action, device_index : 0 .. STORE_MAX_DEVICES, label : Record \cup {NoRecord}]

-----------------------------------------------------------------------------
(* build_menu.                                                             *)

\* Mutant: the item "<- Back" is not counted in.
ShownToTheBrim(n) == IF n + 1 < MENU_MAX_ITEMS THEN n ELSE MENU_MAX_ITEMS - 2

\* How many of n devices get an item: while count + 1 < capacity, after the
\* item for all of them and the separator.
Shown(n) == IF n + 2 < MENU_MAX_ITEMS THEN n ELSE MENU_MAX_ITEMS - 3

\* Mutant: the index is that of the item, less one for "all devices" only.
DeviceMenuShifted(all, run, store) ==
  [k \in 1 .. Shown(Len(store)) + 3 |->
     CASE k \in {1, 2}                -> Item(IF k = 1 THEN all ELSE "back")
       [] k = Shown(Len(store)) + 3   -> Item("back")
       [] OTHER -> [action |-> run, device_index |-> k - 1, label |-> store[k - 2]]]

DeviceMenu(all, run, store) ==
  [k \in 1 .. Shown(Len(store)) + 3 |->
     CASE k = 1                       -> Item(all)
       [] k = 2                       -> Item("back")  \* the separator
       [] k = Shown(Len(store)) + 3   -> Item("back")
       [] OTHER -> [action |-> run, device_index |-> k - 2, label |-> store[k - 2]]]

BuildMenu(s, store) ==
  CASE s = "top"  -> <<Item("nav_get"), Item("nav_send"), Item("nav_manage")>>
    [] s = "get"  -> DeviceMenu("get_all", "run_get", store)
    [] s = "send" -> DeviceMenu("send_all", "run_send", store)
    [] OTHER      -> <<Item("add"), Item("edit"), Item("delete"), Item("bulk"),
                       Item("history"), Item("back")>>

Show(s) ==
  /\ screen' = s
  /\ items' = BuildMenu(s, g_store')
  /\ selected' = 1

-----------------------------------------------------------------------------
(* The questions of each command: the size of the buffer the line is read   *)
(* into and what is checked of it.  A getchar takes one character.          *)

Ask(size, check) == [size |-> size, check |-> check]
Pause == Ask(2, "none")
Index == Ask(32, "index")

Questions ==
  [add     |-> <<Ask(128, "none"), Ask(32, "type"), Ask(64, "ip"),
                 Ask(128, "none"), Ask(256, "none")>>,
   edit    |-> <<Index, Ask(32, "keep"), Ask(32, "keep_ip"), Ask(32, "keep"),
                 Ask(32, "keep")>>,
   delete  |-> <<Index>>,
   history |-> <<Index, Pause>>,
   all     |-> <<Pause>>]

\* What a line says.  strtoul finds a number in an address, too.
Content == {"blank", "number", "ip", "type", "word"}
Accepts(check, content) ==
  CASE check = "type"    -> content = "type"
    [] check = "ip"      -> content = "ip"
    [] check = "keep_ip" -> content \in {"blank", "ip"}
    [] check = "index"   -> content \in {"number", "ip"}
    [] OTHER             -> TRUE

Dialogues == DOMAIN Questions \cup {"none"}

TypeOK ==
  /\ g_store \in Seq(Record) /\ Len(g_store) <= STORE_MAX_DEVICES
  /\ screen \in {"top", "get", "send", "manage", "off"}
  /\ items \in Seq(MenuItem)
  /\ selected \in 1 .. Len(items)
  /\ dialogue \in Dialogues
  /\ ask \in Nat /\ (dialogue # "none" => ask \in DOMAIN Questions[dialogue])
  /\ picked \in 0 .. Len(g_store)
  /\ left \in Nat /\ eof \in BOOLEAN
  /\ served \in [shown : Record, served : Record] \cup {NoRecord}

Init ==
  /\ g_store \in UNION {[1 .. n -> Record] : n \in 0 .. STORE_MAX_DEVICES}
  /\ screen = "top" /\ items = BuildMenu("top", g_store) /\ selected = 1
  /\ dialogue = "none" /\ ask = 0 /\ picked = 0
  /\ left = 0 /\ eof = FALSE
  /\ served = NoRecord

-----------------------------------------------------------------------------
(* Keys.                                                                   *)

AtMenu == screen # "off" /\ dialogue = "none"

\* Mutant: the selection may go past the last item.
DownUnchecked ==
  /\ AtMenu
  /\ selected' = selected + 1
  /\ UNCHANGED <<g_store, screen, items, prompts, served>>

Down ==
  /\ AtMenu /\ selected < Len(items)
  /\ selected' = selected + 1
  /\ UNCHANGED <<g_store, screen, items, prompts, served>>

Up ==
  /\ AtMenu /\ selected > 1
  /\ selected' = selected - 1
  /\ UNCHANGED <<g_store, screen, items, prompts, served>>

Chosen == items[selected]
Enter(action) == AtMenu /\ Chosen.action = action

\* 'b', the item "<- Back", and the separator.
Back ==
  /\ AtMenu
  /\ screen # "top" \/ Chosen.action = "back"
  /\ UNCHANGED <<g_store, prompts, served>>
  /\ Show("top")

Navigate ==
  /\ UNCHANGED <<g_store, prompts, served>>
  /\ \/ Enter("nav_get") /\ Show("get")
     \/ Enter("nav_send") /\ Show("send")
     \/ Enter("nav_manage") /\ Show("manage")

Quit ==
  /\ AtMenu
  /\ screen' = "off"
  /\ UNCHANGED <<g_store, items, selected, prompts, served>>

\* A single device; an index the list no longer has is turned away.
RunDevice ==
  /\ Enter("run_get") \/ Enter("run_send")
  /\ served' = IF Chosen.device_index \in 1 .. Len(g_store)
               THEN [shown |-> Chosen.label, served |-> g_store[Chosen.device_index]]
               ELSE served
  /\ UNCHANGED <<g_store, menu, prompts>>

Begin(d) ==
  /\ dialogue' = d /\ ask' = 1 /\ picked' = 0
  /\ UNCHANGED <<g_store, menu, left, eof, served>>

\* The commands that ask; edit and delete return at once from an empty list.
AskCommand ==
  \/ (Enter("get_all") \/ Enter("send_all")) /\ Begin("all")
  \/ Enter("add") /\ Begin("add")
  \/ \E d \in {"edit", "delete", "history"} :
       Enter(d) /\ g_store # << >> /\ Begin(d)

EmptyList ==
  /\ g_store = << >>
  /\ UNCHANGED <<g_store, prompts, served>>
  /\ \/ (Enter("edit") \/ Enter("delete")) /\ Show("manage")
     \/ Enter("history") /\ UNCHANGED menu

\* The editor may leave any list there is room for; it is not empty.
BulkEdit ==
  /\ Enter("bulk")
  /\ \/ g_store' \in UNION {[1 .. n -> Record] : n \in 1 .. STORE_MAX_DEVICES}
     \/ UNCHANGED g_store
  /\ Show("manage")
  /\ UNCHANGED <<prompts, served>>

-----------------------------------------------------------------------------
(* Prompts.                                                                *)

Question == Questions[dialogue][ask]
Last == ask = Len(Questions[dialogue])

\* What the command does with its answers, the device chosen in this dialogue
\* among them; a save that fails leaves the list changed.
Changed(chosen) ==
  CASE dialogue = "add" /\ Len(g_store) < STORE_MAX_DEVICES ->
         {Append(g_store, r) : r \in Record}
    [] dialogue = "edit"   -> {[g_store EXCEPT ![chosen] = r] : r \in Record}
    [] dialogue = "delete" ->
         {[i \in 1 .. Len(g_store) - 1 |-> g_store[IF i < chosen THEN i ELSE i + 1]]}
    [] OTHER               -> {g_store}

\* GET, SEND and history leave the screen as it is.
EndDialogue ==
  /\ dialogue' = "none" /\ ask' = 0 /\ picked' = 0
  /\ IF dialogue \in {"add", "edit", "delete"} THEN Show("manage") ELSE UNCHANGED menu

GoOn(chosen) ==
  /\ dialogue' = dialogue /\ ask' = ask + 1 /\ picked' = chosen
  /\ UNCHANGED <<g_store, menu>>

Accepted(chosen) ==
  IF Last THEN g_store' \in Changed(chosen) /\ EndDialogue ELSE GoOn(chosen)

\* Mutant: an answer that is no good is asked for again.
RejectedAsksAgain == UNCHANGED <<g_store, menu, dialogue, ask, picked>>

Rejected == UNCHANGED g_store /\ EndDialogue

\* fgets(buf, size, stdin), with the end of the line.
Taken(there, size) == IF there < size THEN there ELSE size - 1

Line ==
  /\ dialogue # "none"
  /\ \E n \in LineLength, content \in Content :
       LET there == IF left > 0 THEN left ELSE n + 1
       IN  /\ left > 0 \/ ~eof
           /\ content = "blank" <=> there = 1
           /\ left' = there - Taken(there, Question.size)
           /\ \E chosen \in IF Question.check = "index" THEN 0 .. Len(g_store) ELSE {picked} :
                IF /\ Accepts(Question.check, content)
                   /\ Question.check = "index" => chosen # 0
                THEN Accepted(chosen) ELSE Rejected
  /\ UNCHANGED <<eof, served>>

\* The user ends the input, now or before: a prompt that may keep its field
\* keeps it, a pause is over, and any other prompt ends the command.
NoLine ==
  /\ dialogue # "none" /\ left = 0
  /\ eof' = TRUE
  /\ IF Question.check \in {"keep", "keep_ip"} \/ Question = Pause
     THEN Accepted(picked) ELSE Rejected
  /\ UNCHANGED <<left, served>>

Prompt == Line \/ NoLine

Key ==
  Down \/ Up \/ Back \/ Navigate \/ Quit \/ RunDevice \/ AskCommand \/ EmptyList \/ BulkEdit

Next == Key \/ Prompt

\* The user answers a question that is asked; nothing is assumed of the menu.
Spec == Init /\ [][Next]_vars /\ WF_vars(Prompt)

-----------------------------------------------------------------------------
(* Properties.                                                             *)

\* The device a GET or SEND runs on is the one the selected item shows, after
\* any sequence of additions, edits and deletions: the items are made again
\* whenever the list changed, though they keep only an index into it.
ServesWhatIsShown == served # NoRecord => served.shown = served.served

\* The menu fits its array with "<- Back" in it, and on the screens of GET and
\* SEND it offers the first devices of the list, as many as there is room for,
\* each in its place and as it is now.
MenuHoldsDevices ==
  /\ Len(items) <= MENU_MAX_ITEMS
  /\ screen \in {"get", "send"} =>
       /\ items[Len(items)].action = "back"
       /\ \A i \in 1 .. Len(g_store) :
            i + 3 <= MENU_MAX_ITEMS =>
              /\ i + 2 < Len(items)
              /\ items[i + 2].device_index = i /\ items[i + 2].label = g_store[i]

\* Every command that asks comes back to the menu, whatever is typed, and
\* after the end of the input too.
DialogueEnds == dialogue # "none" ~> dialogue = "none"
=============================================================================
