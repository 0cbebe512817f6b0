----------------------------- MODULE Tui_proofs -----------------------------
(***************************************************************************)
(* Proofs about Tui, for every list of devices, every capacity of the menu  *)
(* from six on and every length of the lines a user types.  The items are   *)
(* always those build_menu makes of the list as it is, and from that follow *)
(* what the menu offers and what a selected item stands for.                *)
(***************************************************************************)
EXTENDS Tui, TLAPS

Screens == {"top", "get", "send", "manage"}

\* The items are made of the list as it is; they stay when the program ends.
MenuIsFresh ==
  \E s \in Screens :
    items = BuildMenu(s, g_store) /\ (screen # "off" => s = screen)

Stores == {s \in Seq(Record) : Len(s) <= STORE_MAX_DEVICES}

MenuOK ==
  /\ g_store \in Stores
  /\ screen \in Screens \cup {"off"}
  /\ items \in Seq(MenuItem) /\ selected \in 1 .. Len(items)
  /\ MenuIsFresh

\* Past its first question, an edit has a device.
AskOK ==
  /\ dialogue \in Dialogues
  /\ ask \in Nat /\ (dialogue # "none" => ask \in 1 .. Len(Questions[dialogue]))
  /\ picked \in 0 .. Len(g_store)
  /\ dialogue = "edit" /\ ask # 1 => picked # 0
  /\ dialogue = "none" => picked = 0

LineOK == left \in Nat /\ eof \in BOOLEAN

ServedOK ==
  served \in [shown : Record, served : Record] \cup {NoRecord} /\ ServesWhatIsShown

IInv == MenuOK /\ AskOK /\ LineOK /\ ServedOK

-----------------------------------------------------------------------------
(* What build_menu makes.                                                  *)

\* The number of devices shown leaves room for three items more.
LEMMA ShownFits ==
  ASSUME NEW n \in Nat
  PROVE  Shown(n) \in Nat /\ Shown(n) <= n /\ Shown(n) + 3 <= MENU_MAX_ITEMS
  BY CapacityAssumption DEF Shown

\* The items of the screens of GET and SEND.
LEMMA DeviceMenuType ==
  ASSUME NEW store \in Stores, NEW all \in Action, NEW run \in Action
  PROVE  /\ DeviceMenu(all, run, store) \in Seq(MenuItem)
         /\ Len(DeviceMenu(all, run, store)) = Shown(Len(store)) + 3
<1>1. Len(store) \in Nat /\ Len(store) <= STORE_MAX_DEVICES
  BY DEF Stores
<1>2. Shown(Len(store)) \in Nat /\ Shown(Len(store)) <= Len(store)
  BY <1>1, ShownFits
<1> DEFINE n == Shown(Len(store)) + 3
<1>3. ASSUME NEW k \in 1 .. n PROVE DeviceMenu(all, run, store)[k] \in MenuItem
  <2>1. CASE k \in {1, 2, n}
    BY <1>2, <2>1, StoreMaxAssumption DEF DeviceMenu, Item, MenuItem, Action
  <2>2. CASE k \notin {1, 2, n}
    <3>1. k - 2 \in 1 .. Len(store) /\ k - 2 \in 0 .. STORE_MAX_DEVICES
      BY <1>1, <1>2, <2>2, StoreMaxAssumption
    <3>2. store[k - 2] \in Record
      BY <3>1 DEF Stores
    <3> QED
      BY <2>2, <3>1, <3>2 DEF DeviceMenu, MenuItem
  <2> QED
    BY <2>1, <2>2
<1>4. n \in Nat
  BY <1>2
<1>5. DeviceMenu(all, run, store) \in [1 .. n -> MenuItem]
  BY <1>3 DEF DeviceMenu
<1> QED
  BY <1>4, <1>5

\* Every screen has items, and they fit the array.
LEMMA BuildMenuType ==
  ASSUME NEW s \in Screens, NEW store \in Stores
  PROVE  /\ BuildMenu(s, store) \in Seq(MenuItem)
         /\ Len(BuildMenu(s, store)) \in 1 .. MENU_MAX_ITEMS
<1>0. Len(store) \in Nat
  BY DEF Stores
<1>1. CASE s = "get"
  <2>1. BuildMenu(s, store) = DeviceMenu("get_all", "run_get", store)
    BY <1>1 DEF BuildMenu
  <2>2. "get_all" \in Action /\ "run_get" \in Action
    BY DEF Action
  <2>3. /\ BuildMenu(s, store) \in Seq(MenuItem)
        /\ Len(BuildMenu(s, store)) = Shown(Len(store)) + 3
    BY <2>1, <2>2, DeviceMenuType
  <2> QED
    BY <1>0, <2>3, ShownFits, CapacityAssumption
<1>2. CASE s = "send"
  <2>1. BuildMenu(s, store) = DeviceMenu("send_all", "run_send", store)
    BY <1>2 DEF BuildMenu
  <2>2. "send_all" \in Action /\ "run_send" \in Action
    BY DEF Action
  <2>3. /\ BuildMenu(s, store) \in Seq(MenuItem)
        /\ Len(BuildMenu(s, store)) = Shown(Len(store)) + 3
    BY <2>1, <2>2, DeviceMenuType
  <2> QED
    BY <1>0, <2>3, ShownFits, CapacityAssumption
<1>3. ASSUME NEW action \in Action PROVE Item(action) \in MenuItem
  BY StoreMaxAssumption DEF Item, MenuItem
<1>4. CASE s = "top"
  <2>1. BuildMenu(s, store) = <<Item("nav_get"), Item("nav_send"), Item("nav_manage")>>
    BY <1>4 DEF BuildMenu
  <2>2. Item("nav_get") \in MenuItem /\ Item("nav_send") \in MenuItem
          /\ Item("nav_manage") \in MenuItem
    BY <1>3 DEF Action
  <2> QED
    BY <2>1, <2>2, CapacityAssumption
<1>5. CASE s = "manage"
  <2>1. BuildMenu(s, store) = <<Item("add"), Item("edit"), Item("delete"),
                                Item("bulk"), Item("history"), Item("back")>>
    BY <1>5 DEF BuildMenu
  <2>2. /\ Item("add") \in MenuItem /\ Item("edit") \in MenuItem
        /\ Item("delete") \in MenuItem /\ Item("bulk") \in MenuItem
        /\ Item("history") \in MenuItem /\ Item("back") \in MenuItem
    BY <1>3 DEF Action
  <2> QED
    BY <2>1, <2>2, CapacityAssumption
<1> QED
  BY <1>1, <1>2, <1>4, <1>5 DEF Screens

\* An item that runs a device shows the device its index names.
LEMMA RunItemShows ==
  ASSUME NEW s \in Screens, NEW store \in Stores,
         NEW k \in 1 .. Len(BuildMenu(s, store)),
         BuildMenu(s, store)[k].action \in {"run_get", "run_send"}
  PROVE  /\ BuildMenu(s, store)[k].label = store[BuildMenu(s, store)[k].device_index]
         /\ BuildMenu(s, store)[k].device_index \in 1 .. Len(store)
<1>1. CASE s \in {"top", "manage"}
  BY <1>1 DEF BuildMenu, Item
<1>2. ASSUME NEW all \in {"get_all", "send_all"}, NEW run \in {"run_get", "run_send"},
             BuildMenu(s, store) = DeviceMenu(all, run, store)
      PROVE  /\ BuildMenu(s, store)[k].label = store[BuildMenu(s, store)[k].device_index]
             /\ BuildMenu(s, store)[k].device_index \in 1 .. Len(store)
  <2>1. Len(store) \in Nat
    BY DEF Stores
  <2>2. Shown(Len(store)) \in Nat /\ Shown(Len(store)) <= Len(store)
    BY <2>1, ShownFits
  <2>. all \in Action /\ run \in Action
    BY DEF Action
  <2>3. k \in 1 .. Shown(Len(store)) + 3
    BY <1>2, DeviceMenuType
  <2>4. k \notin {1, 2, Shown(Len(store)) + 3}
    BY <1>2, <2>3 DEF DeviceMenu, Item
  <2>5. DeviceMenu(all, run, store)[k]
          = [action |-> run, device_index |-> k - 2, label |-> store[k - 2]]
    BY <2>3, <2>4 DEF DeviceMenu
  <2>6. k - 2 \in 1 .. Len(store)
    BY <2>1, <2>2, <2>3, <2>4
  <2> QED
    BY <1>2, <2>5, <2>6
<1> QED
  BY <1>1, <1>2 DEF Screens, BuildMenu

-----------------------------------------------------------------------------
(* The inductive invariant.                                                *)

\* The initial state satisfies the inductive invariant.
LEMMA InitIInv == Init => IInv
<1> SUFFICES ASSUME Init PROVE IInv
  OBVIOUS
<1>1. g_store \in Stores
  BY StoreMaxAssumption DEF Init, Stores
<1>2. items \in Seq(MenuItem) /\ Len(items) \in 1 .. MENU_MAX_ITEMS
  BY <1>1, BuildMenuType DEF Init, Screens
<1>3. MenuOK
  BY <1>1, <1>2 DEF Init, MenuOK, MenuIsFresh, Screens
<1>4. AskOK
  BY <1>1 DEF Init, AskOK, Stores, Dialogues
<1>5. LineOK /\ ServedOK
  BY DEF Init, LineOK, ServedOK, ServesWhatIsShown
<1> QED
  BY <1>3, <1>4, <1>5 DEF IInv

\* Showing a screen keeps what the invariant says of the menu.
LEMMA ShowKeeps ==
  ASSUME NEW s \in Screens, g_store' \in Stores, Show(s)
  PROVE  MenuOK'
<1>1. items' \in Seq(MenuItem) /\ Len(items') \in 1 .. MENU_MAX_ITEMS
  BY BuildMenuType DEF Show
<1> QED
  BY <1>1 DEF Show, MenuOK, MenuIsFresh

\* What a command makes of the list, if it makes anything of it, is a list.
LEMMA ChangedType ==
  ASSUME g_store \in Stores, NEW chosen \in 0 .. Len(g_store),
         dialogue \in {"edit", "delete"} => chosen # 0,
         NEW store \in Changed(chosen)
  PROVE  /\ store \in Stores
         /\ dialogue \notin {"add", "edit", "delete"} => store = g_store
<1>1. Len(g_store) \in Nat
  BY DEF Stores
<1>2. CASE dialogue = "add" /\ Len(g_store) < STORE_MAX_DEVICES
  <2>1. PICK r \in Record : store = Append(g_store, r)
    BY <1>2 DEF Changed
  <2> QED
    BY <1>1, <1>2, <2>1, StoreMaxAssumption DEF Stores
<1>3. CASE dialogue = "edit"
  <2>1. PICK r \in Record : store = [g_store EXCEPT ![chosen] = r]
    BY <1>3 DEF Changed
  <2> QED
    BY <1>1, <1>3, <2>1 DEF Stores
<1>4. CASE dialogue = "delete"
  <2>1. store = [i \in 1 .. Len(g_store) - 1 |->
                   g_store[IF i < chosen THEN i ELSE i + 1]]
    BY <1>4 DEF Changed
  <2>2. chosen \in 1 .. Len(g_store) /\ Len(g_store) - 1 \in Nat
    BY <1>1, <1>4
  <2>3. ASSUME NEW i \in 1 .. Len(g_store) - 1
        PROVE  g_store[IF i < chosen THEN i ELSE i + 1] \in Record
    BY <1>1, <2>2 DEF Stores
  <2>4. store \in [1 .. Len(g_store) - 1 -> Record]
    BY <2>1, <2>3
  <2>5. store \in Seq(Record) /\ Len(store) = Len(g_store) - 1
    BY <2>2, <2>4
  <2> QED
    BY <1>1, <1>4, <2>5, StoreMaxAssumption DEF Stores
<1>5. CASE /\ ~(dialogue = "add" /\ Len(g_store) < STORE_MAX_DEVICES)
           /\ dialogue \notin {"edit", "delete"}
  BY <1>5 DEF Changed
<1> QED
  BY <1>2, <1>3, <1>4, <1>5

\* How many questions a command has, and what is asked last.
LEMMA QuestionsType ==
  ASSUME NEW d \in DOMAIN Questions
  PROVE  /\ Len(Questions[d]) \in Nat \ {0}
         /\ DOMAIN Questions[d] = 1 .. Len(Questions[d])
         /\ \A k \in 1 .. Len(Questions[d]) : Questions[d][k].size \in Nat \ {0}
         /\ d = "delete" => Len(Questions[d]) = 1 /\ Questions[d][1].check = "index"
         /\ d = "edit" =>
              Len(Questions[d]) = 5 /\ \A k \in 1 .. 5 :
                Questions[d][k].check = "index" <=> k = 1
<1>1. d \in {"add", "edit", "delete", "history", "all"}
  BY DEF Questions
<1>2. CASE d = "add"
  BY <1>2 DEF Questions, Ask
<1>3. CASE d = "edit"
  BY <1>3 DEF Questions, Ask, Index
<1>4. CASE d = "delete"
  BY <1>4 DEF Questions, Ask, Index
<1>5. CASE d = "history"
  BY <1>5 DEF Questions, Ask, Index, Pause
<1>6. CASE d = "all"
  BY <1>6 DEF Questions, Ask, Pause
<1> QED
  BY <1>1, <1>2, <1>3, <1>4, <1>5, <1>6

\* The end of a command, with a list that only add, edit and delete changed.
LEMMA EndKeeps ==
  ASSUME IInv, g_store' \in Stores, EndDialogue,
         dialogue \notin {"add", "edit", "delete"} => g_store' = g_store
  PROVE  MenuOK' /\ AskOK'
<1>1. MenuOK'
  <2>1. CASE dialogue \in {"add", "edit", "delete"}
    BY <2>1, ShowKeeps DEF EndDialogue, Screens
  <2>2. CASE dialogue \notin {"add", "edit", "delete"}
    BY <2>2 DEF EndDialogue, IInv, MenuOK, MenuIsFresh, menu
  <2> QED
    BY <2>1, <2>2
<1>2. AskOK'
  BY DEF EndDialogue, AskOK, Stores, Dialogues
<1> QED
  BY <1>1, <1>2

\* An accepted answer leads to the next question or to the end.
LEMMA AcceptedKeeps ==
  ASSUME IInv, dialogue # "none", NEW chosen \in 0 .. Len(g_store),
         dialogue \in {"edit", "delete"} => chosen # 0,
         Accepted(chosen)
  PROVE  MenuOK' /\ AskOK'
<1>1. dialogue \in DOMAIN Questions /\ g_store \in Stores
  BY DEF IInv, AskOK, MenuOK, Dialogues
<1>2. CASE Last
  BY <1>1, <1>2, ChangedType, EndKeeps DEF Accepted
<1>3. CASE ~Last
  <2>1. GoOn(chosen)
    BY <1>3 DEF Accepted
  <2>2. MenuOK'
    BY <2>1 DEF GoOn, IInv, MenuOK, MenuIsFresh, menu
  <2>3. AskOK'
    BY <1>1, <1>3, <2>1, QuestionsType DEF GoOn, IInv, AskOK, Last
  <2> QED
    BY <2>2, <2>3
<1> QED
  BY <1>2, <1>3

\* An answer that is no good ends the command.
LEMMA RejectedKeeps ==
  ASSUME IInv, Rejected PROVE MenuOK' /\ AskOK'
  BY EndKeeps DEF Rejected, IInv, MenuOK

\* A line, or the end of the input, at a prompt.
LEMMA PromptKeeps ==
  ASSUME IInv, Prompt PROVE IInv'
<1>1. dialogue # "none"
  BY DEF Prompt, Line, NoLine
<1>2. dialogue \in DOMAIN Questions /\ ask \in 1 .. Len(Questions[dialogue])
  BY <1>1 DEF IInv, AskOK, Dialogues
<1>3. Question.size \in Nat \ {0}
  BY <1>2, QuestionsType DEF Question
<1>4. /\ dialogue = "delete" => Question.check = "index"
      /\ dialogue = "edit" /\ Question.check # "index" => picked # 0
  BY <1>2, QuestionsType DEF Question, IInv, AskOK
<1>5. picked \in 0 .. Len(g_store)
  BY DEF IInv, AskOK
<1>6. ServedOK'
  BY DEF Prompt, Line, NoLine, IInv, ServedOK, ServesWhatIsShown
<1>7. CASE Line
  <2>1. PICK n \in LineLength, content \in Content :
          LET there == IF left > 0 THEN left ELSE n + 1
          IN  /\ left' = there - Taken(there, Question.size)
              /\ \E chosen \in IF Question.check = "index"
                               THEN 0 .. Len(g_store) ELSE {picked} :
                   IF /\ Accepts(Question.check, content)
                      /\ Question.check = "index" => chosen # 0
                   THEN Accepted(chosen) ELSE Rejected
    BY <1>7 DEF Line
  <2>2. n \in Nat
    BY LengthAssumption
  <2>3. left' \in Nat
    BY <1>3, <2>1, <2>2 DEF Taken, IInv, LineOK
  <2>4. eof' \in BOOLEAN
    BY <1>7 DEF Line, IInv, LineOK
  <2>5. MenuOK' /\ AskOK'
    <3>1. PICK chosen \in IF Question.check = "index"
                          THEN 0 .. Len(g_store) ELSE {picked} :
            IF /\ Accepts(Question.check, content)
               /\ Question.check = "index" => chosen # 0
            THEN Accepted(chosen) ELSE Rejected
      BY <2>1
    <3>2. chosen \in 0 .. Len(g_store)
      BY <1>5, <3>1
    <3>3. CASE Accepted(chosen) /\ (Question.check = "index" => chosen # 0)
      <4>1. dialogue \in {"edit", "delete"} => chosen # 0
        BY <1>4, <3>1, <3>3
      <4> QED
        BY <1>1, <3>2, <3>3, <4>1, AcceptedKeeps
    <3> QED
      BY <3>1, <3>3, RejectedKeeps
  <2> QED
    BY <1>6, <2>3, <2>4, <2>5 DEF IInv, LineOK
<1>8. CASE NoLine
  <2>1. LineOK'
    BY <1>8 DEF NoLine, IInv, LineOK
  <2>2. CASE Accepted(picked) /\ (Question.check \in {"keep", "keep_ip"} \/ Question = Pause)
    <3>1. Question.check # "index"
      BY <2>2 DEF Pause, Ask
    <3> QED
      BY <1>1, <1>4, <1>5, <1>6, <2>1, <2>2, <3>1, AcceptedKeeps DEF IInv
  <2>3. CASE Rejected
    BY <1>6, <2>1, <2>3, RejectedKeeps DEF IInv
  <2> QED
    BY <1>8, <2>2, <2>3 DEF NoLine
<1> QED
  BY <1>7, <1>8 DEF Prompt

\* Every step preserves the inductive invariant.
LEMMA NextIInv == IInv /\ [Next]_vars => IInv'
<1> SUFFICES ASSUME IInv, [Next]_vars PROVE IInv'
  OBVIOUS
<1> USE DEF IInv
<1>1. ASSUME UNCHANGED <<g_store, prompts, served>>
      PROVE  LineOK' /\ ServedOK' /\ AskOK' /\ (MenuOK' => IInv')
  BY <1>1 DEF prompts, LineOK, ServedOK, AskOK, ServesWhatIsShown
<1>2. ASSUME UNCHANGED g_store, NEW s \in Screens, Show(s) PROVE MenuOK'
  BY <1>2, ShowKeeps DEF MenuOK
<1>3. ASSUME UNCHANGED <<g_store, screen, items>>, selected' \in 1 .. Len(items)
      PROVE  MenuOK'
  BY <1>3 DEF MenuOK, MenuIsFresh
<1>4. CASE Down \/ Up
  <2>1. selected' \in 1 .. Len(items)
    BY <1>4 DEF Down, Up, MenuOK
  <2> QED
    BY <1>1, <1>3, <1>4, <2>1 DEF Down, Up
<1>5. CASE Back
  BY <1>1, <1>2, <1>5 DEF Back, Screens
<1>6. CASE Navigate
  BY <1>1, <1>2, <1>6 DEF Navigate, Screens
<1>7. CASE Quit
  BY <1>1, <1>7 DEF Quit, MenuOK, MenuIsFresh
<1>8. CASE RunDevice
  <2>1. PICK s \in Screens : items = BuildMenu(s, g_store)
    BY DEF MenuOK, MenuIsFresh
  <2>2. /\ Chosen.label = g_store[Chosen.device_index]
        /\ Chosen.device_index \in 1 .. Len(g_store)
    BY <1>8, <2>1, RunItemShows DEF RunDevice, Enter, Chosen, MenuOK
  <2>3. g_store[Chosen.device_index] \in Record
    BY <2>2 DEF MenuOK, Stores
  <2>4. ServedOK'
    BY <1>8, <2>2, <2>3 DEF RunDevice, ServedOK, ServesWhatIsShown
  <2> QED
    BY <1>8, <2>4 DEF RunDevice, menu, prompts, MenuOK, MenuIsFresh, AskOK, LineOK
<1>9. CASE AskCommand
  <2>1. PICK d \in DOMAIN Questions : Begin(d)
    BY <1>9 DEF AskCommand, Questions
  <2>2. MenuOK' /\ LineOK' /\ ServedOK'
    BY <2>1 DEF Begin, menu, MenuOK, MenuIsFresh, LineOK, ServedOK,
       ServesWhatIsShown
  <2>3. AskOK'
    BY <2>1, QuestionsType DEF Begin, AskOK, Dialogues, MenuOK, Stores
  <2> QED
    BY <2>2, <2>3
<1>10. CASE EmptyList
  <2>1. CASE UNCHANGED menu
    BY <1>1, <1>3, <1>10, <2>1 DEF EmptyList, menu, MenuOK
  <2>2. CASE Show("manage")
    BY <1>1, <1>2, <1>10, <2>2 DEF EmptyList, Screens
  <2> QED
    BY <1>10, <2>1, <2>2 DEF EmptyList
<1>11. CASE BulkEdit
  <2>1. g_store' \in Stores
    BY <1>11, StoreMaxAssumption DEF BulkEdit, MenuOK, Stores
  <2>2. MenuOK'
    BY <1>11, <2>1, ShowKeeps DEF BulkEdit, Screens
  <2>3. LineOK' /\ ServedOK'
    BY <1>11 DEF BulkEdit, prompts, LineOK, ServedOK,
       ServesWhatIsShown
  <2>4. dialogue = "none" /\ dialogue' = "none" /\ ask' = ask /\ picked' = picked
    BY <1>11 DEF BulkEdit, Enter, AtMenu, prompts
  <2>5. picked' \in 0 .. Len(g_store')
    BY <2>1, <2>4 DEF AskOK, Stores
  <2> QED
    BY <2>2, <2>3, <2>4, <2>5 DEF AskOK
<1>12. CASE Prompt
  BY <1>12, PromptKeeps
<1>13. CASE UNCHANGED vars
  BY <1>1, <1>3, <1>13 DEF vars, menu, MenuOK
<1> QED
  BY <1>4, <1>5, <1>6, <1>7, <1>8, <1>9, <1>10, <1>11, <1>12, <1>13 DEF Next, Key

\* IInv is an invariant of every behaviour.
LEMMA InductiveInvariant == Spec => []IInv
  BY InitIInv, NextIInv, PTL DEF Spec

\* Type correctness: no key and no answer moves the selection out of the items
\* or the chosen device out of the list.
THEOREM TypeCorrect == Spec => []TypeOK
<1>1. IInv => TypeOK
  <2> SUFFICES ASSUME IInv PROVE TypeOK
    OBVIOUS
  <2>1. dialogue # "none" => ask \in DOMAIN Questions[dialogue]
    BY QuestionsType DEF IInv, AskOK, Dialogues
  <2>2. eof \in BOOLEAN
    BY Zenon DEF IInv, LineOK
  <2> QED
    BY <2>1, <2>2 DEF IInv, TypeOK, MenuOK, AskOK, LineOK, ServedOK, Screens, Stores
<1> QED
  BY <1>1, InductiveInvariant, PTL

\* A GET or SEND runs on the device that its item shows.
THEOREM ServesWhatIsShownHolds == Spec => []ServesWhatIsShown
<1>1. IInv => ServesWhatIsShown
  BY DEF IInv, ServedOK
<1> QED
  BY <1>1, InductiveInvariant, PTL

\* The menu fits its array and offers as many devices as there is room for,
\* each in its place.
THEOREM MenuHoldsDevicesHolds == Spec => []MenuHoldsDevices
<1>1. IInv => MenuHoldsDevices
  <2> SUFFICES ASSUME IInv PROVE MenuHoldsDevices
    OBVIOUS
  <2>1. g_store \in Stores /\ Len(g_store) \in Nat
    BY DEF IInv, MenuOK, Stores
  <2>2. Len(items) <= MENU_MAX_ITEMS
    BY <2>1, BuildMenuType, CapacityAssumption DEF IInv, MenuOK, MenuIsFresh
  <2>3. ASSUME NEW all \in Action, NEW run \in Action,
               items = DeviceMenu(all, run, g_store)
        PROVE  /\ items[Len(items)].action = "back"
               /\ \A i \in 1 .. Len(g_store) :
                    i + 3 <= MENU_MAX_ITEMS =>
                      /\ i + 2 < Len(items)
                      /\ items[i + 2].device_index = i
                      /\ items[i + 2].label = g_store[i]
    <3>1. Len(items) = Shown(Len(g_store)) + 3 /\ Shown(Len(g_store)) \in Nat
      BY <2>1, <2>3, DeviceMenuType, ShownFits
    <3>2. items[Len(items)].action = "back"
      BY <2>3, <3>1 DEF DeviceMenu, Item
    <3>3. ASSUME NEW i \in 1 .. Len(g_store), i + 3 <= MENU_MAX_ITEMS
          PROVE  /\ i + 2 < Len(items)
                 /\ items[i + 2].device_index = i
                 /\ items[i + 2].label = g_store[i]
      <4>1. i <= Shown(Len(g_store))
        BY <2>1, <3>3, CapacityAssumption DEF Shown
      <4>2. i + 2 \in 3 .. Shown(Len(g_store)) + 2
        BY <2>1, <3>1, <4>1
      <4>3. items[i + 2] = [action |-> run, device_index |-> i + 2 - 2,
                            label |-> g_store[i + 2 - 2]]
        BY <2>3, <3>1, <4>2 DEF DeviceMenu
      <4>4. i + 2 - 2 = i
        BY <2>1
      <4> QED
        BY <2>1, <3>1, <4>1, <4>3, <4>4
    <3> QED
      BY <3>2, <3>3
  <2>4. "get_all" \in Action /\ "run_get" \in Action
          /\ "send_all" \in Action /\ "run_send" \in Action
    BY DEF Action
  <2>5. screen = "get" => items = DeviceMenu("get_all", "run_get", g_store)
    BY DEF IInv, MenuOK, MenuIsFresh, BuildMenu
  <2>6. screen = "send" => items = DeviceMenu("send_all", "run_send", g_store)
    BY DEF IInv, MenuOK, MenuIsFresh, BuildMenu
  <2> QED
    BY <2>2, <2>3, <2>4, <2>5, <2>6 DEF MenuHoldsDevices
<1> QED
  BY <1>1, InductiveInvariant, PTL
=============================================================================
