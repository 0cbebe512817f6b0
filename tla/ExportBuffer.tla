----------------------------- MODULE ExportBuffer -----------------------------
(***************************************************************************)
(* The buffer of credential_store_export_yaml.  Each device is printed with *)
(* snprintf into what is left, `used' advances by the length the text would *)
(* have had, and the buffer is doubled when fewer than Slack bytes are left *)
(* after the entry, so an entry longer than that can be cut.                *)
(***************************************************************************)
EXTENDS Naturals

CONSTANTS
  InitialCap,   \* 16384
  Slack,        \* 512
  Header,       \* the length of "devices:\n"
  EntryLength,  \* the lengths a printed device can have
  MaxDevices    \* STORE_MAX_DEVICES

ASSUME SizesAssumption ==
  /\ InitialCap \in Nat /\ Slack \in Nat /\ Header \in Nat /\ MaxDevices \in Nat
  /\ EntryLength \subseteq Nat
  /\ Header + Slack < InitialCap

VARIABLES
  cap, used,  \* the variables of the function
  i,          \* devices printed
  cut,        \* the lengths of the entries that snprintf had to cut
  result      \* "none" while it runs, then what it returns

vars == <<cap, used, i, cut, result>>

TypeOK ==
  /\ cap \in Nat /\ used \in Nat /\ i \in 0 .. MaxDevices
  /\ cut \subseteq EntryLength
  /\ result \in {"none", "ok", "failed"}

Init ==
  /\ cap = InitialCap
  /\ used = Header
  /\ i = 0
  /\ cut = {}
  /\ result = "none"

\* Mutant: one device too many.
PrintOneMore(length) ==
  /\ result = "none" /\ i <= MaxDevices
  /\ i' = i + 1 /\ used' = used + length /\ UNCHANGED cut

\* snprintf(buf + used, cap - used, ...) needs a byte for the final zero.
PrintDevice(length) ==
  /\ result = "none"
  /\ i < MaxDevices
  /\ i' = i + 1
  /\ used' = used + length
  /\ cut' = IF used + length < cap THEN cut ELSE cut \cup {length}

\* Mutants: the buffer only grows when it is full; when more than full.
GrowsWhenFull == used' >= cap
GrowsLate == used' > cap

Grows == used' >= cap - Slack

\* One turn of the loop; realloc may find no memory.
Turn ==
  /\ \E length \in EntryLength : PrintDevice(length)
  /\ \/ ~Grows /\ UNCHANGED <<cap, result>>
     \/ Grows /\ cap' = 2 * cap /\ UNCHANGED result
     \/ Grows /\ result' = "failed" /\ UNCHANGED cap

\* The list has no more devices.
Finish == result = "none" /\ result' = "ok" /\ UNCHANGED <<cap, used, i, cut>>

Next == Turn \/ Finish

Spec == Init /\ [][Next]_vars

-----------------------------------------------------------------------------

\* cap - used, the size_t given to snprintf, never wraps around zero, whatever
\* the lengths of up to MaxDevices entries and wherever the doublings fall; so
\* nothing is written outside the buffer.
SizeNeverWraps == result = "none" => used < cap

\* An entry that fits into the slack is never cut, wherever in the buffer and
\* after whatever other entries it comes.
OnlyLongAreCut == \A length \in cut : length > Slack

\* "Device added": no entry is cut, so the text that is saved is the one that
\* was printed.  What the program says of itself, and does not keep.
NothingCut == cut = {}
=============================================================================
