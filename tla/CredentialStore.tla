--------------------------- MODULE CredentialStore ---------------------------
(***************************************************************************)
(* The device list of src/store/credential_store.c as a value: its records, *)
(* the calls that change it, the YAML text it is written as and what        *)
(* reading that text back yields, and validate_store.  The texts of the     *)
(* fields are the members of a set; all that matters of one is whether it   *)
(* is blank, whether the two address checks accept it, what a YAML parser   *)
(* reads when the text is put between double quotes as it is, and how long  *)
(* it is: the buffer the list is printed into can cut an entry.             *)
(***************************************************************************)
EXTENDS Integers, Sequences, SequencesExt, Selection

CONSTANTS
  Text,        \* contents of the character array of a password
  ShortText,   \* those that fit into the arrays of a name, an ip, a username
  Blank,       \* the empty string
  PromptIp,    \* the texts is_valid_ip accepts (digits and three dots)
  StrictIp,    \* the texts is_valid_ipv4 accepts
  DeviceType,
  Unparsable,  \* a scalar that makes the parser stop
  Quoted,      \* Quoted[t]: what libyaml reads where the text is "t"
  Length,      \* Length[t]: the characters of a text or of a type's name
  InitialCap, Slack, Header,  \* of the export's buffer, see ExportBuffer
  STORE_MAX_DEVICES

ASSUME TextAssumption ==
  /\ Unparsable \notin Text
  /\ ShortText \subseteq Text
  /\ Blank \in ShortText
  /\ StrictIp \subseteq PromptIp
  /\ PromptIp \subseteq ShortText \ {Blank}
ASSUME QuotedAssumption ==
  /\ Quoted \in [Text -> Text \cup {Unparsable}]
  /\ \A t \in ShortText : Quoted[t] \in ShortText \cup {Unparsable}
  /\ \A t \in PromptIp \cup {Blank} : Quoted[t] = t
ASSUME MaxAssumption == STORE_MAX_DEVICES \in Nat \ {0}

DeviceRecord ==
  [name : ShortText, type : DeviceType, ip : ShortText, username : ShortText,
   password : Text]

\* A device as it stands in a YAML text: its scalars, parsed or not.
YamlDevice ==
  [name : ShortText \cup {Unparsable}, type : DeviceType,
   ip : ShortText \cup {Unparsable}, username : ShortText \cup {Unparsable},
   password : Text \cup {Unparsable}]

\* The characters of a printed device in front of the text of its password, and
\* of the whole: five lines, with their indents, keys, quotes and newlines.
UpToPassword(d) ==
  67 + Length[d.name] + Length[d.type] + Length[d.ip] + Length[d.username]
EntryLength(d) == UpToPassword(d) + Length[d.password] + 2

\* Of the program's own sizes: 393 characters at most in front of a password,
\* 650 in all, a slack of 512 and a buffer of 16384.
ASSUME SizesAssumption ==
  /\ Length \in [Text \cup DeviceType -> Nat]
  /\ InitialCap \in Nat /\ Slack \in Nat /\ Header \in Nat
  /\ Header + Slack < InitialCap
  /\ \A d \in DeviceRecord : UpToPassword(d) <= Slack /\ EntryLength(d) <= InitialCap

-----------------------------------------------------------------------------
(* credential_store_add, _update and _delete: when they succeed, and what   *)
(* they make of the list.                                                   *)

CanAdd(store) == Len(store) < STORE_MAX_DEVICES
Added(store, record) == Append(store, record)

Updated(store, index, record) == [store EXCEPT ![index] = record]

\* The tail moves down one place.
Deleted(store, index) ==
  [i \in 1 .. Len(store) - 1 |-> store[IF i < index THEN i ELSE i + 1]]

-----------------------------------------------------------------------------
(* The YAML text.  The export writes every field raw between quotes, into a *)
(* buffer that is doubled when less than the slack is left of it; the       *)
(* import copies the scalars back, skips a device that lacks a required     *)
(* field, and fails on an unparsable text or when no device is left.        *)

\* The buffer's capacity and the length of its text, one device later.
AfterPrinting(buffer, d) ==
  LET used == buffer.used + EntryLength(d)
  IN  [cap |-> IF used >= buffer.cap - Slack THEN 2 * buffer.cap ELSE buffer.cap,
       used |-> used]

\* The same after each device of a list.
Buffer(store) ==
  LET After[i \in 0 .. Len(store)] ==
        IF i = 0 THEN [cap |-> InitialCap, used |-> Header]
        ELSE AfterPrinting(After[i - 1], store[i])
  IN  After

\* Device i does not fit: snprintf leaves off its end and a zero stands there.
IsCut(store, i) ==
  LET before == Buffer(store)[i - 1]
  IN  before.used + EntryLength(store[i]) >= before.cap

Uncut(store) == \A i \in 1 .. Len(store) : ~IsCut(store, i)

\* Only the newline at its end is left off.
LosesNewline(store, i) ==
  LET before == Buffer(store)[i - 1]
  IN  before.used + EntryLength(store[i]) = before.cap

\* The text ends in its first cut device, for the import takes its strlen.
LastPrinted(store) ==
  IF Uncut(store) THEN Len(store)
  ELSE CHOOSE i \in 1 .. Len(store) :
         IsCut(store, i) /\ \A j \in 1 .. i - 1 : ~IsCut(store, j)

\* What stands between quotes; a quote cut off (always that of the password,
\* as the slack holds all in front of it) is a string without an end.
Printed(d, whole) ==
  [d EXCEPT !.name = Quoted[@], !.ip = Quoted[@], !.username = Quoted[@],
            !.password = IF whole THEN Quoted[@] ELSE Unparsable]

ExportYaml(store) ==
  [i \in 1 .. LastPrinted(store) |->
     Printed(store[i], ~IsCut(store, i) \/ LosesNewline(store, i))]

\* A YAML parser reads every text of the list as it is.
PlainTexts(store) ==
  \A i \in 1 .. Len(store) :
    Printed(store[i], TRUE) = store[i]

Parses(d) == Unparsable \notin {d.name, d.ip, d.username, d.password}

HasRequired(d) == Blank \notin {d.name, d.ip, d.username}

\* Mutant: the import requires a password, too.
ImportedWithPassword(yaml) ==
  SelectSeq(yaml, LAMBDA d : HasRequired(d) /\ d.password # Blank)

Imported(yaml) == Selected(yaml, {d \in YamlDevice : HasRequired(d)})

ImportOk(yaml) ==
  /\ \A i \in 1 .. Len(yaml) : Parses(yaml[i])
  /\ Len(Imported(yaml)) \in 1 .. STORE_MAX_DEVICES

-----------------------------------------------------------------------------

ValidateStore(store) ==
  /\ Len(store) <= STORE_MAX_DEVICES
  /\ \A i \in 1 .. Len(store) : HasRequired(store[i]) /\ store[i].ip \in StrictIp
  /\ \A i, j \in 1 .. Len(store) :
       i # j => store[i].name # store[j].name /\ store[i].ip # store[j].ip
=============================================================================
