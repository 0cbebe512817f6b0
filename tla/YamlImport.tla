------------------------------ MODULE YamlImport ------------------------------
(***************************************************************************)
(* credential_store_import_yaml of src/store/credential_store.c, event by   *)
(* event.  libyaml is the environment: it emits the events of any one       *)
(* document that is well formed, or stops with an error at any point, and   *)
(* has no more events once the stream is over.                              *)
(*                                                                          *)
(* The five fields of a device are those that must not be blank (Required)  *)
(* and the others (Optional), of which "type" is translated.  Texts are not *)
(* longer than the arrays they are copied to.                               *)
(***************************************************************************)
EXTENDS Naturals, Sequences, SequencesExt, Selection

CONSTANTS
  Required, Optional,  \* keys whose values are kept as texts
  TypeName,            \* the texts device_type_from_string knows
  ZeroType,            \* what a record filled with zeros has for its type
  OtherText,           \* any other texts of scalars, the empty one among them
  Blank,
  STORE_MAX_DEVICES,
  MaxDepth, MaxNodes   \* bounds: nesting, and nodes of a document

ASSUME KeyAssumption ==
  /\ "type" \notin Required \cup Optional
  /\ Blank \notin Required \cup Optional \cup TypeName
  /\ ZeroType \in TypeName
ASSUME BoundAssumption == STORE_MAX_DEVICES \in Nat /\ MaxDepth \in Nat /\ MaxNodes \in Nat

Field == Required \cup Optional
Key == Field \cup {"type"}
Text == Key \cup TypeName \cup OtherText \cup {Blank, "devices"}

\* "none" is no text but the absence of one, in Collection below.
ASSUME NoneAssumption == "none" \notin Text

DeviceRecord == [Key -> Text]
\* memset(&current_device, 0, ...)
NoDevice == [k \in Key |-> IF k = "type" THEN ZeroType ELSE Blank]

VARIABLES
  open,            \* the collections that are open, outermost first
  nodes,           \* nodes emitted so far
  ended,           \* nothing is left but the end of the stream
  in_devices, in_device, expecting_key, current_key, current_device,
  store, pc, ret,  \* pc is "read" until the function returns
  flat,            \* history: the document has the shape of the template
  written          \* history: its devices so far, read as YAML means them

parser == <<open, nodes, ended>>
flags == <<in_devices, in_device, expecting_key, current_key, current_device>>
vars == <<parser, flags, store, pc, ret, flat, written>>

\* An open collection; in a mapping, whose value comes next, if one does.
Collection == [kind : {"map", "seq"}, of : Text \cup {"complex", "none"}]

TypeOK ==
  /\ open \in Seq(Collection) /\ Len(open) <= MaxDepth
  /\ nodes \in Nat /\ ended \in BOOLEAN
  /\ in_devices \in BOOLEAN /\ in_device \in BOOLEAN
  /\ expecting_key \in BOOLEAN /\ current_key \in Text
  /\ current_device \in DeviceRecord
  /\ store \in Seq(DeviceRecord) /\ Len(store) <= STORE_MAX_DEVICES
  /\ pc \in {"read", "returned"} /\ ret \in {"ok", "error"}
  /\ flat \in BOOLEAN
  /\ written \in Seq(DeviceRecord)

\* A text of nothing but comments is a stream with no document in it.
Init ==
  /\ open = << >> /\ nodes = 0 /\ ended \in BOOLEAN
  /\ in_devices = FALSE /\ in_device = FALSE /\ expecting_key = FALSE
  /\ current_key = Blank /\ current_device = NoDevice
  /\ store = << >> /\ pc = "read" /\ ret = "ok"
  /\ flat = TRUE /\ written = << >>

-----------------------------------------------------------------------------
(* libyaml.                                                                *)

Inner == open[Len(open)]
AwaitsValue == open # << >> /\ Inner.kind = "map" /\ Inner.of # "none"

\* Where a node may come; the one that completes a pair always may.
NodeFits == ~ended /\ (nodes < MaxNodes \/ AwaitsValue)

\* The open collections after a node that is the key or the value of a pair.
Placed(text) ==
  IF open # << >> /\ Inner.kind = "map"
  THEN [open EXCEPT ![Len(open)].of = IF @ = "none" THEN text ELSE "none"]
  ELSE open

\* The template of the editor: a mapping with the one key "devices", whose
\* value is a sequence of mappings with plain keys and values.
OnTemplate(kind, text) ==
  CASE Len(open) = 0 -> kind = "map"
    [] Len(open) = 1 -> IF AwaitsValue THEN kind = "seq"
                        ELSE kind = "scalar" /\ text = "devices"
    [] Len(open) = 2 -> kind = "map"
    [] OTHER         -> kind = "scalar"

\* A device as it is being written is the last of `written'.
WrittenAfter(kind, text) ==
  IF ~OnTemplate(kind, text) THEN << >>
  ELSE CASE Len(open) = 2 -> Append(written, NoDevice)
         [] Len(open) = 3 /\ AwaitsValue /\ Inner.of \in Key ->
              [written EXCEPT ![Len(written)][Inner.of] = text]
         [] OTHER -> written

Node(kind, text) ==
  /\ NodeFits
  /\ nodes' = IF nodes < MaxNodes THEN nodes + 1 ELSE nodes
  /\ flat' = (flat /\ OnTemplate(kind, text))
  /\ written' = IF flat THEN WrittenAfter(kind, text) ELSE << >>

Start(kind) ==
  /\ Node(kind, "complex")
  /\ Len(open) < MaxDepth
  /\ open' = Append(Placed("complex"), [kind |-> kind, of |-> "none"])
  /\ UNCHANGED ended

Leaf(kind, text) ==
  /\ Node(kind, text)
  /\ open' = Placed(text)
  /\ ended' = (open = << >>)

End(kind) ==
  /\ open # << >> /\ Inner.kind = kind /\ ~AwaitsValue
  /\ open' = Front(open)
  /\ ended' = (Len(open) = 1)
  /\ UNCHANGED <<nodes, flat, written>>

-----------------------------------------------------------------------------
(* The cases of the loop.                                                  *)

\* The check at the end: a list of no devices is an error.
Return(result) ==
  /\ pc' = "returned"
  /\ ret' = IF result = "ok" /\ store' = << >> THEN "error" ELSE result

GoOn == UNCHANGED <<pc, ret>>

\* Mutant: the record is not cleared for the next device.
DeviceNotCleared ==
  /\ Start("map")
  /\ in_device' = (in_device \/ in_devices)
  /\ UNCHANGED <<in_devices, expecting_key, current_key, current_device, store>>
  /\ GoOn

MappingStart ==
  /\ Start("map")
  /\ in_device' = (in_device \/ in_devices)
  /\ current_device' = IF in_devices /\ ~in_device THEN NoDevice ELSE current_device
  /\ UNCHANGED <<in_devices, expecting_key, current_key, store>>
  /\ GoOn

HasRequired(d) == \A k \in Required : d[k] # Blank

\* Mutant: one device too many.
RoomForOneMore == Len(store) <= STORE_MAX_DEVICES

Room == Len(store) < STORE_MAX_DEVICES

\* The end of a device, of whatever holds the list, or of something ignored.
MappingEnd ==
  /\ End("map")
  /\ \/ /\ in_device /\ HasRequired(current_device) /\ Room
        /\ store' = Append(store, current_device)
        /\ GoOn
     \/ /\ in_device /\ HasRequired(current_device) /\ ~Room
        /\ UNCHANGED store /\ Return("error")
     \/ /\ in_device /\ ~HasRequired(current_device)
        /\ UNCHANGED store /\ GoOn
     \/ /\ ~in_device /\ in_devices
        /\ UNCHANGED store /\ Return("ok")
     \/ /\ ~in_device /\ ~in_devices
        /\ UNCHANGED store /\ GoOn
  /\ in_device' = FALSE
  /\ UNCHANGED <<in_devices, expecting_key, current_key, current_device>>

SequenceStart ==
  /\ Start("seq")
  /\ in_devices' = TRUE
  /\ UNCHANGED <<in_device, expecting_key, current_key, current_device, store>>
  /\ GoOn

\* Mutant: the loop goes on after the list.
SequenceEndGoesOn ==
  /\ End("seq")
  /\ in_devices' = FALSE
  /\ UNCHANGED <<in_device, expecting_key, current_key, current_device, store>>
  /\ GoOn

SequenceEnd ==
  /\ End("seq")
  /\ in_devices' = FALSE
  /\ UNCHANGED <<in_device, expecting_key, current_key, current_device, store>>
  /\ Return("ok")

\* A scalar outside the list: only "devices" will do.
RootScalar(text) ==
  /\ ~in_devices
  /\ UNCHANGED <<flags, store>>
  /\ IF text = "devices" THEN GoOn ELSE Return("error")

DeviceKey(text) ==
  /\ in_devices /\ in_device /\ ~expecting_key
  /\ current_key' = text
  /\ expecting_key' = TRUE
  /\ UNCHANGED <<in_devices, in_device, current_device, store>>
  /\ GoOn

\* device_type_from_string
KnownType(text) == text \in TypeName

\* A value for the key before it, if it is one of the known ones.
DeviceValue(text) ==
  /\ in_devices /\ in_device /\ expecting_key
  /\ LET known == current_key \in Field \/ (current_key = "type" /\ KnownType(text))
     IN  current_device' =
           IF known THEN [current_device EXCEPT ![current_key] = text] ELSE current_device
  /\ expecting_key' = FALSE
  /\ current_key' = Blank
  /\ UNCHANGED <<in_devices, in_device, store>>
  /\ IF current_key = "type" /\ ~KnownType(text) THEN Return("error") ELSE GoOn

\* Between devices of the list.
StrayScalar ==
  /\ in_devices /\ ~in_device
  /\ UNCHANGED <<flags, store>>
  /\ GoOn

Scalar ==
  \E text \in Text :
    /\ Leaf("scalar", text)
    /\ RootScalar(text) \/ DeviceKey(text) \/ DeviceValue(text) \/ StrayScalar

\* `default: break'.  An alias stands for a node that came before.
Alias ==
  /\ nodes > 0
  /\ Leaf("alias", "complex")
  /\ UNCHANGED <<flags, store>>
  /\ GoOn

ParseError ==
  /\ ~ended
  /\ pc' = "returned" /\ ret' = "error"
  /\ UNCHANGED <<parser, flags, store, written>>
  /\ flat' = FALSE

\* After the end of the stream yaml_parser_parse succeeds with an event of no
\* type, each time it is called.
NoEvent == ended /\ UNCHANGED vars

Turn ==
  /\ pc = "read"
  /\ \/ MappingStart \/ MappingEnd \/ SequenceStart \/ SequenceEnd
     \/ Scalar \/ Alias \/ ParseError \/ NoEvent

Next == Turn

\* The parser has its whole text in memory and the loop waits for nobody.
Spec == Init /\ [][Next]_vars /\ WF_vars(Next)

-----------------------------------------------------------------------------
(* Properties.                                                             *)

\* What CredentialStore takes the import for: Imported and ImportOk.
Kept(devices) == Selected(devices, {d \in DeviceRecord : HasRequired(d)})
KnownTypes(devices) == \A i \in 1 .. Len(devices) : devices[i].type \in TypeName
WrittenOk == KnownTypes(written) /\ Len(Kept(written)) \in 1 .. STORE_MAX_DEVICES

\* Of a document in the shape of the template, keys in any order, repeated,
\* missing or unknown, exactly the devices with the required fields are read,
\* with the values written for them and no other device's; or an error tells of
\* an unknown type, too many devices or none.
ImportsWhatIsWritten ==
  pc = "returned" /\ flat =>
    /\ (ret = "ok") <=> WrittenOk
    /\ ret = "ok" => store = Kept(written)

\* Once the parser has seen a list anywhere in the text, the loop ends, whatever
\* else is nested before, in or after that list.
ListsEnd == in_devices ~> pc = "returned"

-----------------------------------------------------------------------------
(* What the program says of itself, and does not keep.                     *)

\* "No devices found in YAML": a text without devices is answered, too.
TextsAreAnswered == <>(pc = "returned")
=============================================================================
