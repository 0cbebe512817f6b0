-------------------------- MODULE YamlImport_proofs --------------------------
(***************************************************************************)
(* Proofs about YamlImport, for documents of any size and depth, any keys   *)
(* and a list of any length.                                                *)
(***************************************************************************)
EXTENDS YamlImport, Selection_proofs, TLAPS

ParserOK ==
  /\ open \in Seq(Collection) /\ Len(open) <= MaxDepth
  /\ nodes \in Nat /\ ended \in BOOLEAN /\ flat \in BOOLEAN
  /\ written \in Seq(DeviceRecord)

FlagsOK ==
  /\ in_devices \in BOOLEAN /\ in_device \in BOOLEAN
  /\ expecting_key \in BOOLEAN /\ current_key \in Text
  /\ current_device \in DeviceRecord

ResultOK ==
  /\ store \in Seq(DeviceRecord) /\ Len(store) <= STORE_MAX_DEVICES
  /\ pc \in {"read", "returned"} /\ ret \in {"ok", "error"}

Types == ParserOK /\ FlagsOK /\ ResultOK

-----------------------------------------------------------------------------

\* A record filled with zeros is a device.
LEMMA NoDeviceType == NoDevice \in DeviceRecord
  BY KeyAssumption DEF NoDevice, DeviceRecord, Text, Key

\* A value put into a device leaves a device.
LEMMA FieldType ==
  ASSUME NEW d \in DeviceRecord, NEW k, NEW text \in Text
  PROVE  [d EXCEPT ![k] = text] \in DeviceRecord
  BY DEF DeviceRecord

\* Where a node is placed, the collections keep their shape.
LEMMA PlacedType ==
  ASSUME ParserOK, NEW text \in Text \cup {"complex"}
  PROVE  Placed(text) \in Seq(Collection) /\ Len(Placed(text)) = Len(open)
<1>1. CASE open # << >> /\ Inner.kind = "map"
  <2>1. Len(open) \in 1 .. Len(open) /\ Inner \in Collection /\ Len(open) \in Nat
    <3>1. open \in Seq(Collection) /\ Len(open) \in Nat \ {0}
      BY <1>1, EmptySeq DEF ParserOK
    <3> QED
      BY <3>1 DEF Inner
  <2>2. \A t \in Text \cup {"complex", "none"} : [Inner EXCEPT !.of = t] \in Collection
    BY <2>1 DEF Collection
  <2> DEFINE t == IF Inner.of = "none" THEN text ELSE "none"
  <2>3. Placed(text) = [open EXCEPT ![Len(open)] = [Inner EXCEPT !.of = t]]
    BY <1>1, <2>1 DEF Placed, Inner, ParserOK
  <2>4. [Inner EXCEPT !.of = t] \in Collection
    BY <2>2
  <2> QED
    BY <2>1, <2>3, <2>4 DEF ParserOK
<1>2. CASE ~(open # << >> /\ Inner.kind = "map")
  BY <1>2 DEF Placed, ParserOK
<1> QED
  BY <1>1, <1>2

\* What the document says so far is a list of devices.
LEMMA WrittenType ==
  ASSUME ParserOK, NEW kind, NEW text, kind = "scalar" => text \in Text
  PROVE  WrittenAfter(kind, text) \in Seq(DeviceRecord)
<1>1. written \in Seq(DeviceRecord)
  BY DEF ParserOK
<1>2. CASE ~OnTemplate(kind, text)
  BY <1>2 DEF WrittenAfter
<1>3. CASE OnTemplate(kind, text) /\ Len(open) = 2
  BY <1>1, <1>3, NoDeviceType DEF WrittenAfter
<1>4. CASE OnTemplate(kind, text) /\ Len(open) = 3 /\ AwaitsValue /\ Inner.of \in Key
  <2>1. kind = "scalar" /\ text \in Text
    BY <1>4 DEF OnTemplate
  <2>2. WrittenAfter(kind, text) = [written EXCEPT ![Len(written)][Inner.of] = text]
    BY <1>4 DEF WrittenAfter
  <2>3. CASE written = << >>
    <3>1. written \in [1 .. 0 -> DeviceRecord] /\ Len(written) \notin 1 .. 0
      BY <2>3
    <3>2. WrittenAfter(kind, text) \in [1 .. 0 -> DeviceRecord]
      BY <2>2, <3>1
    <3> QED
      BY <3>2
  <2>4. CASE written # << >>
    <3>1. Len(written) \in 1 .. Len(written) /\ written[Len(written)] \in DeviceRecord
      BY <1>1, <2>4, EmptySeq
    <3>2. [written[Len(written)] EXCEPT ![Inner.of] = text] \in DeviceRecord
      BY <2>1, <3>1, FieldType
    <3> QED
      BY <1>1, <2>2, <3>1, <3>2
  <2> QED
    BY <2>3, <2>4
<1>5. CASE OnTemplate(kind, text) /\ Len(open) # 2 /\ ~(Len(open) = 3 /\ AwaitsValue /\ Inner.of \in Key)
  BY <1>1, <1>5 DEF WrittenAfter
<1> QED
  BY <1>2, <1>3, <1>4, <1>5

\* A collection that opens keeps the types of the parser.
LEMMA StartKeeps ==
  ASSUME ParserOK, NEW kind \in {"map", "seq"}, Start(kind)
  PROVE  ParserOK'
<1>1. Placed("complex") \in Seq(Collection) /\ Len(Placed("complex")) = Len(open)
  BY PlacedType
<1>2. [kind |-> kind, of |-> "none"] \in Collection
  BY DEF Collection
<1>3. open' \in Seq(Collection) /\ Len(open') <= MaxDepth
  BY <1>1, <1>2, BoundAssumption DEF Start, ParserOK
<1>4. WrittenAfter(kind, "complex") \in Seq(DeviceRecord)
  BY WrittenType
<1> QED
  BY <1>3, <1>4 DEF Start, Node, ParserOK

\* So does a scalar or an alias.
LEMMA LeafKeeps ==
  ASSUME ParserOK, NEW kind, NEW text \in Text \cup {"complex"},
         kind = "scalar" => text \in Text, Leaf(kind, text)
  PROVE  ParserOK'
<1>1. Placed(text) \in Seq(Collection) /\ Len(Placed(text)) = Len(open)
  BY PlacedType
<1>2. WrittenAfter(kind, text) \in Seq(DeviceRecord)
  BY WrittenType
<1> QED
  BY <1>1, <1>2 DEF Leaf, Node, ParserOK

\* All but the last of a sequence.
LEMMA FrontFacts ==
  ASSUME NEW A, NEW s \in Seq(A), s # << >>
  PROVE  /\ Front(s) \in Seq(A) /\ Len(Front(s)) = Len(s) - 1
         /\ \A i \in 1 .. Len(s) - 1 : Front(s)[i] = s[i]
<1>1. PICK n \in Nat : Len(s) = n + 1
  <2>1. Len(s) \in Nat \ {0}
    BY EmptySeq
  <2> QED
    BY <2>1
<1>2. Front(s) = SubSeq(s, 1, n)
  BY <1>1 DEF Front
<1>3. \A i \in 1 .. n : s[i] \in A
  BY <1>1
<1>4. CASE n = 0
  BY <1>1, <1>2, <1>4, SubSeqEmpty
<1>5. CASE n # 0
  <2>1. /\ SubSeq(s, 1, n) \in Seq(A) /\ Len(SubSeq(s, 1, n)) = n
        /\ \A i \in 1 .. n : SubSeq(s, 1, n)[i] = s[i]
    BY <1>3, <1>5, SubSeqProperties
  <2> QED
    BY <1>1, <1>2, <2>1
<1> QED
  BY <1>4, <1>5

\* The end of a collection takes away the innermost one.
LEMMA EndKeeps ==
  ASSUME ParserOK, NEW kind, End(kind)
  PROVE  ParserOK'
<1>1. Len(open) \in Nat \ {0}
  BY EmptySeq DEF ParserOK, End
<1>2. open' \in Seq(Collection) /\ Len(open') = Len(open) - 1
  BY FrontFacts DEF ParserOK, End
<1> QED
  BY <1>1, <1>2, BoundAssumption DEF ParserOK, End

\* A device is only appended where there is room for it.
LEMMA MappingEndKeeps ==
  ASSUME ParserOK, FlagsOK, ResultOK, MappingEnd
  PROVE  ParserOK' /\ FlagsOK' /\ ResultOK'
<1>1. ParserOK'
  BY EndKeeps DEF MappingEnd
<1>2. FlagsOK'
  BY DEF FlagsOK, MappingEnd
<1>3. /\ store' \in Seq(DeviceRecord)
      /\ Len(store') <= STORE_MAX_DEVICES
  <2>1. CASE store' = store
    BY <2>1 DEF ResultOK
  <2>2. CASE Room /\ store' = Append(store, current_device)
    BY <2>2, BoundAssumption DEF ResultOK, FlagsOK, Room
  <2> QED
    BY <2>1, <2>2 DEF MappingEnd
<1>4. pc' \in {"read", "returned"} /\ ret' \in {"ok", "error"}
  BY DEF ResultOK, MappingEnd, GoOn, Return
<1> QED
  BY <1>1, <1>2, <1>3, <1>4 DEF ResultOK

\* A scalar is a key, a value, or nothing.
LEMMA ScalarKeeps ==
  ASSUME ParserOK, FlagsOK, ResultOK, Scalar
  PROVE  ParserOK' /\ FlagsOK' /\ ResultOK'
<1>1. PICK text \in Text :
        /\ Leaf("scalar", text)
        /\ RootScalar(text) \/ DeviceKey(text) \/ DeviceValue(text) \/ StrayScalar
  BY DEF Scalar
<1>2. ParserOK'
  BY <1>1, LeafKeeps
<1>3. Blank \in Text
  BY DEF Text
<1>4. FlagsOK'
  <2>1. CASE DeviceValue(text)
    <3>1. current_device' \in DeviceRecord
      BY <2>1, FieldType DEF DeviceValue, FlagsOK
    <3> QED
      BY <1>3, <2>1, <3>1 DEF DeviceValue, FlagsOK
  <2>2. CASE ~DeviceValue(text)
    BY <1>1, <2>2 DEF FlagsOK, RootScalar, DeviceKey, StrayScalar, flags
  <2> QED
    BY <2>1, <2>2
<1>5. store' = store /\ pc' \in {"read", "returned"} /\ ret' \in {"ok", "error"}
  BY <1>1 DEF ResultOK, RootScalar, DeviceKey, DeviceValue, StrayScalar, GoOn, Return
<1> QED
  BY <1>2, <1>4, <1>5 DEF ResultOK

\* The types are kept by every step.
LEMMA TypesHold == Spec => []Types
<1> USE DEF Types
<1>1. Init => Types
  <2> SUFFICES ASSUME Init PROVE Types
    OBVIOUS
  <2>1. NoDevice \in DeviceRecord /\ Blank \in Text
    BY NoDeviceType DEF Text
  <2>2. ParserOK
    BY BoundAssumption DEF Init, ParserOK
  <2>3. FlagsOK
    BY <2>1 DEF Init, FlagsOK
  <2>4. ResultOK
    BY BoundAssumption DEF Init, ResultOK
  <2> QED
    BY <2>2, <2>3, <2>4
<1>2. Types /\ [Next]_vars => Types'
  <2> SUFFICES ASSUME Types, [Next]_vars PROVE Types'
    OBVIOUS
  <2>1. CASE MappingStart
    <3>1. ParserOK'
      BY <2>1, StartKeeps DEF MappingStart
    <3> QED
      BY <2>1, <3>1, NoDeviceType DEF MappingStart, GoOn, FlagsOK, ResultOK
  <2>2. CASE MappingEnd
    BY <2>2, MappingEndKeeps
  <2>3. CASE SequenceStart
    <3>1. ParserOK'
      BY <2>3, StartKeeps DEF SequenceStart
    <3> QED
      BY <2>3, <3>1 DEF SequenceStart, GoOn, FlagsOK, ResultOK
  <2>4. CASE SequenceEnd
    <3>1. ParserOK'
      BY <2>4, EndKeeps DEF SequenceEnd
    <3> QED
      BY <2>4, <3>1 DEF SequenceEnd, Return, FlagsOK, ResultOK
  <2>5. CASE Scalar
    BY <2>5, ScalarKeeps
  <2>6. CASE Alias
    <3>1. ParserOK'
      BY <2>6, LeafKeeps DEF Alias
    <3> QED
      BY <2>6, <3>1 DEF Alias, GoOn, flags, FlagsOK, ResultOK
  <2>7. CASE ParseError
    BY <2>7 DEF ParseError, parser, flags, ParserOK, FlagsOK, ResultOK
  <2>8. CASE UNCHANGED vars
    BY <2>8 DEF vars, parser, flags, ParserOK, FlagsOK, ResultOK
  <2> QED
    BY <2>1, <2>2, <2>3, <2>4, <2>5, <2>6, <2>7, <2>8 DEF Next, Turn, NoEvent
<1> HIDE DEF Types
<1> QED
  BY <1>1, <1>2, PTL DEF Spec

\* Every variable keeps to its type; above all, no text makes the import write
\* past the array of devices, however it is nested and whatever is repeated.
THEOREM TypeCorrect == Spec => []TypeOK
<1>1. Types => TypeOK
  BY DEF Types, ParserOK, FlagsOK, ResultOK, TypeOK
<1> QED
  BY <1>1, TypesHold, PTL

-----------------------------------------------------------------------------
(* Documents in the shape of the template.                                 *)

\* Nothing of the list has been seen.
BeforeList ==
  /\ written = << >> /\ store = << >>
  /\ ~in_devices /\ ~in_device /\ ~expecting_key

\* Between two devices: those that are complete are in the list.
BetweenDevices ==
  /\ in_devices /\ ~in_device /\ ~expecting_key
  /\ KnownTypes(written) /\ store = Kept(written)

\* Inside a device, which is the last one written: the record being filled is
\* that device as far as it goes, and the key is the one the parser remembers.
InDevice ==
  /\ in_devices /\ in_device
  /\ \E done \in Seq(DeviceRecord) :
       /\ written = Append(done, current_device)
       /\ store = Kept(done) /\ KnownTypes(done)
       /\ current_device["type"] \in TypeName
  /\ expecting_key <=> open[3].of # "none"
  /\ expecting_key => current_key = open[3].of

\* What the flags of the import say of the place in the document.
FlagsFollowPlace ==
  \/ Len(open) = 0 /\ BeforeList
  \/ Len(open) = 1 /\ open[1].kind = "map" /\ BeforeList
  \/ Len(open) = 2 /\ open[2].kind = "seq" /\ BetweenDevices
  \/ Len(open) = 3 /\ open[2].kind = "seq" /\ open[3].kind = "map" /\ InDevice

FlatInv ==
  /\ flat /\ pc = "read" => FlagsFollowPlace
  /\ ImportsWhatIsWritten

\* A record is a record with a type; what is kept of no device is nothing.
LEMMA KeptFacts ==
  /\ Kept(<< >>) = << >>
  /\ \A s \in Seq(DeviceRecord), d \in DeviceRecord :
       Kept(Append(s, d)) = IF HasRequired(d) THEN Append(Kept(s), d) ELSE Kept(s)
<1>1. Kept(<< >>) = << >>
  BY SelectedEmpty DEF Kept
<1> DEFINE S == {d \in DeviceRecord : HasRequired(d)}
<1>2. ASSUME NEW s \in Seq(DeviceRecord), NEW d \in DeviceRecord
      PROVE  Kept(Append(s, d)) = IF d \in S THEN Append(Kept(s), d) ELSE Kept(s)
  <2> HIDE DEF S
  <2>1. Selected(Append(s, d), S) =
          IF d \in S THEN Append(Selected(s, S), d) ELSE Selected(s, S)
    BY SelectedAppend
  <2> QED
    BY <2>1 DEF Kept, S
<1> QED
  BY <1>1, <1>2

\* Types are known of one more device when they are of the others and of it.
LEMMA KnownAppend ==
  ASSUME NEW s \in Seq(DeviceRecord), NEW d \in DeviceRecord
  PROVE  KnownTypes(Append(s, d)) <=> KnownTypes(s) /\ d["type"] \in TypeName
<1>1. /\ Len(Append(s, d)) = Len(s) + 1 /\ Append(s, d)[Len(s) + 1] = d
      /\ \A i \in 1 .. Len(s) : Append(s, d)[i] = s[i]
      /\ Len(s) \in Nat
  BY AppendProperties
<1>2. \A i \in 1 .. Len(s) + 1 : i \in 1 .. Len(s) \/ i = Len(s) + 1
  BY <1>1
<1>3. Len(s) + 1 \in 1 .. Len(s) + 1 /\ \A i \in 1 .. Len(s) : i \in 1 .. Len(s) + 1
  BY <1>1
<1> QED
  BY <1>1, <1>2, <1>3 DEF KnownTypes

\* Another device in place of the last one.
LEMMA ExceptLast ==
  ASSUME NEW s \in Seq(DeviceRecord), NEW d \in DeviceRecord, NEW e \in DeviceRecord,
         NEW u, u = [Append(s, d) EXCEPT ![Len(Append(s, d))] = e]
  PROVE  u = Append(s, e)
<1> DEFINE t == Append(s, d)
<1>1. /\ t \in Seq(DeviceRecord) /\ Len(t) = Len(s) + 1 /\ t[Len(t)] = d
      /\ \A i \in 1 .. Len(s) : t[i] = s[i]
      /\ Len(s) \in Nat
  BY AppendProperties
<1>2. u = [t EXCEPT ![Len(t)] = e]
  OBVIOUS
<1> HIDE DEF t
<1>3. Len(t) \in 1 .. Len(t)
  BY <1>1
<1>4. /\ u \in Seq(DeviceRecord) /\ Len(u) = Len(t)
      /\ \A j \in 1 .. Len(t) : u[j] = IF j = Len(t) THEN e ELSE t[j]
  BY <1>1, <1>2, <1>3
<1>5. /\ Append(s, e) \in Seq(DeviceRecord) /\ Len(Append(s, e)) = Len(s) + 1
      /\ \A i \in 1 .. Len(s) : Append(s, e)[i] = s[i]
      /\ Append(s, e)[Len(s) + 1] = e
  BY AppendProperties
<1>6. \A j \in 1 .. Len(u) : u[j] = Append(s, e)[j]
  BY <1>1, <1>4, <1>5
<1> QED
  BY <1>1, <1>4, <1>5, <1>6, SeqEqual

-----------------------------------------------------------------------------

\* Where the parser is in a document of that shape.
LEMMA Places ==
  ASSUME Types, flat, pc = "read", FlagsFollowPlace
  PROVE  /\ Len(open) \in 0 .. 3
         /\ open = << >> <=> Len(open) = 0
         /\ Len(open) = 2 => Inner.kind = "seq" /\ ~AwaitsValue
         /\ Len(open) \in {1, 3} => Inner.kind = "map" /\ (AwaitsValue <=> Inner.of # "none")
<1>1. open \in Seq(Collection) /\ (open = << >> <=> Len(open) = 0)
  BY EmptySeq DEF Types, ParserOK
<1>2. Len(open) \in 0 .. 3
  BY DEF FlagsFollowPlace
<1>3. Len(open) = 2 => Inner.kind = "seq"
  BY DEF FlagsFollowPlace, Inner
<1>4. Len(open) \in {1, 3} => Inner.kind = "map"
  BY DEF FlagsFollowPlace, Inner
<1>5. Len(open) \in {1, 3} => open # << >>
  BY <1>1
<1> QED
  BY <1>1, <1>2, <1>3, <1>4, <1>5 DEF AwaitsValue

\* The collections after a text is placed, and after another one opens.
LEMMA PlacedShape ==
  ASSUME Types, open # << >>, NEW text
  PROVE  /\ Len(Placed(text)) = Len(open)
         /\ \A i \in 1 .. Len(open) : Placed(text)[i].kind = open[i].kind
         /\ \A i \in 1 .. Len(open) - 1 : Placed(text)[i] = open[i]
         /\ Inner.kind = "map" =>
              Placed(text)[Len(open)].of = IF Inner.of = "none" THEN text ELSE "none"
<1>1. open \in Seq(Collection) /\ Len(open) \in Nat \ {0} /\ Len(open) \in 1 .. Len(open)
  BY EmptySeq DEF Types, ParserOK
<1>2. CASE Inner.kind = "map"
  <2> DEFINE e == [Inner EXCEPT !.of = IF Inner.of = "none" THEN text ELSE "none"]
  <2>1. Inner \in Collection
    BY <1>1 DEF Inner
  <2>2. e.kind = Inner.kind /\ e.of = IF Inner.of = "none" THEN text ELSE "none"
    BY <2>1 DEF Collection
  <2>3. Placed(text) = [open EXCEPT ![Len(open)] = e]
    BY <1>1, <1>2 DEF Placed, Inner
  <2> HIDE DEF e
  <2>4. \A i \in 1 .. Len(open) : Placed(text)[i] = IF i = Len(open) THEN e ELSE open[i]
    BY <1>1, <2>3
  <2>5. Len(Placed(text)) = Len(open)
    BY <1>1, <2>3
  <2> QED
    BY <1>1, <2>2, <2>4, <2>5 DEF Inner
<1>3. CASE Inner.kind # "map"
  BY <1>1, <1>3 DEF Placed
<1> QED
  BY <1>2, <1>3

\* A scalar in a document of that shape is the key "devices", or a key or a
\* value of a device.
LEMMA FlatScalar ==
  ASSUME Types, FlagsFollowPlace, flat, flat', pc = "read", ImportsWhatIsWritten,
         NEW text \in Text, Leaf("scalar", text),
         RootScalar(text) \/ DeviceKey(text) \/ DeviceValue(text) \/ StrayScalar
  PROVE  FlatInv'
<1>1. OnTemplate("scalar", text) /\ written' = WrittenAfter("scalar", text)
  BY DEF Leaf, Node
<1>2. Len(open) \in {1, 3}
  BY <1>1, Places DEF OnTemplate
<1>3. open # << >> /\ Len(open') = Len(open)
      /\ (\A i \in 1 .. Len(open) : open'[i].kind = open[i].kind)
      /\ open'[Len(open)].of = IF Inner.of = "none" THEN text ELSE "none"
  <2>1. open # << >> /\ Inner.kind = "map" /\ open' = Placed(text)
    BY <1>2, Places DEF Leaf
  <2> QED
    BY <2>1, PlacedShape
<1>4. text # "none"
  BY NoneAssumption
<1>5. CASE Len(open) = 1
  <2>1. BeforeList /\ text = "devices"
    BY <1>1, <1>5 DEF FlagsFollowPlace, OnTemplate
  <2>2. RootScalar(text)
    BY <2>1 DEF BeforeList, RootScalar, DeviceKey, DeviceValue, StrayScalar
  <2>3. written' = written
    BY <1>1, <1>5 DEF WrittenAfter
  <2>4. BeforeList' /\ pc' = "read"
    BY <2>1, <2>2, <2>3 DEF BeforeList, RootScalar, GoOn, flags
  <2> QED
    BY <1>3, <1>5, <2>4 DEF FlatInv, FlagsFollowPlace, ImportsWhatIsWritten
<1>6. CASE Len(open) = 3
  <2>1. InDevice /\ open[3].kind = "map" /\ open[2].kind = "seq" /\ Inner = open[3]
    BY <1>6 DEF FlagsFollowPlace, Inner
  <2>2. PICK done \in Seq(DeviceRecord) :
          /\ written = Append(done, current_device)
          /\ store = Kept(done) /\ KnownTypes(done)
          /\ current_device["type"] \in TypeName
    BY <2>1 DEF InDevice
  <2>3. open'[2].kind = "seq" /\ open'[3].kind = "map"
    BY <1>3, <1>6, <2>1
  <2>4. CASE DeviceKey(text)
    <3>1. ~AwaitsValue /\ open[3].of = "none"
      BY <2>1, <2>4, <1>6, Places DEF InDevice, DeviceKey
    <3>2. written' = written
      BY <1>1, <1>6, <3>1 DEF WrittenAfter
    <3>3. expecting_key' /\ current_key' = text /\ open'[3].of = text
      BY <1>3, <1>6, <2>1, <2>4, <3>1 DEF DeviceKey
    <3>4. InDevice' /\ pc' = "read"
      BY <1>4, <2>1, <2>2, <2>4, <3>2, <3>3 DEF InDevice, DeviceKey, GoOn, FlagsOK, Types
    <3> QED
      BY <1>3, <1>6, <2>3, <3>4 DEF FlatInv, FlagsFollowPlace, ImportsWhatIsWritten
  <2>5. CASE DeviceValue(text)
    <3>1. AwaitsValue /\ Inner.of = current_key /\ open'[3].of = "none"
      BY <1>3, <1>6, <2>1, <2>5, Places DEF InDevice, DeviceValue
    <3> DEFINE known == current_key \in Field \/ (current_key = "type" /\ KnownType(text))
               new == [current_device EXCEPT ![current_key] = text]
    <3>2. new \in DeviceRecord /\ current_device \in DeviceRecord
          /\ (current_key \in Key => new[current_key] = text)
          /\ (current_key # "type" => new["type"] = current_device["type"])
      BY FieldType DEF Types, FlagsOK, DeviceRecord, Key
    <3>3. written' = IF current_key \in Key THEN Append(done, new) ELSE written
      <4>1. written' = IF current_key \in Key
                       THEN [written EXCEPT ![Len(written)][current_key] = text]
                       ELSE written
        BY <1>1, <1>6, <3>1 DEF WrittenAfter
      <4>2. [written EXCEPT ![Len(written)][current_key] = text] = Append(done, new)
        <5>1. /\ Len(written) \in 1 .. Len(written) /\ written[Len(written)] = current_device
              /\ written \in Seq(DeviceRecord)
          BY <2>2, <3>2, AppendProperties
        <5>2. PICK u : u = [written EXCEPT ![Len(written)][current_key] = text]
          OBVIOUS
        <5>3. u = [written EXCEPT ![Len(written)] = new]
          BY <5>1, <5>2
        <5> HIDE DEF known, new
        <5>4. u = Append(done, new)
          BY <2>2, <3>2, <5>3, ExceptLast
        <5> QED
          BY <5>2, <5>4
      <4> QED
        BY <4>1, <4>2
    <3>4. store' = store /\ in_devices' /\ in_device' /\ ~expecting_key'
          /\ current_device' = IF known THEN new ELSE current_device
      BY <2>5 DEF DeviceValue, FlagsOK, Types
    <3>5. CASE current_key = "type" /\ ~KnownType(text)
      <4>1. pc' = "returned" /\ ret' = "error"
        BY <2>5, <3>5 DEF DeviceValue, Return
      <4>2. written' = Append(done, new) /\ new["type"] = text /\ text \notin TypeName
        BY <3>2, <3>3, <3>5 DEF Key, KnownType
      <4>3. ~KnownTypes(written')
        BY <3>2, <4>2, KnownAppend
      <4> QED
        BY <4>1, <4>3 DEF FlatInv, ImportsWhatIsWritten, WrittenOk
    <3>6. CASE ~(current_key = "type" /\ ~KnownType(text))
      <4>1. pc' = "read"
        BY <2>5, <3>6 DEF DeviceValue, GoOn
      <4>2. known <=> current_key \in Key
        BY <3>6 DEF Key
      <4>3. written' = Append(done, current_device')
        BY <2>2, <3>3, <3>4, <4>2
      <4>4. current_device'["type"] \in TypeName
        <5>1. CASE current_key = "type"
          BY <3>2, <3>4, <3>6, <4>2, <5>1 DEF Key, KnownType
        <5>2. CASE current_key # "type"
          BY <2>2, <3>2, <3>4, <5>2
        <5> QED
          BY <5>1, <5>2
      <4>5. \E x \in Seq(DeviceRecord) :
              /\ written' = Append(x, current_device')
              /\ store' = Kept(x) /\ KnownTypes(x)
        BY <2>2, <3>4, <4>3
      <4>6. InDevice'
        <5> HIDE DEF known, new
        <5> QED
          BY <3>1, <3>4, <4>4, <4>5 DEF InDevice
      <4> QED
        BY <1>3, <1>6, <2>3, <4>1, <4>6 DEF FlatInv, FlagsFollowPlace, ImportsWhatIsWritten
    <3> QED
      BY <3>5, <3>6
  <2> QED
    BY <2>1, <2>4, <2>5 DEF InDevice, RootScalar, StrayScalar
<1> QED
  BY <1>2, <1>5, <1>6

\* A mapping that begins is the document or a device; nothing else may.
LEMMA FlatMappingStart ==
  ASSUME Types, FlagsFollowPlace, flat, flat', pc = "read", ImportsWhatIsWritten, MappingStart
  PROVE  FlatInv'
<1>1. OnTemplate("map", "complex") /\ written' = WrittenAfter("map", "complex")
  BY DEF MappingStart, Start, Node
<1>2. Len(open) \in {0, 2} /\ pc' = "read"
  BY <1>1, Places DEF OnTemplate, MappingStart, GoOn, Types, ResultOK
<1>3. Placed("complex") = open
  BY <1>2, Places DEF Placed
<1>4. open \in Seq(Collection) /\ [kind |-> "map", of |-> "none"] \in Collection
  BY DEF Types, ParserOK, Collection
<1>5. Len(open') = Len(open) + 1 /\ open'[Len(open) + 1] = [kind |-> "map", of |-> "none"]
      /\ \A i \in 1 .. Len(open) : open'[i] = open[i]
  BY <1>3, <1>4, AppendProperties DEF MappingStart, Start
<1>6. CASE Len(open) = 0
  <2>1. BeforeList /\ written' = written
    BY <1>1, <1>6 DEF FlagsFollowPlace, WrittenAfter
  <2>2. BeforeList'
    BY <2>1 DEF BeforeList, MappingStart
  <2> QED
    BY <1>2, <1>5, <1>6, <2>2 DEF FlatInv, FlagsFollowPlace, ImportsWhatIsWritten
<1>7. CASE Len(open) = 2
  <2>1. BetweenDevices /\ open[2].kind = "seq" /\ written' = Append(written, NoDevice)
    BY <1>1, <1>7 DEF FlagsFollowPlace, WrittenAfter
  <2>2. current_device' = NoDevice /\ in_device' /\ in_devices' /\ ~expecting_key'
        /\ store' = store
    BY <2>1 DEF BetweenDevices, MappingStart
  <2>3. NoDevice["type"] \in TypeName
    BY KeyAssumption DEF NoDevice, Key
  <2>4. open'[3].kind = "map" /\ open'[3].of = "none" /\ open'[2].kind = "seq" /\ Len(open') = 3
    BY <1>5, <1>7, <2>1
  <2>5. written \in Seq(DeviceRecord)
    BY DEF Types, ParserOK
  <2>6. \E x \in Seq(DeviceRecord) :
          written' = Append(x, current_device') /\ store' = Kept(x) /\ KnownTypes(x)
    BY <2>1, <2>2, <2>5 DEF BetweenDevices
  <2>7. InDevice'
    BY <2>2, <2>3, <2>4, <2>6 DEF InDevice
  <2> QED
    BY <1>2, <2>4, <2>7 DEF FlatInv, FlagsFollowPlace, ImportsWhatIsWritten
<1> QED
  BY <1>2, <1>6, <1>7

\* The end of a mapping is the end of a device or of the document.
LEMMA FlatMappingEnd ==
  ASSUME Types, FlagsFollowPlace, flat, flat', pc = "read", ImportsWhatIsWritten, MappingEnd
  PROVE  FlatInv'
<1>1. Len(open) \in {1, 3} /\ ~AwaitsValue /\ written' = written /\ open' = Front(open)
  BY Places DEF MappingEnd, End
<1>2. Len(open') = Len(open) - 1 /\ \A i \in 1 .. Len(open) - 1 : open'[i] = open[i]
  <2>1. open \in Seq(Collection)
    BY DEF Types, ParserOK
  <2>2. open # << >>
    BY DEF MappingEnd, End
  <2> QED
    BY <1>1, <2>1, <2>2, FrontFacts
<1>3. CASE Len(open) = 1
  <2>1. BeforeList
    BY <1>3 DEF FlagsFollowPlace
  <2>2. BeforeList' /\ pc' = "read"
    BY <1>1, <2>1 DEF BeforeList, MappingEnd, GoOn
  <2> QED
    BY <1>2, <1>3, <2>2 DEF FlatInv, FlagsFollowPlace, ImportsWhatIsWritten
<1>4. CASE Len(open) = 3
  <2>1. InDevice /\ open[2].kind = "seq" /\ Inner = open[3]
    BY <1>4 DEF FlagsFollowPlace, Inner
  <2>2. PICK done \in Seq(DeviceRecord) :
          /\ written = Append(done, current_device)
          /\ store = Kept(done) /\ KnownTypes(done)
          /\ current_device["type"] \in TypeName
    BY <2>1 DEF InDevice
  <2>3. ~expecting_key
    BY <1>1, <1>4, <2>1, Places DEF InDevice
  <2>4. current_device \in DeviceRecord /\ store \in Seq(DeviceRecord)
        /\ Len(store) <= STORE_MAX_DEVICES /\ Len(store) \in Nat
    BY DEF Types, FlagsOK, ResultOK
  <2>5. KnownTypes(written)
    BY <2>2, <2>4, KnownAppend
  <2>6. Kept(written) = IF HasRequired(current_device)
                        THEN Append(store, current_device) ELSE store
    BY <2>2, <2>4, KeptFacts
  <2>7. CASE pc' = "read"
    <3>1. store' = Kept(written)
      BY <2>1, <2>6, <2>7 DEF InDevice, MappingEnd, Return
    <3>2. BetweenDevices'
      BY <1>1, <2>1, <2>3, <2>5, <3>1 DEF BetweenDevices, MappingEnd, InDevice
    <3> QED
      BY <1>2, <1>4, <2>1, <2>7, <3>2 DEF FlatInv, FlagsFollowPlace, ImportsWhatIsWritten
  <2>8. CASE pc' # "read"
    <3>1. HasRequired(current_device) /\ ~Room /\ pc' = "returned" /\ ret' = "error"
      BY <2>1, <2>8 DEF InDevice, MappingEnd, Return, GoOn
    <3>2. Len(Kept(written)) = Len(store) + 1 /\ Len(store) >= STORE_MAX_DEVICES
      BY <2>4, <2>6, <3>1, BoundAssumption, AppendProperties DEF Room
    <3>3. ~(Len(Kept(written')) \in 1 .. STORE_MAX_DEVICES)
      BY <1>1, <2>4, <3>2, BoundAssumption
    <3> QED
      BY <3>1, <3>3 DEF FlatInv, ImportsWhatIsWritten, WrittenOk
  <2> QED
    BY <2>7, <2>8
<1> QED
  BY <1>1, <1>3, <1>4

\* A sequence is the list of devices; its end ends the import.
LEMMA FlatSequence ==
  ASSUME Types, FlagsFollowPlace, flat, flat', pc = "read", ImportsWhatIsWritten,
         SequenceStart \/ SequenceEnd
  PROVE  FlatInv'
<1>1. CASE SequenceStart
  <2>1. OnTemplate("seq", "complex") /\ written' = WrittenAfter("seq", "complex")
    BY <1>1 DEF SequenceStart, Start, Node
  <2>2. Len(open) = 1 /\ pc' = "read"
    BY <1>1, <2>1, Places DEF OnTemplate, SequenceStart, GoOn
  <2>3. BeforeList /\ written' = written /\ open # << >>
    BY <2>1, <2>2, Places DEF FlagsFollowPlace, WrittenAfter
  <2>4. Placed("complex") \in Seq(Collection) /\ Len(Placed("complex")) = 1
    BY <2>2, PlacedType DEF Types
  <2>5. [kind |-> "seq", of |-> "none"] \in Collection
    BY DEF Collection
  <2>6. Len(open') = 2 /\ open'[2] = [kind |-> "seq", of |-> "none"]
    BY <1>1, <2>4, <2>5, AppendProperties DEF SequenceStart, Start
  <2>7. KnownTypes(written) /\ store = Kept(written)
    BY <2>3, KeptFacts DEF BeforeList, KnownTypes
  <2>8. BetweenDevices'
    BY <1>1, <2>3, <2>7 DEF BeforeList, BetweenDevices, SequenceStart
  <2> QED
    BY <2>2, <2>6, <2>8 DEF FlatInv, FlagsFollowPlace, ImportsWhatIsWritten
<1>2. CASE SequenceEnd
  <2>1. Len(open) = 2 /\ written' = written /\ store' = store
    BY <1>2, Places DEF SequenceEnd, End
  <2>2. KnownTypes(written) /\ store = Kept(written)
    BY <2>1 DEF FlagsFollowPlace, BetweenDevices
  <2>3. pc' = "returned" /\ ret' = IF store = << >> THEN "error" ELSE "ok"
    BY <1>2, <2>1 DEF SequenceEnd, Return
  <2>4. store # << >> <=> Len(store) \in 1 .. STORE_MAX_DEVICES
    BY EmptySeq, BoundAssumption DEF Types, ResultOK
  <2> QED
    BY <2>1, <2>2, <2>3, <2>4 DEF FlatInv, ImportsWhatIsWritten, WrittenOk
<1> QED
  BY <1>1, <1>2

\* Of a document in the shape of the template exactly the devices that have the
\* required fields are read, with their own values, or an error tells why not;
\* for any number of devices, any keys, in any order, repeated or missing.
THEOREM ImportsWhatIsWrittenHolds == Spec => []ImportsWhatIsWritten
<1>1. Init => FlatInv
  BY DEF Init, FlatInv, FlagsFollowPlace, BeforeList, ImportsWhatIsWritten
<1>2. Types /\ FlatInv /\ [Next]_vars => FlatInv'
  <2> SUFFICES ASSUME Types, FlatInv, [Next]_vars PROVE FlatInv'
    OBVIOUS
  <2>1. CASE UNCHANGED vars
    BY <2>1 DEF vars, parser, flags, FlatInv, FlagsFollowPlace, BeforeList,
       BetweenDevices, InDevice, ImportsWhatIsWritten, WrittenOk
  <2>2. CASE Next /\ ~flat'
    BY <2>2 DEF FlatInv, ImportsWhatIsWritten
  <2>3. CASE Next /\ flat' /\ ~(UNCHANGED vars)
    <3>1. pc = "read"
      BY <2>3 DEF Next, Turn
    <3>2. flat
      BY <2>3 DEF Next, Turn, MappingStart, MappingEnd, SequenceStart, SequenceEnd,
         Scalar, Alias, ParseError, NoEvent, Start, Leaf, End, Node
    <3>3. FlagsFollowPlace /\ ImportsWhatIsWritten
      BY <3>1, <3>2 DEF FlatInv
    <3>4. ~Alias
      BY <2>3, <3>1, <3>2, <3>3, Places DEF Alias, Leaf, Node, OnTemplate
    <3>5. ~ParseError
      BY <2>3 DEF ParseError
    <3> QED
      BY <2>3, <3>1, <3>2, <3>3, <3>4, <3>5, FlatScalar, FlatMappingStart,
         FlatMappingEnd, FlatSequence DEF Next, Turn, Scalar, NoEvent
  <2> QED
    BY <2>1, <2>2, <2>3
<1>3. FlatInv => ImportsWhatIsWritten
  BY DEF FlatInv
<1>4. Spec => []Types
  BY TypesHold
<1> QED
  BY <1>1, <1>2, <1>3, <1>4, PTL DEF Spec
=============================================================================
