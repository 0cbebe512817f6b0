------------------------- MODULE ExportBuffer_proofs -------------------------
(***************************************************************************)
(* Proofs about ExportBuffer, for every buffer size, slack and number of    *)
(* devices: what the lengths of the entries must satisfy for snprintf to    *)
(* stay inside the buffer, and which of them can be cut.                    *)
(***************************************************************************)
EXTENDS ExportBuffer, TLAPS

\* At the head of the loop more than Slack bytes are free: this is what the
\* test at its end is for.
IInv ==
  /\ cap \in Nat /\ used \in Nat
  /\ InitialCap <= cap
  /\ result = "none" => used + Slack < cap

\* Every variable keeps to its type, and no more devices are printed than there
\* are, however long they are.
THEOREM TypeCorrect == Spec => []TypeOK
<1>1. Init => TypeOK
  BY SizesAssumption DEF Init, TypeOK
<1>2. TypeOK /\ [Next]_vars => TypeOK'
  <2> SUFFICES ASSUME TypeOK, [Next]_vars PROVE TypeOK'
    OBVIOUS
  <2>1. CASE Turn
    BY <2>1, SizesAssumption DEF TypeOK, Turn, PrintDevice
  <2>2. CASE Finish
    BY <2>2 DEF TypeOK, Finish
  <2>3. CASE UNCHANGED vars
    BY <2>3 DEF TypeOK, vars
  <2> QED
    BY <2>1, <2>2, <2>3 DEF Next
<1> QED
  BY <1>1, <1>2, PTL DEF Spec

\* The initial buffer satisfies it.
LEMMA InitIInv == Init => IInv
  BY SizesAssumption DEF Init, IInv

\* A turn of the loop keeps it, as long as no entry is longer than the first
\* buffer: then one doubling is always enough.
LEMMA NextIInv ==
  ASSUME \A length \in EntryLength : length <= InitialCap
  PROVE  IInv /\ [Next]_vars => IInv'
<1> SUFFICES ASSUME IInv, [Next]_vars PROVE IInv'
  OBVIOUS
<1>1. ASSUME NEW length \in EntryLength, PrintDevice(length),
             \/ ~Grows /\ UNCHANGED <<cap, result>>
             \/ Grows /\ cap' = 2 * cap /\ UNCHANGED result
             \/ Grows /\ result' = "failed" /\ UNCHANGED cap
      PROVE  IInv'
  <2>1. length \in Nat /\ length <= InitialCap /\ Slack \in Nat /\ InitialCap \in Nat
    BY SizesAssumption
  <2>2. used' = used + length /\ used + Slack < cap
    BY <1>1 DEF PrintDevice, IInv
  <2> QED
    BY <1>1, <2>1, <2>2 DEF IInv, Grows
<1>2. CASE Turn
  BY <1>1, <1>2 DEF Turn
<1>3. CASE Finish
  BY <1>3 DEF Finish, IInv
<1>4. CASE UNCHANGED vars
  BY <1>4 DEF vars, IInv
<1> QED
  BY <1>2, <1>3, <1>4 DEF Next

\* The size given to snprintf never wraps, for up to any number of devices of
\* any length that the first buffer could hold (650 bytes against 16384).
THEOREM SizeNeverWrapsHolds ==
  ASSUME \A length \in EntryLength : length <= InitialCap
  PROVE  Spec => []SizeNeverWraps
<1>1. IInv => SizeNeverWraps
  BY SizesAssumption DEF IInv, SizeNeverWraps
<1>2. IInv /\ [Next]_vars => IInv'
  BY NextIInv
<1> QED
  BY <1>1, <1>2, InitIInv, PTL DEF Spec

\* Only entries longer than the slack are ever cut.  The longest device of the
\* code is: 650 bytes against 512.
THEOREM OnlyLongAreCutHolds ==
  ASSUME \A length \in EntryLength : length <= InitialCap
  PROVE  Spec => []OnlyLongAreCut
<1>1. IInv /\ [Next]_vars => IInv'
  BY NextIInv
<1>2. IInv /\ OnlyLongAreCut /\ [Next]_vars => OnlyLongAreCut'
  <2> SUFFICES ASSUME IInv, OnlyLongAreCut, [Next]_vars PROVE OnlyLongAreCut'
    OBVIOUS
  <2>1. ASSUME NEW length \in EntryLength, PrintDevice(length) PROVE OnlyLongAreCut'
    <3>1. length \in Nat /\ Slack \in Nat
      BY SizesAssumption
    <3>2. used + length < cap \/ length > Slack
      BY <2>1, <3>1 DEF PrintDevice, IInv
    <3> QED
      BY <2>1, <3>2 DEF PrintDevice, OnlyLongAreCut
  <2> QED
    BY <2>1 DEF Next, Turn, Finish, vars, OnlyLongAreCut
<1>3. Init => OnlyLongAreCut
  BY DEF Init, OnlyLongAreCut
<1> QED
  BY <1>1, <1>2, <1>3, InitIInv, PTL DEF Spec
=============================================================================
