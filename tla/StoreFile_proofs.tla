-------------------------- MODULE StoreFile_proofs --------------------------
(***************************************************************************)
(* Proofs about StoreFile, for every set of images and every set of faults: *)
(* its invariants, by way of the inductive invariant IInv, and that the     *)
(* calls of credential_store_save implement an atomic register.             *)
(***************************************************************************)
EXTENDS StoreFile, TLAPS

\* What NeverTorn rests on: the contents of the temporary file, step by step.
\* A call starts with whatever its predecessors left there; the image reaches
\* the file with fwrite and the disk with fsync, and stays until the rename.
TempFollowsCall ==
  /\ pc \in InCall => image \in Image
  /\ pc = "fsync" =>
       temp_path \in [data : {image}, synced : BOOLEAN]
  /\ pc \in {"fclose", "rename"} =>
       temp_path = [data |-> image, synced |-> TRUE]

IInv == TypeOK /\ NeverTorn /\ TempFollowsCall

\* The initial state satisfies the inductive invariant.
LEMMA InitIInv == Init => IInv
  BY DEF Init, IInv, TypeOK, NeverTorn, Whole, TempFollowsCall, Entry, InCall, Returned

\* Every step preserves it.
LEMMA NextIInv == IInv /\ [Next]_vars => IInv'
<1> SUFFICES ASSUME IInv, [Next]_vars PROVE IInv'
  OBVIOUS
<1>a. NoFile \in Entry
  BY DEF Entry
<1>b. [data |-> Partial, synced |-> FALSE] \in Entry
  BY DEF Entry, File
<1>c. [data |-> Partial, synced |-> TRUE] \in Entry
  BY DEF Entry, File
<1>d. image \in Image => /\ [data : {image}, synced : BOOLEAN] \subseteq Entry
                         /\ [data |-> image, synced |-> TRUE] \in Whole
  BY DEF Entry, File, Whole
<1> USE DEF IInv, TypeOK, NeverTorn, TempFollowsCall, InCall, Returned, files
<1>1. ASSUME NEW img \in Image, Begin(img) PROVE IInv'
  BY <1>1 DEF Begin
<1>2. CASE Prepare
  BY <1>2 DEF Prepare
<1>3. CASE OpenTemp
  BY <1>3, <1>b DEF OpenTemp
<1>4. CASE WriteTemp
  <2>1. [data |-> image, synced |-> FALSE] \in [data : {image}, synced : BOOLEAN]
    OBVIOUS
  <2> QED
    BY <1>4, <1>d, <2>1 DEF WriteTemp
<1>5. CASE SyncTemp
  <2>1. CASE pc' = "fclose"
    <3>1. temp_path' = [data |-> image, synced |-> TRUE]
      BY <1>5, <2>1 DEF SyncTemp
    <3>2. temp_path' \in [data : {image}, synced : BOOLEAN]
      BY <3>1
    <3> QED
      BY <1>5, <1>d, <2>1, <3>1, <3>2 DEF SyncTemp
  <2>2. CASE pc' = "undo"
    BY <1>5, <2>2 DEF SyncTemp
  <2> QED
    BY <1>5, <2>1, <2>2 DEF SyncTemp
<1>6. CASE CloseTemp
  BY <1>6 DEF CloseTemp
<1>7. CASE RenameTemp
  BY <1>7, <1>a, <1>d DEF RenameTemp
<1>8. CASE Undo
  BY <1>8, <1>a DEF Undo
<1>9. CASE Return
  BY <1>9 DEF Return
<1>10. CASE AbortOnDoubleClose
  BY <1>10 DEF AbortOnDoubleClose
<1>11. CASE Kill
  BY <1>11 DEF Kill
<1>12. CASE WriteBack
  BY <1>12 DEF WriteBack
<1>13. CASE PowerLoss
  <2>1. AfterLoss(durable) = {durable}
    BY DEF AfterLoss, Whole
  <2> QED
    BY <1>13, <2>1, <1>a, <1>c DEF PowerLoss
<1>14. CASE Remove
  BY <1>14, <1>a DEF Remove
<1>15. CASE UNCHANGED vars
  BY <1>15 DEF vars
<1> HIDE DEF IInv, TypeOK, NeverTorn, TempFollowsCall, InCall, Returned, files
<1> QED
  BY <1>1, <1>2, <1>3, <1>4, <1>5, <1>6, <1>7, <1>8, <1>9, <1>10, <1>11,
     <1>12, <1>13, <1>14, <1>15 DEF Next, SaveStep, Environment

\* IInv is an invariant of every behaviour.
LEMMA InductiveInvariant == Spec => []IInv
  BY InitIInv, NextIInv, PTL DEF Spec

\* Every variable keeps its type.
THEOREM TypeCorrect == Spec => []TypeOK
<1>1. IInv => TypeOK
  BY DEF IInv
<1> QED
  BY <1>1, InductiveInvariant, PTL

\* No fault at any point of credential_store_save leaves a partly written
\* store, neither visible nor to be found after a power failure.
THEOREM NeverTornHolds == Spec => []NeverTorn
<1>1. IInv => NeverTorn
  BY DEF IInv
<1> QED
  BY <1>1, InductiveInvariant, PTL

\* The file that is renamed over the store is the one this call has written,
\* in full and on the disk, whatever earlier calls left at <path>.tmp.
THEOREM RenamesItsOwnImageHolds == Spec => []RenamesItsOwnImage
<1>1. IInv => RenamesItsOwnImage
  BY DEF IInv, TempFollowsCall, RenamesItsOwnImage
<1> QED
  BY <1>1, InductiveInvariant, PTL

-----------------------------------------------------------------------------
(* The refinement.                                                         *)

\* The initial files are the empty register.
LEMMA InitRefines == Init => Register!Init
  BY ImageAssumption DEF Init, Register!Init, InCall

\* Every step of the save and of its environment is a step of the register or
\* leaves it alone.
LEMMA NextRefines == IInv /\ [Next]_vars => [Register!Next]_(Register!vars)
<1> SUFFICES ASSUME IInv, [Next]_vars
             PROVE [Register!Next]_(Register!vars)
  OBVIOUS
<1> USE DEF IInv, NeverTorn, TempFollowsCall, InCall, files
<1>1. ASSUME NEW img \in Image, Begin(img) PROVE Register!Request
  BY <1>1 DEF Begin, Register!Request
<1>2. ASSUME UNCHANGED <<files, image>>, pc \in InCall, pc' = "failed"
      PROVE Register!Refuse
  BY <1>2 DEF Register!Refuse
<1>3. ASSUME UNCHANGED <<path, durable, image>>, pc \in InCall, pc' \in InCall
      PROVE UNCHANGED Register!vars
  BY <1>3 DEF Register!vars
<1>4. CASE Prepare
  BY <1>2, <1>3, <1>4 DEF Prepare, Register!Next
<1>5. CASE OpenTemp
  BY <1>2, <1>3, <1>5 DEF OpenTemp, Register!Next
<1>6. CASE WriteTemp
  BY <1>3, <1>6 DEF WriteTemp
<1>7. CASE SyncTemp
  BY <1>3, <1>7 DEF SyncTemp
<1>8. CASE CloseTemp
  BY <1>3, <1>8 DEF CloseTemp
<1>9. CASE RenameTemp
  <2>1. CASE pc' = "ok"
    <3>1. image \in Image /\ temp_path = [data |-> image, synced |-> TRUE]
      BY <1>9 DEF RenameTemp
    <3>2. temp_path # NoFile
      <4>1. [data |-> image, synced |-> TRUE] \in File
        BY <3>1 DEF File
      <4> QED
        BY <3>1, <4>1, ImageAssumption
    <3>3. Register!Commit
      BY <1>9, <2>1, <3>1, <3>2 DEF RenameTemp, Register!Commit
    <3> QED
      BY <3>3 DEF Register!Next
  <2>2. CASE pc' = "undo_closed"
    BY <1>3, <1>9, <2>2 DEF RenameTemp
  <2> QED
    BY <1>9, <2>1, <2>2 DEF RenameTemp
<1>10. ASSUME Undo PROVE Register!Refuse
  BY <1>10 DEF Undo, Register!Refuse
<1>11. ASSUME Return PROVE Register!Answered
  BY <1>11 DEF Return, Returned, Register!Answered
<1>12. ASSUME Kill \/ AbortOnDoubleClose PROVE Register!Die
  BY <1>12 DEF Kill, AbortOnDoubleClose, Register!Die
<1>13. ASSUME WriteBack PROVE Register!Harden
  BY <1>13 DEF WriteBack, Register!Harden
<1>14. ASSUME PowerLoss PROVE Register!PowerFailure
  <2>1. AfterLoss(durable) = {durable}
    BY DEF AfterLoss, Whole
  <2> QED
    BY <1>14, <2>1 DEF PowerLoss, Register!PowerFailure
<1>15. ASSUME Remove PROVE Register!Erase
  BY <1>15 DEF Remove, Register!Erase
<1>16. ASSUME UNCHANGED vars PROVE UNCHANGED Register!vars
  BY <1>16 DEF vars, Register!vars
<1> HIDE DEF IInv, NeverTorn, TempFollowsCall, InCall, files
<1> QED
  BY <1>1, <1>4, <1>5, <1>6, <1>7, <1>8, <1>9, <1>10, <1>11, <1>12, <1>13,
     <1>14, <1>15, <1>16 DEF Next, SaveStep, Environment, Register!Next

\* credential_store_save is an atomic register: acknowledged writes replace the
\* whole store, refused ones change nothing, killed ones did one or the other,
\* and a power failure goes back to an earlier whole store.
THEOREM ImplementsRegister == Spec => IsAtomicRegister
<1>1. Spec => Register!Init /\ [][Register!Next]_(Register!vars)
  BY InitRefines, NextRefines, InductiveInvariant, PTL DEF Spec
<1> QED
  BY <1>1 DEF IsAtomicRegister, Register!Spec
=============================================================================
