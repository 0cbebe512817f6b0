--------------------------- MODULE MCExportBuffer ---------------------------
(* Instances of ExportBuffer for TLC, with the sizes of the code.  A printed *)
(* device has 69 characters around its fields, which hold 16 at the least    *)
(* ("juniper", a name, "0...", a user) and 581 at the most.  512 is the      *)
(* longest entry that must not be cut.                                       *)
EXTENDS ExportBuffer

AnyLengths == {85, 512, 650}
=============================================================================
