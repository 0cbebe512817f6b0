------------------------------- MODULE Selection -------------------------------
(***************************************************************************)
(* The elements of a sequence that belong to a set, in order: SelectSeq of  *)
(* the standard module with a set for its test, which is a form one can     *)
(* prove about.                                                             *)
(***************************************************************************)
EXTENDS Naturals, Sequences

Selected(s, S) ==
  LET Upto[i \in 0 .. Len(s)] ==
        IF i = 0 THEN << >>
        ELSE IF s[i] \in S THEN Append(Upto[i - 1], s[i]) ELSE Upto[i - 1]
  IN  Upto[Len(s)]
=============================================================================
