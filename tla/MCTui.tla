------------------------------- MODULE MCTui -------------------------------
(* Two devices to tell apart, a store of four and a menu with room for three *)
(* of them; lines that are blank, fit, or fill the short prompts and run over. *)
EXTENDS Tui

LineLengths == {0, 1, 31}
=============================================================================
