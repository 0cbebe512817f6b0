----------------------------- MODULE MCYamlImport -----------------------------
(* Instances of YamlImport for TLC: one required field, no optional one (it  *)
(* would differ from it in nothing but that it may stay blank), two types.   *)
EXTENDS YamlImport

OneRequired == {"name"}
NoOptional == {}
TwoTypes == {"eltex-me", "mikrotik"}
NoOther == {}
=============================================================================
