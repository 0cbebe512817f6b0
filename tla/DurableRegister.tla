--------------------------- MODULE DurableRegister ---------------------------
(***************************************************************************)
(* What credential_store_save promises its callers, with no file system in *)
(* sight: a register that holds Nothing or one value.  A write that is     *)
(* acknowledged has replaced the whole value, one that is refused has      *)
(* changed nothing, one whose process dies did one or the other.  A power  *)
(* failure may take back replacements that were not yet stable, never a    *)
(* part of one.                                                            *)
(***************************************************************************)
CONSTANTS Value, Nothing

VARIABLES
  visible,  \* what a reader gets
  stable,   \* what a reader would get after a power failure
  wanted,   \* the value the current or the last write asked for
  state     \* "idle", "busy", or the answer "ok" or "failed"

vars == <<visible, stable, wanted, state>>

Init ==
  /\ visible = Nothing
  /\ stable = Nothing
  /\ wanted = Nothing
  /\ state = "idle"

Request ==
  /\ state = "idle"
  /\ wanted' \in Value
  /\ state' = "busy"
  /\ UNCHANGED <<visible, stable>>

Commit ==
  /\ state = "busy"
  /\ visible' = wanted
  /\ state' = "ok"
  /\ UNCHANGED <<stable, wanted>>

Refuse ==
  /\ state = "busy"
  /\ state' = "failed"
  /\ UNCHANGED <<visible, stable, wanted>>

Answered ==
  /\ state \in {"ok", "failed"}
  /\ state' = "idle"
  /\ UNCHANGED <<visible, stable, wanted>>

\* The writer dies, before or after Commit.
Die ==
  /\ state' = "idle"
  /\ UNCHANGED <<visible, stable, wanted>>

Harden ==
  /\ stable' = visible
  /\ UNCHANGED <<visible, wanted, state>>

PowerFailure ==
  /\ visible' = stable
  /\ state' = "idle"
  /\ UNCHANGED <<stable, wanted>>

Erase ==
  /\ visible' = Nothing
  /\ UNCHANGED <<stable, wanted, state>>

Next ==
  \/ Request \/ Commit \/ Refuse \/ Answered
  \/ Die \/ Harden \/ PowerFailure \/ Erase

Spec == Init /\ [][Next]_vars
=============================================================================
