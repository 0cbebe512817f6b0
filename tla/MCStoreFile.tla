----------------------------- MODULE MCStoreFile -----------------------------
(* Instance of StoreFile for TLC: two images, so that an old and a new one  *)
(* can be told apart, and every fault.                                      *)
EXTENDS StoreFile

AllFaults == FaultKinds
=============================================================================
