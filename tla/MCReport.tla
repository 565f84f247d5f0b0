------------------------------ MODULE MCReport ------------------------------
(***************************************************************************)
(* Instances of Report for TLC: those of KVStore.                          *)
(***************************************************************************)
EXTENDS MCKVStore, Report
=============================================================================
