----------------------------- MODULE MCSharedMap -----------------------------
(***************************************************************************)
(* Instances of SharedMap for TLC, with the identifiers of MCKVStore.      *)
(***************************************************************************)
EXTENDS SharedMap

MCValue == Client \X {1}

\* Client 5 puts; client 6 reads and removes.
OneWriter  == [c \in Client |-> IF c = 5 THEN 1 ELSE 0]
OneRemover == {6} \X Key
=============================================================================
