----------------------------- MODULE MCKVStore -----------------------------
(***************************************************************************)
(* Instances of KVStore for TLC.  Client identifiers start at 5 and server *)
(* identifiers at 0, as in the README and main.cpp: the order of the       *)
(* identifiers breaks the ties of timestamps, so they are not symmetric.   *)
(***************************************************************************)
EXTENDS KVStore

MCValue == Client \X (1..2)

OnePut  == [c \in Client |-> 1]
TwoOne  == [c \in Client |-> IF c = 5 THEN 2 ELSE 1]
\* Only client 5 puts; the other one reads, and removes if it may.
OneWriter  == [c \in Client |-> IF c = 5 THEN 1 ELSE 0]
OneWriter2 == [c \in Client |-> IF c = 5 THEN 2 ELSE 0]

NoRestart   == [c \in Client |-> 0]
OneRestarts == [c \in Client |-> IF c = 5 THEN 1 ELSE 0]

Removals   == Client \X Key
OneRemover == {6} \X Key
=============================================================================
