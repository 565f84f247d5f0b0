------------------------------ MODULE Timestamp ------------------------------
(***************************************************************************)
(* core/timestamp.hh, core/timestamp.cc: a sequence number concatenated    *)
(* with an identifier that is unique across the replicas.                  *)
(*                                                                         *)
(* A timestamp is a record with the fields seq (_seq_number) and uid       *)
(* (_uid).  The code's third field, _replica_id, is the identifier that    *)
(* update() writes into _uid; every operator that updates a timestamp      *)
(* takes it as a parameter.  Sequence numbers are unbounded here.          *)
(***************************************************************************)
EXTENDS Integers

\* Mutated operator <: "and" for "or".
TimestampLessInBoth(t1, t2) == t1.seq < t2.seq /\ t1.uid < t2.uid

\* operator <: sequence numbers first, uids break the ties.
TimestampLess(t1, t2) ==
  \/ t1.seq < t2.seq
  \/ t1.seq = t2.seq /\ t1.uid < t2.uid

\* operator ==: the two timestamps name the same event.
TimestampEqual(t1, t2) == t1.seq = t2.seq /\ t1.uid = t2.uid
=============================================================================
