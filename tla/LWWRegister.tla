----------------------------- MODULE LWWRegister -----------------------------
(***************************************************************************)
(* statebased/lwwregister.hh: a value and the timestamp of the assignment  *)
(* that wrote it; of two registers the one with the larger timestamp wins. *)
(*                                                                         *)
(* A register is a record [seq, uid, val]: the fields of its timestamp and *)
(* its value.  The replica identifier of a register is the identifier of   *)
(* the map that holds it (map.hh:53, map.hh:102), so Assign takes it as a  *)
(* parameter.                                                              *)
(***************************************************************************)
EXTENDS Timestamp

\* A register constructed by default, given its replica id (which is its uid
\* too) and then assigned for the first time.
FirstAssign(id, v) == [seq |-> 1, uid |-> id, val |-> v]

\* assign(): Timestamp::update() increments the sequence number and makes the
\* assigning replica the uid.
Assign(reg, id, v) == [seq |-> reg.seq + 1, uid |-> id, val |-> v]

\* Mutated merge(): Timestamp::copy leaves the uid out.
RegisterMergeKeepsUid(local, remote) ==
  IF TimestampLess(local, remote) THEN [remote EXCEPT !.uid = local.uid] ELSE local

\* merge(): value, sequence number and uid of the remote register are taken
\* (Timestamp::copy) when the local timestamp is smaller.
RegisterMerge(local, remote) ==
  IF TimestampLess(local, remote) THEN remote ELSE local
=============================================================================
