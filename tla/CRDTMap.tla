------------------------------- MODULE CRDTMap -------------------------------
(***************************************************************************)
(* statebased/map.hh: the convergent map.  Its keys are an ORSet ("add     *)
(* wins"), the value of each key is an LWWRegister ("last writer wins").   *)
(*                                                                         *)
(* A map is a record with the fields keys (_keys) and registers            *)
(* (_registers, a function whose domain is the keys that have a register). *)
(* The replica identifier of a map never changes; the operators that use   *)
(* it take it as the parameter id.                                         *)
(***************************************************************************)
EXTENDS ORSet, LWWRegister

CONSTANT Value    \* the values a key can be put with

Register == [seq : Nat, uid : Replica, val : Value]

\* The type of a map.
IsMap(map) ==
  /\ map = [keys |-> map.keys, registers |-> map.registers]
  /\ IsSet(map.keys)
  /\ DOMAIN map.registers \subseteq Key
  /\ map.registers \in [DOMAIN map.registers -> Register]

\* Map(replica_id): no keys, hence no registers.
NewMap(id) == [keys |-> NewSet(id), registers |-> [k \in {} |-> {}]]

\* contains(), get(): reads go through the key set.
Contains(map, k) == k \in Contents(map.keys)

\* put(): the key is added again even if it is present; a key without a
\* register gets a new one, whose sequence number starts over.
MapPut(map, id, k, v) ==
  [keys      |-> Add(map.keys, id, k),
   registers |-> [x \in DOMAIN map.registers \cup {k} |->
                    IF x # k THEN map.registers[x]
                    ELSE IF k \in DOMAIN map.registers
                         THEN Assign(map.registers[k], id, v)
                         ELSE FirstAssign(id, v)]]

\* remove(): the key and its register are erased.
MapRemove(map, k) ==
  [keys      |-> Remove(map.keys, k),
   registers |-> [x \in DOMAIN map.registers \ {k} |-> map.registers[x]]]

\* The second branch of the register loop: a register for a key that has none
\* here is created, assigned the remote value (which stamps it as a first
\* write of this replica) and only then merged with the remote register.
Adopt(id, remote_register) ==
  RegisterMerge(FirstAssign(id, remote_register.val), remote_register)

\* Mutated merge(): the registers of removed keys stay.
MapMergeKeepsRegisters(map, id, remote) ==
  LET merged  == Merge(map.keys, remote.keys)
      adopted == (DOMAIN remote.registers \ DOMAIN map.registers) \cap Contents(merged)
  IN [keys |-> merged,
      registers |-> [k \in DOMAIN map.registers \cup adopted |->
                       IF k \in adopted THEN Adopt(id, remote.registers[k])
                       ELSE map.registers[k]]]

\* merge(): the key sets are merged, the registers of the keys this removes
\* are erased, and the remote registers of the remaining keys are merged in.
MapMerge(map, id, remote) ==
  LET merged  == Merge(map.keys, remote.keys)
      kept    == DOMAIN map.registers \ (Contents(map.keys) \ Contents(merged))
      adopted == (DOMAIN remote.registers \ kept) \cap Contents(merged)
      register(k) ==
        IF k \in adopted THEN Adopt(id, remote.registers[k])
        ELSE IF k \in DOMAIN remote.registers
             THEN RegisterMerge(map.registers[k], remote.registers[k])
             ELSE map.registers[k]
  IN [keys |-> merged, registers |-> [k \in kept \cup adopted |-> register(k)]]
=============================================================================
