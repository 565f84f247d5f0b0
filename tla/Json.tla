-------------------------------- MODULE Json --------------------------------
(***************************************************************************)
(* The JSON form of maps (the to_json methods and the constructors from a  *)
(* json::value): what servers and clients send each other, and what menu   *)
(* option 6 compares.                                                      *)
(*                                                                         *)
(* A JSON object with a fixed list of fields is a record here. One that is *)
(* filled in a loop is a record of its kind and its fields: a json::value  *)
(* is null until its first field is assigned, so without any it stays      *)
(* null.  The field names that are numbers (replica identifiers) go        *)
(* through stoull, which is exact for them.                                *)
(***************************************************************************)
EXTENDS CRDTMap, FiniteSets

CONSTANTS
  IntLimit,   \* 2^31: as_integer() narrows to an int32_t
  WordRange   \* 2^64: the fields of Timestamp are uint64_t

ASSUME JsonAssumption ==
  /\ IntLimit \in Nat \ {0}
  /\ WordRange \in Nat /\ WordRange >= 2 * IntLimit
  /\ \A r \in Replica : r < IntLimit    \* main() reads them as int32_t

JsonMap(fields) ==
  [kind |-> IF DOMAIN fields = {} THEN "null" ELSE "object", fields |-> fields]

\* json::value::as_integer(), assigned to a uint64_t: the low bits, with the sign
\* extended.
AsInteger(n) ==
  LET low == n % (2 * IntLimit)
  IN IF low < IntLimit THEN low ELSE low + (WordRange - 2 * IntLimit)

-----------------------------------------------------------------------------
\* Timestamp

TimestampToJson(seq, uid, id) == [sequence_number |-> seq, uid |-> uid, replica_id |-> id]

\* LWWRegister

RegisterToJson(reg, id) ==
  [timestamp |-> TimestampToJson(reg.seq, reg.uid, id), value |-> reg.val]

RegisterFromJson(j) ==
  [seq |-> AsInteger(j.timestamp.sequence_number),
   uid |-> AsInteger(j.timestamp.uid),
   val |-> j.value]

-----------------------------------------------------------------------------
\* ORSet: an object of timestamps has a field for each entry of the inner map.

TagsToJson(tags) ==
  JsonMap([r \in {i \in Replica : tags[i] # Unseen} |-> TimestampToJson(tags[r], r, r)])

\* Mutated: what has no entry is read as 0, the version of a new replica.
TagsFromJsonOrZero(j) ==
  [r \in Replica |->
     IF r \in DOMAIN j.fields THEN AsInteger(j.fields[r].sequence_number) ELSE 0]

TagsFromJson(j) ==
  [r \in Replica |->
     IF r \in DOMAIN j.fields THEN AsInteger(j.fields[r].sequence_number) ELSE Unseen]

SetToJson(set, id) ==
  [elements   |-> JsonMap([e \in Contents(set) |-> TagsToJson(set.elements[e])]),
   versions   |-> TagsToJson(set.versions),
   replica_id |-> id]

\* The constructor enters an element when it enters its first timestamp.
SetFromJson(j) ==
  [elements |-> [e \in {x \in DOMAIN j.elements.fields :
                          DOMAIN j.elements.fields[x].fields # {}}
                   |-> TagsFromJson(j.elements.fields[e])],
   versions |-> TagsFromJson(j.versions)]

-----------------------------------------------------------------------------
\* Map

MapToJson(map, id) ==
  [keys      |-> SetToJson(map.keys, id),
   registers |-> JsonMap([k \in DOMAIN map.registers |-> RegisterToJson(map.registers[k], id)])]

MapFromJson(j) ==
  [keys      |-> SetFromJson(j.keys),
   registers |-> [k \in DOMAIN j.registers.fields |-> RegisterFromJson(j.registers.fields[k])]]

\* The constructors accept j: they take the fields of every object of timestamps,
\* and as_object() throws for a null.
Parses(j) ==
  /\ j.keys.versions.kind = "object"
  /\ \A e \in DOMAIN j.keys.elements.fields : j.keys.elements.fields[e].kind = "object"

\* All sequence numbers of a map fit an int32_t.
SeqsFit(map) ==
  /\ \A r \in Replica : map.keys.versions[r] < IntLimit
  /\ \A k \in Contents(map.keys), r \in Replica : map.keys.elements[k][r] < IntLimit
  /\ \A k \in DOMAIN map.registers : map.registers[k].seq < IntLimit

-----------------------------------------------------------------------------
\* RequestUtilities (utility/request_utilities.cpp)

\* compareJSONObjects
CompareJSONObjects(fields1, fields2) ==
  /\ Cardinality(DOMAIN fields1) = Cardinality(DOMAIN fields2)
  /\ \A key \in DOMAIN fields1 : key \in DOMAIN fields2 /\ fields1[key] = fields2[key]

\* Mutated: only the timestamps of the registers.
CompareTimestamps(json1, json2) ==
  LET stamps(registers) ==
        [k \in DOMAIN registers.fields |->
           <<registers.fields[k].timestamp.sequence_number,
             registers.fields[k].timestamp.uid>>]
  IN /\ json1.registers.kind = "object"
     /\ json2.registers.kind = "object"
     /\ CompareJSONObjects(stamps(json1.registers), stamps(json2.registers))

\* compareRegisters: only the registers of two maps, and of a timestamp not whose
\* map it is in.
CompareRegisters(json1, json2) ==
  LET filtered(registers) ==
        [k \in DOMAIN registers.fields |->
           <<registers.fields[k].timestamp.sequence_number,
             registers.fields[k].timestamp.uid, registers.fields[k].value>>]
  IN /\ json1.registers.kind = "object"
     /\ json2.registers.kind = "object"
     /\ CompareJSONObjects(filtered(json1.registers), filtered(json2.registers))
=============================================================================
