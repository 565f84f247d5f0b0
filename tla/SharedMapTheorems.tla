-------------------------- MODULE SharedMapTheorems --------------------------
(***************************************************************************)
(* What overlapping handlers can and cannot do to the map they share, for  *)
(* every set of clients and keys and any number of puts and removals.      *)
(***************************************************************************)
EXTENDS SharedMap, CRDTMapTheorems

\* What the steps of merge() and to_json() keep true of the parts of a map, in
\* whatever order they interleave: the tags of a key are additions of that key; no
\* version is ahead of the client's own.
SoundElements(elements, additions) ==
  /\ DOMAIN elements \subseteq Key
  /\ elements \in [DOMAIN elements -> Versions]
  /\ \A k \in DOMAIN elements, r \in Replica :
       elements[k][r] # Unseen => <<r, elements[k][r]>> \in additions[k]

SoundVersions(versions, clients) ==
  /\ versions \in Versions
  /\ \A c \in Client : versions[c] <= clients[c].keys.versions[c]

SoundRegisters(registers) ==
  DOMAIN registers \subseteq Key /\ registers \in [DOMAIN registers -> Register]

AMap(elements, versions, registers) ==
  [keys |-> [elements |-> elements, versions |-> versions], registers |-> registers]

Sound(map, clients, additions) ==
  /\ map = AMap(map.keys.elements, map.keys.versions, map.registers)
  /\ SoundElements(map.keys.elements, additions)
  /\ SoundVersions(map.keys.versions, clients)
  /\ SoundRegisters(map.registers)

\* Where the handler that works for c can be.
Flow(c) ==
  /\ request[c] = "none" => pc[c] = "ready"
  /\ request[c] = "client" => pc[c] \in MergeSteps \cup ToJsonSteps
  /\ request[c] = "replica" => pc[c] \in MergeSteps \cup {"ready"}
  /\ request[c] = "reply" => pc[c] \in ToJsonSteps

Control ==
  /\ cmap = [c \in Client |-> cmap[c]] /\ arg = [c \in Client |-> arg[c]]
  /\ json = [c \in Client |-> json[c]] /\ keys_copy = [c \in Client |-> keys_copy[c]]
  /\ todo = [c \in Client |-> todo[c]] /\ entry = [c \in Client |-> entry[c]]
  /\ version = [c \in Client |-> version[c]]
  /\ request \in [Client -> {"none", "client", "replica", "reply"}]
  /\ pc \in [Client -> MergeSteps \cup ToJsonSteps \cup {"ready"}]
  /\ overlapped \in BOOLEAN
  /\ puts \in [Client -> Nat] /\ \A c \in Client : puts[c] <= MaxPuts[c]
  /\ added \in [Key -> SUBSET (Client \X Nat)] /\ purged = [k \in Key |-> purged[k]]
  /\ \A c \in Client : Flow(c)

MapsSound ==
  /\ Sound(m, cmap, added) /\ Sound(peer, cmap, added)
  /\ \A c \in Client : /\ Sound(cmap[c], cmap, added) /\ cmap[c].keys.versions[c] >= 0
                       /\ Sound(arg[c], cmap, added) /\ Sound(json[c], cmap, added)

\* The entries a loop is at and has still to come to are entries of the remote map;
\* a version that has been read and not yet written is not ahead of its client's own.
LoopSound(c) ==
  /\ pc[c] \in {"versions", "write_version"} => todo[c] \subseteq Replica
  /\ pc[c] = "write_version" =>
       /\ entry[c] \in Replica /\ version[c] \in Nat \cup {Unseen}
       /\ entry[c] \in Client => version[c] <= cmap[entry[c]].keys.versions[entry[c]]
  /\ pc[c] \in {"registers", "compare", "write_value", "write_timestamp"} =>
       todo[c] \subseteq DOMAIN arg[c].registers
  /\ pc[c] \in {"compare", "write_value", "write_timestamp"} =>
       entry[c] \in DOMAIN arg[c].registers

Inv == Control /\ MapsSound /\ \A c \in Client : LoopSound(c)

\* The steps on handler::m that write it, and those that do not.
Writing(c) ==
  \/ RemotelyRemoved(c) \/ RemotelyAdded(c) \/ WriteVersion(c) \/ RegistersErased(c)
  \/ CreateRegister(c) \/ WriteValue(c) \/ WriteTimestamp(c)

Reading(c) ==
  \/ CopyKeys(c) \/ ReadVersion(c) \/ FindRegister(c) \/ PassRegister(c) \/ KeepRegister(c)
  \/ ReplaceRegister(c)

LEMMA MergeStepCases ==
  ASSUME NEW c \in Client, MergeStep(c)
  PROVE  /\ Writing(c) \/ (Reading(c) /\ m' = m)
         /\ UNCHANGED <<cmap, peer, request, arg, json, delivered, history>>
         /\ \E from, to : Step(c, from, to)
<1>1. Writing(c) \/ Reading(c)
  BY DEF MergeStep, Writing, Reading
<1>2. Reading(c) => m' = m
  BY DEF Reading, CopyKeys, ReadVersion, FindRegister, PassRegister, KeepRegister, ReplaceRegister
<1>3. UNCHANGED <<cmap, peer, request, arg, json, delivered, history>>
  BY DEF MergeStep, CopyKeys, RemotelyRemoved, RemotelyAdded, ReadVersion, WriteVersion,
         RegistersErased, CreateRegister, FindRegister, PassRegister, KeepRegister,
         ReplaceRegister, WriteValue, WriteTimestamp
<1>4. \E from, to : Step(c, from, to)
  BY DEF MergeStep, CopyKeys, RemotelyRemoved, RemotelyAdded, ReadVersion, WriteVersion,
         RegistersErased, CreateRegister, FindRegister, PassRegister, KeepRegister,
         ReplaceRegister, WriteValue, WriteTimestamp, RegistersLeft
<1> QED BY <1>1, <1>2, <1>3, <1>4

-----------------------------------------------------------------------------
LEMMA Identifiers ==
  /\ Client \subseteq Replica /\ Here \in Replica /\ Peer \in Replica
  /\ \A c \in Client, n \in Nat : 1 <= n /\ n <= MaxPuts[c] => <<c, n>> \in Value
<1>1. Client \subseteq Replica /\ Here \in Replica /\ Peer \in Replica
  BY SharedMapAssumption
<1>2. ASSUME NEW c \in Client, NEW n \in Nat, 1 <= n, n <= MaxPuts[c]
      PROVE  <<c, n>> \in Value
  <2>1. MaxPuts[c] \in Nat
    BY SharedMapAssumption
  <2>2. n \in 1..MaxPuts[c]
    BY <1>2, <2>1
  <2>3. <<c, n>> \in {c} \X (1..MaxPuts[c])
    BY <2>2
  <2> QED BY <2>3, SharedMapAssumption
<1> QED BY <1>1, <1>2

LEMMA SoundIs ==
  ASSUME NEW map, NEW clients, NEW additions
  PROVE  Sound(map, clients, additions) <=>
           /\ IsMap(map) /\ Genuine(map, additions)
           /\ \A c \in Client : map.keys.versions[c] <= clients[c].keys.versions[c]
BY DEF Sound, SoundElements, SoundVersions, SoundRegisters, AMap, IsMap, IsSet, Genuine,
       Contents

LEMMA SoundVersionsType ==
  ASSUME NEW map, NEW clients, NEW additions, Sound(map, clients, additions), NEW r \in Replica
  PROVE  map.keys.versions[r] \in Int /\ map.keys.versions[r] >= -1
BY VersionsType DEF Sound, SoundVersions

\* Assigning to one part of a map.
LEMMA AssignParts ==
  ASSUME NEW map, map = AMap(map.keys.elements, map.keys.versions, map.registers), NEW x
  PROVE  /\ [map EXCEPT !.keys.elements = x] = AMap(x, map.keys.versions, map.registers)
         /\ [map EXCEPT !.keys.versions = x] = AMap(map.keys.elements, x, map.registers)
         /\ [map EXCEPT !.registers = x] = AMap(map.keys.elements, map.keys.versions, x)
<1> DEFINE e == map.keys.elements
           v == map.keys.versions
           r == map.registers
           same == AMap(e, v, r)
<1>1. /\ [same EXCEPT !.keys.elements = x] = AMap(x, v, r)
      /\ [same EXCEPT !.keys.versions = x] = AMap(e, x, r)
      /\ [same EXCEPT !.registers = x] = AMap(e, v, x)
  <2> HIDE DEF e, v, r
  <2> QED BY DEF AMap
<1>2. map = same
  OBVIOUS
<1> HIDE DEF same, e, v, r
<1>3. /\ [map EXCEPT !.keys.elements = x] = AMap(x, v, r)
      /\ [map EXCEPT !.keys.versions = x] = AMap(e, x, r)
      /\ [map EXCEPT !.registers = x] = AMap(e, v, x)
  BY <1>1, <1>2, Zenon
<1> QED BY <1>3 DEF e, v, r

\* Assigning to an entry of a part.
LEMMA AssignEntry ==
  ASSUME NEW map, NEW i, NEW x
  PROVE  /\ [map EXCEPT !.keys.versions[i] = x]
              = [map EXCEPT !.keys.versions = [map.keys.versions EXCEPT ![i] = x]]
         /\ [map EXCEPT !.registers[i] = x]
              = [map EXCEPT !.registers = [map.registers EXCEPT ![i] = x]]
OBVIOUS

\* A sound map stays one when a sound part is assigned to it.
LEMMA PartSound ==
  ASSUME NEW map, NEW clients, NEW additions, Sound(map, clients, additions), NEW x
  PROVE  /\ SoundElements(x, additions)
              => Sound([map EXCEPT !.keys.elements = x], clients, additions)
         /\ SoundVersions(x, clients)
              => Sound([map EXCEPT !.keys.versions = x], clients, additions)
         /\ SoundRegisters(x)
              => Sound([map EXCEPT !.registers = x], clients, additions)
<1>1. ASSUME NEW e, NEW v, NEW r,
             SoundElements(e, additions), SoundVersions(v, clients), SoundRegisters(r)
      PROVE  Sound(AMap(e, v, r), clients, additions)
  BY <1>1 DEF Sound, AMap
<1>2. /\ map = AMap(map.keys.elements, map.keys.versions, map.registers)
      /\ SoundElements(map.keys.elements, additions)
      /\ SoundVersions(map.keys.versions, clients)
      /\ SoundRegisters(map.registers)
  BY DEF Sound
<1>3. /\ [map EXCEPT !.keys.elements = x] = AMap(x, map.keys.versions, map.registers)
      /\ [map EXCEPT !.keys.versions = x] = AMap(map.keys.elements, x, map.registers)
      /\ [map EXCEPT !.registers = x] = AMap(map.keys.elements, map.keys.versions, x)
  BY <1>2, AssignParts
<1> QED BY <1>1, <1>2, <1>3

\* A sound map stays one when clients advance and more additions are made.
LEMMA SoundStays ==
  ASSUME NEW map, NEW clients, NEW clients2, NEW additions, NEW additions2,
         \A c \in Client : /\ clients[c].keys.versions[c] \in Int
                           /\ clients2[c].keys.versions[c] \in Int
                           /\ clients[c].keys.versions[c] <= clients2[c].keys.versions[c],
         \A k \in Key : additions[k] \subseteq additions2[k],
         Sound(map, clients, additions)
  PROVE  Sound(map, clients2, additions2)
<1>1. SoundElements(map.keys.elements, additions2)
  BY DEF Sound, SoundElements
<1>2. ASSUME NEW c \in Client PROVE map.keys.versions[c] <= clients2[c].keys.versions[c]
  <2>1. map.keys.versions[c] \in Int /\ map.keys.versions[c] <= clients[c].keys.versions[c]
    BY Identifiers, SoundVersionsType DEF Sound, SoundVersions
  <2> QED BY <2>1
<1> QED BY <1>1, <1>2 DEF Sound, SoundVersions

LEMMA NewMapSound ==
  ASSUME NEW id \in Replica, NEW clients, NEW additions,
         \A c \in Client : clients[c].keys.versions[c] \in Int /\ clients[c].keys.versions[c] >= 0
  PROVE  Sound(NewMap(id), clients, additions)
<1>1. IsMap(NewMap(id))
  BY NewMapWellFormed DEF WellFormed
<1>2. Genuine(NewMap(id), additions)
  BY NewSetType DEF NewMap, Genuine
<1>3. ASSUME NEW c \in Client PROVE NewMap(id).keys.versions[c] <= clients[c].keys.versions[c]
  <2>1. c \in Replica
    BY Identifiers
  <2>2. NewMap(id).keys.versions[c] \in {0, -1}
    BY <2>1 DEF NewMap, NewSet, NoTags, Unseen
  <2> QED BY <2>2
<1> QED BY <1>1, <1>2, <1>3, SoundIs

LEMMA MergeSound ==
  ASSUME NEW map, NEW remote, NEW id \in Replica, NEW clients, NEW additions,
         Sound(map, clients, additions), Sound(remote, clients, additions)
  PROVE  Sound(MapMerge(map, id, remote), clients, additions)
<1>1. /\ IsMap(map) /\ Genuine(map, additions)
      /\ IsMap(remote) /\ Genuine(remote, additions)
  BY SoundIs
<1>2. IsMap(MapMerge(map, id, remote)) /\ Genuine(MapMerge(map, id, remote), additions)
  BY <1>1, MapMergeType, MergeGenuine
<1>3. ASSUME NEW c \in Client
      PROVE  MapMerge(map, id, remote).keys.versions[c] <= clients[c].keys.versions[c]
  <2>1. MapMerge(map, id, remote).keys.versions[c]
          \in {map.keys.versions[c], remote.keys.versions[c]}
    BY <1>1, Identifiers, MapMergeType, MergeType DEF IsMap
  <2> QED BY <2>1 DEF Sound, SoundVersions
<1> QED BY <1>2, <1>3, SoundIs

-----------------------------------------------------------------------------
\* The loops of merge().
LEMMA RemovesSound ==
  ASSUME NEW local, IsSet(local), NEW remote, NEW additions,
         SoundElements(local.elements, additions)
  PROVE  SoundElements(ApplyRemoteRemoves(local, remote), additions)
BY ApplyRemoteRemovesType DEF SoundElements, Contents

LEMMA AddsSound ==
  ASSUME NEW elements, NEW versions \in Versions, NEW remote, IsSet(remote), NEW additions,
         SoundElements(elements, additions), SoundElements(remote.elements, additions)
  PROVE  SoundElements(ApplyRemoteAdds(elements, versions, remote), additions)
<1> DEFINE applied == ApplyRemoteAdds(elements, versions, remote)
<1>1. /\ DOMAIN applied \subseteq Key
      /\ applied \in [DOMAIN applied -> Versions]
      /\ DOMAIN applied \subseteq DOMAIN elements \cup Contents(remote)
      /\ \A e \in DOMAIN applied, r \in Replica :
           \/ e \in DOMAIN elements /\ applied[e][r] = elements[e][r]
           \/ e \in Contents(remote) /\ applied[e][r] = remote.elements[e][r]
  BY ApplyRemoteAddsType DEF SoundElements
<1> HIDE DEF applied
<1>2. ASSUME NEW e \in DOMAIN applied, NEW r \in Replica, applied[e][r] # Unseen
      PROVE  <<r, applied[e][r]>> \in additions[e]
  BY <1>1, <1>2 DEF SoundElements, Contents
<1> QED BY <1>1, <1>2 DEF SoundElements, applied

LEMMA VersionSound ==
  ASSUME NEW v, NEW clients, SoundVersions(v, clients), NEW r \in Replica,
         NEW n \in Nat \cup {Unseen}, r \in Client => n <= clients[r].keys.versions[r]
  PROVE  SoundVersions([v EXCEPT ![r] = n], clients)
BY DEF SoundVersions, Versions

LEMMA RegisterSound ==
  ASSUME NEW registers, SoundRegisters(registers), NEW k \in Key, NEW reg \in Register
  PROVE  SoundRegisters([x \in DOMAIN registers \cup {k} |-> IF x = k THEN reg ELSE registers[x]])
BY DEF SoundRegisters

-----------------------------------------------------------------------------
LEMMA ControlInit == Init => Control
<1> SUFFICES ASSUME Init PROVE Control
  OBVIOUS
<1>1. puts \in [Client -> Nat] /\ \A c \in Client : puts[c] <= MaxPuts[c]
  BY SharedMapAssumption DEF Init
<1>2. request \in [Client -> {"none", "client", "replica", "reply"}]
  BY DEF Init
<1>3. pc \in [Client -> MergeSteps \cup ToJsonSteps \cup {"ready"}]
  BY DEF Init
<1>4. \A c \in Client : Flow(c)
  BY DEF Init, Flow
<1>5. added \in [Key -> SUBSET (Client \X Nat)] /\ purged = [k \in Key |-> purged[k]]
  BY DEF Init
<1>6. /\ cmap = [c \in Client |-> cmap[c]] /\ arg = [c \in Client |-> arg[c]]
      /\ json = [c \in Client |-> json[c]] /\ keys_copy = [c \in Client |-> keys_copy[c]]
      /\ todo = [c \in Client |-> todo[c]] /\ entry = [c \in Client |-> entry[c]]
      /\ version = [c \in Client |-> version[c]]
  BY DEF Init
<1> QED BY <1>1, <1>2, <1>3, <1>4, <1>5, <1>6 DEF Init, Control

LEMMA ControlStep == Inv /\ [Next]_vars => Control'
<1> SUFFICES ASSUME Control, MapsSound, [Next]_vars PROVE Control'
  BY DEF Inv
<1> USE DEF MergeSteps, ToJsonSteps
<1>1. ASSUME NEW c \in Client, NEW k \in Key, Put(c, k) PROVE Control'
  <2>1. cmap[c].keys.versions[c] + 1 \in Nat
    <3>1. c \in Replica /\ Sound(cmap[c], cmap, added)
      BY Identifiers DEF MapsSound
    <3>2. cmap[c].keys.versions[c] \in Int /\ cmap[c].keys.versions[c] >= -1
      BY <3>1, SoundVersionsType
    <3> QED BY <3>2
  <2> DEFINE n == cmap[c].keys.versions[c] + 1
  <2> HIDE DEF n
  <2>2. added' \in [Key -> SUBSET (Client \X Nat)]
    <3>1. n \in Nat /\ added' = [added EXCEPT ![k] = added[k] \cup {<<c, n>>}]
      BY <1>1, <2>1 DEF Put, n
    <3>2. added \in [Key -> SUBSET (Client \X Nat)] /\ <<c, n>> \in Client \X Nat
      BY <3>1 DEF Control
    <3>3. added[k] \cup {<<c, n>>} \in SUBSET (Client \X Nat)
      BY <3>2
    <3> QED BY <3>1, <3>2, <3>3
  <2>3. puts' \in [Client -> Nat] /\ \A d \in Client : puts'[d] <= MaxPuts[d]
    <3>1. /\ MaxPuts[c] \in Nat /\ puts[c] < MaxPuts[c] /\ puts \in [Client -> Nat]
          /\ puts' = [puts EXCEPT ![c] = puts[c] + 1]
          /\ \A d \in Client : puts[d] <= MaxPuts[d]
      BY <1>1, SharedMapAssumption DEF Put, Control
    <3> QED BY <3>1
  <2> QED BY <1>1, <2>2, <2>3 DEF Put, Control, Flow, handler, loop
<1>2. ASSUME NEW c \in Client, NEW k \in Key, RemoveKey(c, k) PROVE Control'
  BY <1>2 DEF RemoveKey, Control, Flow, handler, loop
<1>3. ASSUME NEW c \in Client, Post(c) PROVE Control'
  BY <1>3 DEF Post, Control, Flow, history, loop
<1>4. ASSUME NEW c \in Client, CopyKeys(c) PROVE Control'
  BY <1>4 DEF CopyKeys, Step, Control, Flow, history, loop
<1>5. ASSUME NEW c \in Client, RemotelyRemoved(c) PROVE Control'
  BY <1>5 DEF RemotelyRemoved, Step, Control, Flow, history, loop
<1>6. ASSUME NEW c \in Client, RemotelyAdded(c) PROVE Control'
  BY <1>6 DEF RemotelyAdded, Step, Control, Flow, history
<1>7. ASSUME NEW c \in Client, ReadVersion(c) PROVE Control'
  BY <1>7 DEF ReadVersion, Step, Control, Flow, history
<1>18. ASSUME NEW c \in Client, WriteVersion(c) PROVE Control'
  BY <1>18 DEF WriteVersion, Step, Control, Flow, history
<1>8. ASSUME NEW c \in Client, RegistersErased(c) \/ PassRegister(c) \/ KeepRegister(c)
                              \/ WriteTimestamp(c)
      PROVE  Control'
  <2>1. PICK from \in {"erase", "registers", "compare", "write_timestamp"} :
          \E left : RegistersLeft(c, from, left)
    BY <1>8 DEF RegistersErased, PassRegister, KeepRegister, WriteTimestamp
  <2>2. /\ UNCHANGED <<cmap, request, arg, keys_copy, json, puts, added, purged, version>>
        /\ entry' = [d \in Client |-> entry'[d]]
    BY <1>8 DEF RegistersErased, PassRegister, KeepRegister, WriteTimestamp, history, Control
  <2> QED BY <2>1, <2>2 DEF RegistersLeft, Step, Control, Flow
<1>9. ASSUME NEW c \in Client, CreateRegister(c) PROVE Control'
  BY <1>9 DEF CreateRegister, Step, Control, Flow, history
<1>19. ASSUME NEW c \in Client, FindRegister(c) PROVE Control'
  BY <1>19 DEF FindRegister, Step, Control, Flow, history
<1>17. ASSUME NEW c \in Client, ReplaceRegister(c) \/ WriteValue(c) PROVE Control'
  BY <1>17 DEF ReplaceRegister, WriteValue, Step, Control, Flow, history, loop
<1>10. ASSUME NEW c \in Client, WriteElements(c) PROVE Control'
  BY <1>10 DEF WriteElements, Step, Control, Flow, history, loop
<1>11. ASSUME NEW c \in Client, WriteVersions(c) PROVE Control'
  BY <1>11 DEF WriteVersions, Step, Control, Flow, history, loop
<1>12. ASSUME NEW c \in Client, Broadcast(c) PROVE Control'
  BY <1>12 DEF Broadcast, Step, Control, Flow, history, loop
<1>13. ASSUME NEW c \in Client, Reply(c) PROVE Control'
  BY <1>13 DEF Reply, Step, Control, Flow, history, loop
<1>14. ASSUME NEW c \in Client, Deliver(c) PROVE Control'
  BY <1>14 DEF Deliver, Control, Flow, history, loop
<1>15. ASSUME NEW c \in Client, Answered(c) PROVE Control'
  BY <1>15 DEF Answered, Control, Flow, history, loop
<1>16. CASE UNCHANGED vars
  BY <1>16 DEF vars, handler, loop, history, Control, Flow
<1> QED BY <1>1, <1>2, <1>3, <1>4, <1>5, <1>6, <1>7, <1>8, <1>9, <1>10, <1>11, <1>12,
           <1>13, <1>14, <1>15, <1>16, <1>17, <1>18, <1>19 DEF Next, ClientStep, MergeStep, ToJsonStep

-----------------------------------------------------------------------------
\* What each step makes of the maps is sound if they were.

LEMMA HandlersMapSound ==
  ASSUME Inv, [Next]_vars
  PROVE  Sound(m', cmap, added)
<1>1. /\ m = AMap(m.keys.elements, m.keys.versions, m.registers)
      /\ SoundElements(m.keys.elements, added) /\ SoundVersions(m.keys.versions, cmap)
      /\ SoundRegisters(m.registers) /\ IsSet(m.keys) /\ Sound(m, cmap, added)
  BY SoundIs DEF Inv, MapsSound, Sound, IsMap
<1>2. ASSUME NEW c \in Client
      PROVE  /\ SoundElements(arg[c].keys.elements, added)
             /\ SoundVersions(arg[c].keys.versions, cmap)
             /\ SoundRegisters(arg[c].registers) /\ IsSet(arg[c].keys)
  BY SoundIs DEF Inv, MapsSound, Sound, IsMap
<1>3. ASSUME NEW c \in Client, RemotelyRemoved(c) PROVE Sound(m', cmap, added)
  <2>1. m' = [m EXCEPT !.keys.elements = ApplyRemoteRemoves(m.keys, arg[c].keys)]
    BY <1>3 DEF RemotelyRemoved
  <2>2. SoundElements(ApplyRemoteRemoves(m.keys, arg[c].keys), added)
    BY <1>1, RemovesSound
  <2> QED BY <1>1, <2>1, <2>2, PartSound
<1>4. ASSUME NEW c \in Client, RemotelyAdded(c) PROVE Sound(m', cmap, added)
  <2>1. m' = [m EXCEPT !.keys.elements =
                ApplyRemoteAdds(m.keys.elements, m.keys.versions, arg[c].keys)]
    BY <1>4 DEF RemotelyAdded
  <2>2. SoundElements(ApplyRemoteAdds(m.keys.elements, m.keys.versions, arg[c].keys), added)
    BY <1>1, <1>2, AddsSound DEF SoundVersions
  <2> QED BY <1>1, <2>1, <2>2, PartSound
<1>5. ASSUME NEW c \in Client, WriteVersion(c) PROVE Sound(m', cmap, added)
  <2> DEFINE x == [m.keys.versions EXCEPT ![entry[c]] = version[c]]
  <2>1. m' = [m EXCEPT !.keys.versions = x] /\ pc[c] = "write_version"
    BY <1>5, AssignEntry DEF WriteVersion, Step
  <2>2. /\ entry[c] \in Replica /\ version[c] \in Nat \cup {Unseen}
        /\ entry[c] \in Client => version[c] <= cmap[entry[c]].keys.versions[entry[c]]
    BY <2>1 DEF Inv, LoopSound
  <2>3. SoundVersions(x, cmap)
    BY <1>1, <2>2, VersionSound
  <2> HIDE DEF x
  <2> QED BY <1>1, <2>1, <2>3, PartSound
<1>6. ASSUME NEW c \in Client, RegistersErased(c) PROVE Sound(m', cmap, added)
  <2> DEFINE kept == DOMAIN m.registers \ (keys_copy[c] \ Contents(m.keys))
             left == [k \in kept |-> m.registers[k]]
  <2>1. m' = [m EXCEPT !.registers = left]
    BY <1>6 DEF RegistersErased
  <2>2. SoundRegisters(left)
    BY <1>1 DEF SoundRegisters
  <2> HIDE DEF left
  <2> QED BY <1>1, <2>1, <2>2, PartSound
<1>7. ASSUME NEW c \in Client, CreateRegister(c) PROVE Sound(m', cmap, added)
  <2>1. PICK k \in todo[c] \cap Contents(m.keys) :
          m' = [m EXCEPT !.registers = [x \in DOMAIN m.registers \cup {k} |->
                  IF x = k THEN FirstAssign(Here, arg[c].registers[k].val) ELSE m.registers[x]]]
    BY <1>7 DEF CreateRegister
  <2>2. k \in Key /\ arg[c].registers[k] \in Register
    <3>1. k \in DOMAIN arg[c].registers
      BY <1>7 DEF CreateRegister, Step, Inv, LoopSound
    <3> QED BY <1>2, <3>1 DEF SoundRegisters
  <2>3. FirstAssign(Here, arg[c].registers[k].val) \in Register
    BY <2>2, Identifiers DEF FirstAssign, Register
  <2> DEFINE x == [i \in DOMAIN m.registers \cup {k} |->
                     IF i = k THEN FirstAssign(Here, arg[c].registers[k].val) ELSE m.registers[i]]
  <2>4. SoundRegisters(x)
    BY <1>1, <2>2, <2>3, RegisterSound
  <2>5. m' = [m EXCEPT !.registers = x]
    BY <2>1
  <2> HIDE DEF x
  <2> QED BY <1>1, <2>4, <2>5, PartSound
<1>8. ASSUME NEW c \in Client, WriteValue(c) \/ WriteTimestamp(c) PROVE Sound(m', cmap, added)
  <2> DEFINE k == entry[c]
             remote == arg[c].registers[k]
             local == m.registers[k]
  <2>1. k \in Key /\ remote \in Register
    <3>1. k \in DOMAIN arg[c].registers
      BY <1>8 DEF WriteValue, WriteTimestamp, RegistersLeft, Step, Inv, LoopSound
    <3> QED BY <1>2, <3>1 DEF SoundRegisters
  <2>2. CASE k \notin DOMAIN m.registers
    <3>1. m' = m
      BY <1>8, <2>2 DEF WriteValue, WriteTimestamp
    <3> QED BY <1>1, <3>1
  <2>3. CASE k \in DOMAIN m.registers
    <3>1. PICK reg \in Register : m' = [m EXCEPT !.registers = [m.registers EXCEPT ![k] = reg]]
      <4>1. local \in Register
        BY <1>1, <2>3 DEF SoundRegisters
      <4>2. CASE WriteValue(c)
        <5>1. m' = [m EXCEPT !.registers = [m.registers EXCEPT ![k] = [local EXCEPT !.val = remote.val]]]
          BY <2>3, <4>2, AssignEntry DEF WriteValue
        <5>2. [local EXCEPT !.val = remote.val] \in Register
          BY <2>1, <4>1 DEF Register
        <5> QED BY <5>1, <5>2
      <4>3. CASE WriteTimestamp(c)
        <5>1. m' = [m EXCEPT !.registers = [m.registers EXCEPT ![k] =
                      [local EXCEPT !.seq = remote.seq, !.uid = remote.uid]]]
          BY <2>3, <4>3, AssignEntry DEF WriteTimestamp
        <5>2. [local EXCEPT !.seq = remote.seq, !.uid = remote.uid] \in Register
          BY <2>1, <4>1 DEF Register
        <5> QED BY <5>1, <5>2
      <4> QED BY <1>8, <4>2, <4>3
    <3>2. SoundRegisters([m.registers EXCEPT ![k] = reg])
      BY <1>1, <2>3 DEF SoundRegisters
    <3> HIDE DEF k
    <3> QED BY <1>1, <3>1, <3>2, PartSound
  <2> QED BY <2>2, <2>3
<1>9. m' = m \/ \E c \in Client : Writing(c)
  BY MergeStepCases DEF Next, ClientStep, ToJsonStep, Put, RemoveKey, Post, WriteElements,
         WriteVersions, Broadcast, Reply, Deliver, Answered, vars
<1> QED BY <1>1, <1>3, <1>4, <1>5, <1>6, <1>7, <1>8, <1>9 DEF Writing

LEMMA PeerSound ==
  ASSUME Inv, [Next]_vars
  PROVE  Sound(peer', cmap, added)
<1>1. ASSUME NEW c \in Client, Deliver(c) PROVE Sound(peer', cmap, added)
  BY <1>1, Identifiers, MergeSound DEF Deliver, Inv, MapsSound
<1>2. peer' = peer \/ \E c \in Client : Deliver(c)
  BY MergeStepCases DEF Next, ClientStep, ToJsonStep, Put, RemoveKey, Post, WriteElements,
         WriteVersions, Broadcast, Reply, Answered, vars
<1> QED BY <1>1, <1>2 DEF Inv, MapsSound

LEMMA JsonSound ==
  ASSUME Inv, [Next]_vars, NEW d \in Client
  PROVE  Sound(json'[d], cmap, added) /\ Sound(arg'[d], cmap, added)
<1> DEFINE Goal == Sound(json'[d], cmap, added) /\ Sound(arg'[d], cmap, added)
<1>1. /\ json = [c \in Client |-> json[c]] /\ arg = [c \in Client |-> arg[c]]
      /\ \A c \in Client : /\ Sound(cmap[c], cmap, added) /\ Sound(arg[c], cmap, added)
                           /\ Sound(json[c], cmap, added)
      /\ Sound(m, cmap, added)
  BY DEF Inv, Control, MapsSound
<1>2. /\ SoundElements(m.keys.elements, added) /\ SoundVersions(m.keys.versions, cmap)
      /\ SoundRegisters(m.registers)
  BY <1>1 DEF Sound
<1>3. ASSUME NEW c \in Client
      PROVE  /\ Sound([json[c] EXCEPT !.keys.elements = m.keys.elements], cmap, added)
             /\ Sound([json[c] EXCEPT !.keys.versions = m.keys.versions], cmap, added)
             /\ Sound([json[c] EXCEPT !.registers = m.registers], cmap, added)
  BY <1>1, <1>2, PartSound
<1>4. ASSUME NEW c \in Client, Post(c) PROVE Goal
  BY <1>1, <1>4 DEF Post
<1>5. ASSUME NEW c \in Client, WriteElements(c) PROVE Goal
  <2>1. json' = [json EXCEPT ![c] = [json[c] EXCEPT !.keys.elements = m.keys.elements]] /\ arg' = arg
    BY <1>5 DEF WriteElements
  <2> QED BY <1>1, <1>3, <2>1
<1>6. ASSUME NEW c \in Client, WriteVersions(c) PROVE Goal
  <2>1. json' = [json EXCEPT ![c] = [json[c] EXCEPT !.keys.versions = m.keys.versions]] /\ arg' = arg
    BY <1>6 DEF WriteVersions
  <2> QED BY <1>1, <1>3, <2>1
<1>7. ASSUME NEW c \in Client, Broadcast(c) PROVE Goal
  <2> DEFINE map == [json[c] EXCEPT !.registers = m.registers]
  <2>1. json' = [json EXCEPT ![c] = map] /\ arg' = [arg EXCEPT ![c] = map]
    BY <1>7 DEF Broadcast
  <2>2. Sound(map, cmap, added)
    BY <1>3
  <2> HIDE DEF map
  <2> QED BY <1>1, <2>1, <2>2
<1>8. ASSUME NEW c \in Client, Reply(c) PROVE Goal
  <2>1. Sound(NewMap(c), cmap, added)
    <3>1. ASSUME NEW b \in Client
          PROVE  cmap[b].keys.versions[b] \in Int /\ cmap[b].keys.versions[b] >= 0
      BY <1>1, Identifiers, SoundVersionsType DEF Inv, MapsSound
    <3> QED BY <3>1, Identifiers, NewMapSound
  <2> QED BY <1>1, <1>8, <2>1 DEF Reply
<1>9. \/ json' = json /\ arg' = arg
      \/ \E c \in Client : \/ Post(c) \/ WriteElements(c) \/ WriteVersions(c)
                           \/ Broadcast(c) \/ Reply(c)
  BY MergeStepCases DEF Next, ClientStep, ToJsonStep, Put, RemoveKey, Deliver, Answered, vars,
         handler
<1> QED BY <1>1, <1>4, <1>5, <1>6, <1>7, <1>8, <1>9

\* Clients advance, and additions are never forgotten.
LEMMA PutVersions ==
  ASSUME NEW map, IsMap(map), NEW id \in Replica, NEW k, NEW v
  PROVE  MapPut(map, id, k, v).keys.versions
           = [map.keys.versions EXCEPT ![id] = map.keys.versions[id] + 1]
BY DEF MapPut, Add

LEMMA ClientsAdvance ==
  ASSUME Inv, [Next]_vars
  PROVE  /\ \A d \in Client : /\ cmap[d].keys.versions[d] \in Int
                             /\ cmap'[d].keys.versions[d] \in Int
                             /\ 0 <= cmap[d].keys.versions[d]
                             /\ cmap[d].keys.versions[d] <= cmap'[d].keys.versions[d]
         /\ \A k \in Key : added[k] \subseteq added'[k]
<1>1. /\ cmap = [d \in Client |-> cmap[d]] /\ added \in [Key -> SUBSET (Client \X Nat)]
      /\ \A d \in Client : /\ d \in Replica /\ IsMap(cmap[d]) /\ IsMap(json[d])
                           /\ cmap[d].keys.versions[d] \in Int
                           /\ 0 <= cmap[d].keys.versions[d]
  <2>1. ASSUME NEW d \in Client
        PROVE  /\ d \in Replica /\ IsMap(cmap[d]) /\ IsMap(json[d])
               /\ cmap[d].keys.versions[d] \in Int /\ 0 <= cmap[d].keys.versions[d]
    <3>1. d \in Replica /\ Sound(cmap[d], cmap, added) /\ Sound(json[d], cmap, added)
      BY Identifiers DEF Inv, MapsSound
    <3>2. IsMap(cmap[d]) /\ IsMap(json[d]) /\ cmap[d].keys.versions[d] \in Int
      BY <3>1, SoundIs, SoundVersionsType
    <3> QED BY <3>1, <3>2 DEF Inv, MapsSound
  <2> QED BY <2>1 DEF Inv, Control
<1> DEFINE Goal == /\ \A d \in Client : /\ cmap'[d].keys.versions[d] \in Int
                                       /\ cmap[d].keys.versions[d] <= cmap'[d].keys.versions[d]
                   /\ \A k \in Key : added[k] \subseteq added'[k]
<1>2. ASSUME NEW c \in Client, cmap'[c].keys.versions[c] \in Int,
             cmap[c].keys.versions[c] <= cmap'[c].keys.versions[c],
             \A d \in Client \ {c} : cmap'[d] = cmap[d],
             \A k \in Key : added[k] \subseteq added'[k]
      PROVE  Goal
  BY <1>1, <1>2
<1>3. ASSUME NEW c \in Client, NEW k \in Key, Put(c, k) PROVE Goal
  <2>1. /\ cmap' = [cmap EXCEPT ![c] = MapPut(cmap[c], c, k, <<c, puts[c] + 1>>)]
        /\ added' = [added EXCEPT ![k] = added[k] \cup {<<c, cmap[c].keys.versions[c] + 1>>}]
    BY <1>3 DEF Put
  <2>2. cmap'[c].keys.versions[c] = cmap[c].keys.versions[c] + 1
    <3>1. cmap'[c] = MapPut(cmap[c], c, k, <<c, puts[c] + 1>>)
      BY <1>1, <2>1
    <3>2. cmap[c].keys.versions \in Versions
      BY <1>1 DEF IsMap, IsSet
    <3>3. cmap'[c].keys.versions
            = [cmap[c].keys.versions EXCEPT ![c] = cmap[c].keys.versions[c] + 1]
      <4>1. c \in Replica /\ IsMap(cmap[c])
        BY <1>1
      <4> QED BY <3>1, <4>1, PutVersions
    <3> QED BY <1>1, <3>2, <3>3 DEF Versions
  <2> QED BY <1>1, <1>2, <2>1, <2>2
<1>4. ASSUME NEW c \in Client, NEW k \in Key, RemoveKey(c, k) PROVE Goal
  <2>1. cmap' = [cmap EXCEPT ![c] = MapRemove(cmap[c], k)] /\ added' = added
    BY <1>4 DEF RemoveKey
  <2>2. cmap'[c].keys.versions = cmap[c].keys.versions
    <3>1. cmap'[c] = MapRemove(cmap[c], k)
      BY <1>1, <2>1
    <3> QED BY <3>1 DEF MapRemove, Remove
  <2> QED BY <1>1, <1>2, <2>1, <2>2
<1>5. ASSUME NEW c \in Client, Reply(c) PROVE Goal
  <2> DEFINE map == [json[c] EXCEPT !.registers = m.registers]
  <2>1. cmap' = [cmap EXCEPT ![c] = MapMerge(cmap[c], c, map)] /\ added' = added
    BY <1>5 DEF Reply, history
  <2>2. IsMap(map)
    <3>1. Sound(json[c], cmap, added) /\ SoundRegisters(m.registers)
      BY DEF Inv, MapsSound, Sound
    <3> QED BY <3>1, PartSound, SoundIs
  <2> HIDE DEF map
  <2>3. cmap'[c].keys = Merge(cmap[c].keys, map.keys) /\ IsMap(cmap'[c])
    BY <1>1, <2>1, <2>2, MapMergeType
  <2>4. cmap[c].keys.versions[c] <= cmap'[c].keys.versions[c]
    <3>1. c \in Replica /\ IsSet(cmap[c].keys) /\ IsSet(map.keys)
      BY <1>1, <2>2 DEF IsMap
    <3>2. cmap[c].keys.versions[c] <= Merge(cmap[c].keys, map.keys).versions[c]
      BY <3>1, MergeType
    <3> QED BY <2>3, <3>2
  <2>5. cmap'[c].keys.versions[c] \in Int
    BY <1>1, <2>3, VersionsType DEF IsMap, IsSet
  <2> QED BY <1>1, <1>2, <2>1, <2>4, <2>5
<1>6. \/ cmap' = cmap /\ added' = added
      \/ \E c \in Client : Reply(c) \/ \E k \in Key : Put(c, k) \/ RemoveKey(c, k)
  BY MergeStepCases DEF Next, ClientStep, ToJsonStep, Post, WriteElements, WriteVersions,
         Broadcast, Deliver, Answered, vars, history
<1> QED BY <1>1, <1>3, <1>4, <1>5, <1>6

LEMMA ClientsSound ==
  ASSUME Inv, [Next]_vars, NEW d \in Client
  PROVE  Sound(cmap'[d], cmap', added')
<1>1. /\ \A b \in Client : /\ cmap[b].keys.versions[b] \in Int
                           /\ cmap'[b].keys.versions[b] \in Int
                           /\ cmap[b].keys.versions[b] <= cmap'[b].keys.versions[b]
      /\ \A k \in Key : added[k] \subseteq added'[k]
  BY ClientsAdvance
<1>2. /\ cmap = [c \in Client |-> cmap[c]] /\ added \in [Key -> SUBSET (Client \X Nat)]
      /\ \A c \in Client : Sound(cmap[c], cmap, added) /\ Sound(json[c], cmap, added)
      /\ SoundRegisters(m.registers) /\ d \in Replica
      /\ puts \in [Client -> Nat]
  BY Identifiers DEF Inv, Control, MapsSound, Sound
<1>3. CASE Sound(cmap'[d], cmap, added)
  BY <1>1, <1>3, SoundStays
<1>4. ASSUME NEW k \in Key, Put(d, k) PROVE Sound(cmap'[d], cmap', added')
  <2>1. /\ cmap' = [cmap EXCEPT ![d] = MapPut(cmap[d], d, k, <<d, puts[d] + 1>>)]
        /\ added' = [added EXCEPT ![k] = added[k] \cup {<<d, cmap[d].keys.versions[d] + 1>>}]
        /\ puts[d] < MaxPuts[d]
    BY <1>4 DEF Put
  <2>2. IsMap(cmap[d]) /\ Genuine(cmap[d], added)
    BY <1>2, SoundIs
  <2>3. <<d, puts[d] + 1>> \in Value
    <3>1. puts[d] + 1 \in Nat /\ 1 <= puts[d] + 1 /\ puts[d] + 1 <= MaxPuts[d]
      BY <1>2, <2>1, SharedMapAssumption
    <3> QED BY <3>1, Identifiers
  <2>4. cmap'[d] = MapPut(cmap[d], d, k, <<d, puts[d] + 1>>)
    BY <1>2, <2>1
  <2>5. IsMap(cmap'[d])
    BY <1>2, <2>2, <2>3, <2>4, MapPutType
  <2>6. Genuine(cmap'[d], added')
    <3>1. /\ added'[k] = added[k] \cup {<<d, cmap[d].keys.versions[d] + 1>>}
          /\ \A k2 \in Key \ {k} : added'[k2] = added[k2]
      BY <1>2, <2>1
    <3> QED BY <1>2, <2>2, <2>4, <3>1, PutGenuine
  <2>7. ASSUME NEW b \in Client PROVE cmap'[d].keys.versions[b] <= cmap'[b].keys.versions[b]
    <3>1. CASE b = d
      BY <1>1, <3>1
    <3>2. CASE b # d
      <4>1. cmap[d].keys.versions \in Versions /\ b \in Replica
        BY <2>2, Identifiers DEF IsMap, IsSet
      <4>2. cmap'[d].keys.versions
              = [cmap[d].keys.versions EXCEPT ![d] = cmap[d].keys.versions[d] + 1]
        BY <1>2, <2>2, <2>4, PutVersions
      <4>3. cmap'[d].keys.versions[b] = cmap[d].keys.versions[b] /\ cmap'[b] = cmap[b]
        BY <1>2, <2>1, <3>2, <4>1, <4>2 DEF Versions
      <4> QED BY <1>2, <4>3 DEF Sound, SoundVersions
    <3> QED BY <3>1, <3>2
  <2> QED BY <2>5, <2>6, <2>7, SoundIs
<1>5. ASSUME NEW k \in Key, RemoveKey(d, k) PROVE Sound(cmap'[d], cmap, added)
  <2>1. cmap'[d] = MapRemove(cmap[d], k)
    BY <1>2, <1>5 DEF RemoveKey
  <2>2. IsMap(cmap[d]) /\ Genuine(cmap[d], added)
    BY <1>2, SoundIs
  <2>3. IsMap(cmap'[d])
    BY <2>1, <2>2, MapRemoveType
  <2>4. Genuine(cmap'[d], added) /\ cmap'[d].keys.versions = cmap[d].keys.versions
    BY <2>1, <2>2 DEF Genuine, MapRemove, Remove, Contents
  <2> QED BY <1>2, <2>3, <2>4, SoundIs DEF Sound, SoundVersions
<1>6. ASSUME Reply(d) PROVE Sound(cmap'[d], cmap, added)
  <2> DEFINE map == [json[d] EXCEPT !.registers = m.registers]
  <2>1. cmap'[d] = MapMerge(cmap[d], d, map)
    BY <1>2, <1>6 DEF Reply
  <2>2. Sound(map, cmap, added)
    BY <1>2, PartSound
  <2> HIDE DEF map
  <2> QED BY <1>2, <2>1, <2>2, MergeSound
<1>7. \/ cmap'[d] = cmap[d]
      \/ Reply(d) \/ \E k \in Key : Put(d, k) \/ RemoveKey(d, k)
  <2>1. ASSUME NEW c \in Client, NEW k \in Key, Put(c, k) \/ RemoveKey(c, k), c # d
        PROVE  cmap'[d] = cmap[d]
    BY <1>2, <2>1 DEF Put, RemoveKey
  <2>2. ASSUME NEW c \in Client, Reply(c), c # d PROVE cmap'[d] = cmap[d]
    BY <1>2, <2>2 DEF Reply
  <2>3. \/ cmap' = cmap
        \/ \E c \in Client : Reply(c) \/ \E k \in Key : Put(c, k) \/ RemoveKey(c, k)
    BY MergeStepCases DEF Next, ClientStep, ToJsonStep, Post, WriteElements, WriteVersions,
           Broadcast, Deliver, Answered, vars
  <2> QED BY <2>1, <2>2, <2>3
<1> QED BY <1>2, <1>3, <1>4, <1>5, <1>6, <1>7

-----------------------------------------------------------------------------
LEMMA LoopStep ==
  ASSUME Inv, [Next]_vars, NEW d \in Client
  PROVE  LoopSound(d)'
<1>1. /\ LoopSound(d) /\ d \in DOMAIN pc /\ d \in DOMAIN todo /\ d \in DOMAIN entry
      /\ d \in DOMAIN version /\ d \in DOMAIN arg /\ DOMAIN pc = Client
      /\ SoundVersions(m.keys.versions, cmap) /\ SoundVersions(arg[d].keys.versions, cmap)
      /\ Flow(d)
  BY DEF Inv, Control, MapsSound, Sound
<1>2. \A b \in Client : /\ cmap[b].keys.versions[b] \in Int
                        /\ cmap'[b].keys.versions[b] \in Int
                        /\ cmap[b].keys.versions[b] <= cmap'[b].keys.versions[b]
  BY ClientsAdvance
<1> DEFINE Same(b) == /\ pc'[b] = pc[b] /\ todo'[b] = todo[b] /\ entry'[b] = entry[b]
                      /\ version'[b] = version[b] /\ arg'[b] = arg[b]
<1>3. ASSUME Same(d) PROVE LoopSound(d)'
  <2>1. ASSUME pc[d] = "write_version", entry[d] \in Client
        PROVE  version[d] <= cmap'[entry[d]].keys.versions[entry[d]]
    <3>1. version[d] \in Int /\ version[d] <= cmap[entry[d]].keys.versions[entry[d]]
      BY <1>1, <2>1 DEF LoopSound, Unseen
    <3> QED BY <1>2, <2>1, <3>1
  <2> QED BY <1>1, <1>3, <2>1 DEF LoopSound
<1>4. ASSUME pc'[d] \notin {"versions", "write_version", "registers", "compare", "write_value",
                            "write_timestamp"}
      PROVE  LoopSound(d)'
  BY <1>4 DEF LoopSound
<1>5. CASE RemotelyAdded(d)
  BY <1>1, <1>5 DEF RemotelyAdded, Step, LoopSound
<1>6. CASE ReadVersion(d)
  <2> DEFINE merged == MergeVersions(m.keys.versions, arg[d].keys.versions)
  <2>1. PICK r \in todo[d] : /\ todo'[d] = todo[d] \ {r} /\ entry'[d] = r
                             /\ version'[d] = merged[r]
    BY <1>1, <1>6 DEF ReadVersion
  <2>2. /\ todo[d] \subseteq Replica /\ pc'[d] = "write_version" /\ cmap' = cmap
    BY <1>1, <1>6 DEF ReadVersion, Step, LoopSound
  <2>3. merged[r] \in Nat \cup {Unseen} /\ merged[r] \in {m.keys.versions[r], arg[d].keys.versions[r]}
    BY <1>1, <2>1, <2>2, MergeVersionsType DEF SoundVersions, Versions
  <2>4. r \in Client => merged[r] <= cmap[r].keys.versions[r]
    BY <1>1, <2>3 DEF SoundVersions
  <2> HIDE DEF merged
  <2> QED BY <2>1, <2>2, <2>3, <2>4 DEF LoopSound
<1>7. CASE WriteVersion(d)
  BY <1>1, <1>7 DEF WriteVersion, Step, LoopSound
<1>8. CASE RegistersErased(d)
  BY <1>1, <1>8 DEF RegistersErased, RegistersLeft, Step, LoopSound
<1>9. CASE CreateRegister(d) \/ FindRegister(d)
  <2>1. \E k \in todo[d] : /\ todo'[d] = todo[d] \ {k} /\ entry'[d] = k
                           /\ pc[d] = "registers" /\ pc'[d] = "compare" /\ arg' = arg
    BY <1>1, <1>9 DEF CreateRegister, FindRegister, Step
  <2> QED BY <1>1, <2>1 DEF LoopSound
<1>10. CASE PassRegister(d) \/ KeepRegister(d) \/ WriteTimestamp(d)
  <2>1. PICK from \in {"registers", "compare", "write_timestamp"} :
          \E left : left \subseteq todo[d] /\ RegistersLeft(d, from, left)
    BY <1>10 DEF PassRegister, KeepRegister, WriteTimestamp
  <2>2. todo[d] \subseteq DOMAIN arg[d].registers
    BY <1>1, <2>1 DEF RegistersLeft, Step, LoopSound
  <2>3. /\ arg' = arg /\ todo'[d] \subseteq todo[d]
        /\ pc'[d] \in {"registers", "write_elements", "ready"}
    BY <1>1, <1>10, <2>1 DEF PassRegister, KeepRegister, WriteTimestamp, RegistersLeft, Step
  <2> QED BY <2>1, <2>2, <2>3 DEF LoopSound
<1>11. CASE ReplaceRegister(d) \/ WriteValue(d)
  <2>1. /\ pc[d] \in {"compare", "write_value"} /\ pc'[d] \in {"write_value", "write_timestamp"}
        /\ UNCHANGED <<todo, entry, arg>>
    BY <1>1, <1>11 DEF ReplaceRegister, WriteValue, Step, loop
  <2> QED BY <1>1, <2>1 DEF LoopSound
<1>12. CASE CopyKeys(d) \/ RemotelyRemoved(d) \/ ToJsonStep(d) \/ Post(d) \/ Answered(d)
  <2>1. pc'[d] \in {"removes", "adds", "write_versions", "write_registers", "copy", "ready",
                    "write_elements"}
    BY <1>1, <1>12 DEF CopyKeys, RemotelyRemoved, ToJsonStep, WriteElements, WriteVersions,
       Broadcast, Reply, Post, Answered, Step
  <2> QED BY <1>4, <2>1
<1>13. ASSUME NEW c \in Client \ {d}, MergeStep(c) PROVE Same(d)
  <2>1. pc'[d] = pc[d]
    BY <1>1, <1>13, MergeStepCases DEF Step
  <2>2. arg' = arg
    BY <1>13, MergeStepCases
  <2>3. /\ todo' = todo \/ \E x : todo' = [todo EXCEPT ![c] = x]
        /\ entry' = entry \/ \E x : entry' = [entry EXCEPT ![c] = x]
        /\ version' = version \/ \E x : version' = [version EXCEPT ![c] = x]
    BY <1>13 DEF MergeStep, CopyKeys, RemotelyRemoved, RemotelyAdded, ReadVersion, WriteVersion,
       RegistersErased, CreateRegister, FindRegister, PassRegister, KeepRegister, ReplaceRegister,
       WriteValue, WriteTimestamp, RegistersLeft, loop
  <2> QED BY <1>1, <2>1, <2>2, <2>3
<1>14. ASSUME NEW c \in Client \ {d}, ToJsonStep(c) \/ Post(c) \/ Answered(c) PROVE Same(d)
  BY <1>1, <1>14 DEF ToJsonStep, WriteElements, WriteVersions, Broadcast, Reply, Post, Answered,
     Step, loop
<1>15. ASSUME UNCHANGED vars \/ \E c \in Client : \/ Deliver(c)
                                                  \/ \E k \in Key : Put(c, k) \/ RemoveKey(c, k)
       PROVE  Same(d)
  BY <1>15 DEF Deliver, Put, RemoveKey, vars, handler, loop
<1> QED BY <1>3, <1>5, <1>6, <1>7, <1>8, <1>9, <1>10, <1>11, <1>12, <1>13, <1>14, <1>15
        DEF Next, ClientStep, MergeStep

LEMMA InvInit == Init => Inv
<1> SUFFICES ASSUME Init PROVE MapsSound
  BY ControlInit DEF Inv, Init, LoopSound
<1>1. ASSUME NEW c \in Client
      PROVE  cmap[c].keys.versions[c] \in Int /\ cmap[c].keys.versions[c] >= 0
  BY Identifiers DEF Init, NewMap, NewSet, NoTags
<1>2. \A id \in Replica : Sound(NewMap(id), cmap, added)
  BY <1>1, NewMapSound
<1> QED BY <1>1, <1>2, Identifiers DEF Init, MapsSound

LEMMA InvStep == Inv /\ [Next]_vars => Inv'
<1> SUFFICES ASSUME Inv, [Next]_vars PROVE MapsSound'
  BY ControlStep, LoopStep DEF Inv
<1>1. /\ \A d \in Client : /\ cmap[d].keys.versions[d] \in Int
                           /\ cmap'[d].keys.versions[d] \in Int
                           /\ 0 <= cmap[d].keys.versions[d]
                           /\ cmap[d].keys.versions[d] <= cmap'[d].keys.versions[d]
      /\ \A k \in Key : added[k] \subseteq added'[k]
  BY ClientsAdvance
<1>2. \A map : Sound(map, cmap, added) => Sound(map, cmap', added')
  BY <1>1, SoundStays
<1>3. Sound(m', cmap', added') /\ Sound(peer', cmap', added')
  BY <1>2, HandlersMapSound, PeerSound
<1>4. ASSUME NEW d \in Client
      PROVE  /\ Sound(cmap'[d], cmap', added') /\ cmap'[d].keys.versions[d] >= 0
             /\ Sound(arg'[d], cmap', added') /\ Sound(json'[d], cmap', added')
  BY <1>1, <1>2, JsonSound, ClientsSound
<1> QED BY <1>3, <1>4 DEF MapsSound

\* However the handlers overlap, whatever handler::m and the maps written from it
\* record for a key is an addition of that key.
THEOREM NothingMadeUp == Spec => []NoPhantom
<1>1. Spec => []Inv
  BY InvInit, InvStep, PTL DEF Spec
<1>2. Inv => NoPhantom
  BY DEF Inv, MapsSound, Sound, SoundElements, NoPhantom, Contents
<1> QED BY <1>1, <1>2, PTL

\* However the handlers overlap, nobody gets ahead of a client in its own additions:
\* its next one gets a tag of its own.
THEOREM OwnerStaysAhead == Spec => []OwnerAhead
<1>1. Spec => []Inv
  BY InvInit, InvStep, PTL DEF Spec
<1>2. Inv => OwnerAhead
  BY DEF Inv, MapsSound, Sound, SoundVersions, OwnerAhead
<1> QED BY <1>1, <1>2, PTL

-----------------------------------------------------------------------------
\* Handlers that do not overlap.  A map at rest is good; in the midst of a merge,
\* handler::m is a good map merged up to that point.

Good(map, clients, additions, purges) ==
  WellFormed(map) /\ Safe(map, clients, additions, purges)

RegisterSteps == {"registers", "compare", "write_value", "write_timestamp"}

\* The versions v merged with w, but for the entries in old.
MergedBut(old, v, w) ==
  [r \in Replica |-> IF r \in old THEN v[r] ELSE MergeVersions(v, w)[r]]

\* What the merge() that runs for c has made of map so far: its elements, then its
\* versions one by one, then its registers one by one.
MergedUpTo(c, map) ==
  /\ keys_copy[c] = Contents(map.keys)
  /\ m.keys.elements = IF pc[c] = "removes" THEN map.keys.elements
                       ELSE IF pc[c] = "adds" THEN ApplyRemoteRemoves(map.keys, arg[c].keys)
                       ELSE Merge(map.keys, arg[c].keys).elements
  /\ pc[c] \in {"removes", "adds"} => m.keys.versions = map.keys.versions
  /\ pc[c] = "versions" =>
       m.keys.versions = MergedBut(todo[c], map.keys.versions, arg[c].keys.versions)
  /\ pc[c] = "write_version" =>
       /\ entry[c] \notin todo[c]
       /\ version[c] = MergeVersions(map.keys.versions, arg[c].keys.versions)[entry[c]]
       /\ m.keys.versions =
            MergedBut(todo[c] \cup {entry[c]}, map.keys.versions, arg[c].keys.versions)
  /\ pc[c] \in {"erase"} \cup RegisterSteps =>
       m.keys.versions = MergeVersions(map.keys.versions, arg[c].keys.versions)
  /\ pc[c] \notin RegisterSteps => DOMAIN m.registers = Contents(map.keys)
  /\ pc[c] \in RegisterSteps =>
       /\ DOMAIN m.registers \subseteq Contents(m.keys)
       /\ Contents(m.keys) \subseteq DOMAIN m.registers \cup todo[c]

PartwayMerge(c) == \E map : Good(map, cmap, added, purged) /\ MergedUpTo(c, map)

PartwayToJson(c) ==
  /\ Good(m, cmap, added, purged)
  /\ json[c].keys.elements = m.keys.elements
  /\ pc[c] = "write_registers" => json[c].keys.versions = m.keys.versions

Partway(c) == IF pc[c] \in MergeSteps THEN PartwayMerge(c) ELSE PartwayToJson(c)

AtRest(c) ==
  /\ Good(cmap[c], cmap, added, purged) /\ Good(arg[c], cmap, added, purged)
  /\ request[c] = "replica" => Good(json[c], cmap, added, purged)

Whole ==
  /\ HistoryObserved(cmap, added)
  /\ Good(peer, cmap, added, purged)
  /\ \A c \in Client : AtRest(c)
  /\ \A c, d \in Client : pc[c] \in Midway /\ pc[d] \in Midway => c = d
  /\ (\A c \in Client : pc[c] \notin Midway) => Good(m, cmap, added, purged)
  /\ \A c \in Client : pc[c] \in Midway => Partway(c)

WholeInv == Inv /\ (~overlapped => Whole)

LEMMA GoodMerge ==
  ASSUME Inv, NEW map, NEW remote, NEW id \in Replica,
         Good(map, cmap, added, purged), Good(remote, cmap, added, purged)
  PROVE  Good(MapMerge(map, id, remote), cmap, added, purged)
<1>1. DOMAIN cmap \subseteq Replica /\ added \in Additions
  BY Identifiers DEF Inv, Control, Additions
<1> QED BY <1>1, MapMergeWellFormed, SafeMerge DEF Good

\* The last step of to_json() completes a copy of handler::m.
LEMMA Serialized ==
  ASSUME Inv, Whole, NEW c \in Client, pc[c] = "write_registers"
  PROVE  [json[c] EXCEPT !.registers = m.registers] = m /\ Good(m, cmap, added, purged)
<1>1. /\ json[c] = AMap(json[c].keys.elements, json[c].keys.versions, json[c].registers)
      /\ m = AMap(m.keys.elements, m.keys.versions, m.registers)
  BY DEF Inv, MapsSound, Sound
<1>2. PartwayToJson(c)
  BY DEF Whole, Partway, Midway, MergeSteps, ToJsonSteps
<1>3. [json[c] EXCEPT !.registers = m.registers]
        = AMap(json[c].keys.elements, json[c].keys.versions, m.registers)
  BY <1>1, AssignParts
<1> QED BY <1>1, <1>2, <1>3 DEF PartwayToJson

\* What a step does to the clients and the history leaves good maps good.
LEMMA HistoryStep ==
  ASSUME Inv, Inv', Whole, [Next]_vars
  PROVE  /\ HistoryObserved(cmap', added')
         /\ \A map : Good(map, cmap, added, purged) => Good(map, cmap', added', purged')
         /\ \A d \in Client : Good(cmap'[d], cmap', added', purged')
<1> DEFINE Goal == /\ HistoryObserved(cmap', added')
                   /\ \A map : Good(map, cmap, added, purged) => Good(map, cmap', added', purged')
                   /\ \A d \in Client : Good(cmap'[d], cmap', added', purged')
<1>1. /\ DOMAIN cmap = Client /\ DOMAIN cmap' = Client /\ DOMAIN cmap \subseteq Replica
      /\ cmap = [d \in Client |-> cmap[d]]
      /\ added \in Additions /\ DOMAIN added = Key /\ HistoryObserved(cmap, added)
      /\ \A d \in Client : Good(cmap[d], cmap, added, purged) /\ WellFormed(cmap[d])
  <2>1. /\ cmap = [d \in Client |-> cmap[d]] /\ cmap' = [d \in Client |-> cmap'[d]]
        /\ added \in [Key -> SUBSET (Client \X Nat)] /\ Client \subseteq Replica
    BY Identifiers DEF Inv, Control
  <2>2. added \in Additions
    BY <2>1 DEF Additions
  <2> QED BY <2>1, <2>2 DEF Whole, AtRest, Good
<1>2. \A d \in Client : cmap[d].keys.versions[d] <= cmap'[d].keys.versions[d]
  BY ClientsAdvance
<1>3. ASSUME NEW c \in Client, NEW k \in Key, Put(c, k) PROVE Goal
  <2> DEFINE v == <<c, puts[c] + 1>>
  <2>1. /\ cmap' = [cmap EXCEPT ![c] = MapPut(cmap[c], c, k, v)]
        /\ added' = [added EXCEPT ![k] = added[k] \cup {<<c, cmap[c].keys.versions[c] + 1>>}]
        /\ purged' = purged /\ puts[c] < MaxPuts[c]
    BY <1>3 DEF Put
  <2>2. v \in Value
    <3>1. puts[c] \in Nat /\ MaxPuts[c] \in Nat
      BY SharedMapAssumption DEF Inv, Control
    <3>2. puts[c] + 1 \in Nat /\ 1 <= puts[c] + 1 /\ puts[c] + 1 <= MaxPuts[c]
      BY <2>1, <3>1
    <3> QED BY <3>2, Identifiers
  <2> HIDE DEF v
  <2>3. /\ cmap'[c] = MapPut(cmap[c], c, k, v)
        /\ \A d \in Client \ {c} : cmap'[d] = cmap[d]
        /\ added'[k] = added[k] \cup {<<c, cmap[c].keys.versions[c] + 1>>}
        /\ \A k2 \in Key \ {k} : added'[k2] = added[k2]
    BY <1>1, <2>1
  <2>4. ASSUME NEW map, WellFormed(map), Safe(map, cmap, added, purged)
        PROVE  /\ HistoryObserved(cmap', added')
               /\ Safe(cmap'[c], cmap', added', purged)
               /\ Safe(map, cmap', added', purged)
    <3>1. /\ Safe(cmap[c], cmap, added, purged) /\ \A d \in DOMAIN cmap : WellFormed(cmap[d])
          /\ DOMAIN cmap' = DOMAIN cmap /\ c \in DOMAIN cmap
          /\ \A d \in DOMAIN cmap \ {c} : cmap'[d] = cmap[d]
      BY <1>1, <2>3 DEF Good
    <3>2. DOMAIN cmap \subseteq Replica /\ added \in Additions /\ HistoryObserved(cmap, added)
      BY <1>1
    <3> QED BY <2>2, <2>3, <2>4, <3>1, <3>2, PutSafe
  <2>5. WellFormed(cmap'[c])
    BY <1>1, <2>2, <2>3, MapPutWellFormed
  <2> QED BY <1>1, <2>1, <2>3, <2>4, <2>5 DEF Good
<1>4. ASSUME \A k \in Key : purged[k] \subseteq purged'[k], added' = added,
             \A d \in Client : WellFormed(cmap'[d])
      PROVE  /\ HistoryObserved(cmap', added')
             /\ \A map : Good(map, cmap, added, purged) => Good(map, cmap', added', purged')
  <2>2. ASSUME NEW map, WellFormed(map), Safe(map, cmap, added, purged)
        PROVE  Safe(map, cmap', added', purged')
    <3>1. /\ DOMAIN cmap' = DOMAIN cmap
          /\ \A d \in DOMAIN cmap : WellFormed(cmap[d]) /\ WellFormed(cmap'[d])
          /\ \A d \in DOMAIN cmap : cmap[d].keys.versions[d] <= cmap'[d].keys.versions[d]
      BY <1>1, <1>2, <1>4
    <3>2. Safe(map, cmap', added, purged')
      BY <1>1, <1>4, <2>2, <3>1, SafeStays
    <3> QED BY <1>4, <3>2
  <2>3. HistoryObserved(cmap', added')
    <3>1. ASSUME NEW d \in Client
          PROVE  /\ cmap[d].keys.versions[d] \in Int /\ cmap'[d].keys.versions[d] \in Int
                 /\ cmap[d].keys.versions[d] <= cmap'[d].keys.versions[d]
                 /\ 0 <= cmap[d].keys.versions[d]
      BY ClientsAdvance
    <3>2. ASSUME NEW k \in Key, NEW t \in added[k]
          PROVE  t[2] <= cmap'[t[1]].keys.versions[t[1]]
      <4>1. /\ t[1] \in Client /\ t[2] \in Int
            /\ t[2] <= cmap[t[1]].keys.versions[t[1]]
        <5>1. t \in Replica \X Nat
          BY <1>1, AdditionsType
        <5>2. DOMAIN cmap = Client /\ HistoryObserved(cmap, added)
          BY <1>1
        <5> QED BY <5>1, <5>2 DEF HistoryObserved
      <4> QED BY <3>1, <4>1
    <3>3. /\ DOMAIN cmap = Client /\ DOMAIN cmap' = Client /\ added' = added
          /\ HistoryObserved(cmap, added)
      BY <1>1, <1>4
    <3>4. \A d \in Client : cmap'[d].keys.versions[d] >= 0
      BY <3>1
    <3> QED BY <3>2, <3>3, <3>4 DEF HistoryObserved
  <2> QED BY <2>2, <2>3 DEF Good
<1>5. ASSUME NEW c \in Client, NEW k \in Key, RemoveKey(c, k) PROVE Goal
  <2> DEFINE gone == {t \in added[k] : t[2] <= cmap[c].keys.versions[t[1]]}
  <2>1. /\ cmap' = [cmap EXCEPT ![c] = MapRemove(cmap[c], k)]
        /\ added' = added /\ purged' = [purged EXCEPT ![k] = purged[k] \cup gone]
    BY <1>5 DEF RemoveKey
  <2>2. purged = [k2 \in Key |-> purged[k2]]
    BY DEF Inv, Control
  <2>3. /\ cmap'[c] = MapRemove(cmap[c], k) /\ \A d \in Client \ {c} : cmap'[d] = cmap[d]
        /\ purged'[k] = purged[k] \cup gone
        /\ \A k2 \in Key \ {k} : purged'[k2] = purged[k2]
    BY <1>1, <2>1, <2>2
  <2>4. WellFormed(cmap'[c])
    BY <1>1, <2>3, MapRemoveWellFormed
  <2>5. /\ HistoryObserved(cmap', added')
        /\ \A map : Good(map, cmap, added, purged) => Good(map, cmap', added', purged')
    BY <1>1, <1>4, <2>1, <2>3, <2>4
  <2>6. Good(cmap'[c], cmap, added', purged')
    <3>1. Safe(cmap[c], cmap, added, purged)
      BY <1>1 DEF Good
    <3>2. Safe(MapRemove(cmap[c], k), cmap, added, purged')
      BY <1>1, <2>3, <3>1, RemoveSafe
    <3> QED BY <2>1, <2>3, <2>4, <3>2 DEF Good
  <2>7. cmap'[c].keys.versions = cmap[c].keys.versions
    BY <2>3 DEF MapRemove, Remove
  <2>8. \A d \in Client : cmap'[d].keys.versions[d] = cmap[d].keys.versions[d]
    BY <2>3, <2>7
  <2>9. Good(cmap'[c], cmap', added', purged')
    <3>1. DOMAIN cmap = Client /\ DOMAIN cmap' = Client
      BY <1>1
    <3> QED BY <2>6, <2>8, <3>1 DEF Good, Safe
  <2>10. ASSUME NEW d \in Client PROVE Good(cmap'[d], cmap', added', purged')
    <3>1. CASE d = c
      BY <2>9, <3>1
    <3>2. CASE d # c
      BY <1>1, <2>3, <2>5, <3>2
    <3> QED BY <3>1, <3>2
  <2> QED BY <2>5, <2>10
<1>6. ASSUME NEW c \in Client, Reply(c) PROVE Goal
  <2>1. pc[c] = "write_registers"
    BY <1>6 DEF Reply, Step
  <2>2. [json[c] EXCEPT !.registers = m.registers] = m /\ Good(m, cmap, added, purged)
    BY <2>1, Serialized
  <2>3. /\ cmap' = [cmap EXCEPT ![c] = MapMerge(cmap[c], c, m)]
        /\ added' = added /\ purged' = purged
    BY <1>6, <2>2 DEF Reply, history
  <2>4. cmap'[c] = MapMerge(cmap[c], c, m) /\ \A d \in Client \ {c} : cmap'[d] = cmap[d]
    BY <1>1, <2>3
  <2>5. Good(cmap'[c], cmap, added, purged)
    BY <1>1, <2>2, <2>4, GoodMerge
  <2>6. \A d \in Client : Good(cmap'[d], cmap, added, purged) /\ WellFormed(cmap'[d])
    BY <1>1, <2>4, <2>5 DEF Good
  <2>7. /\ HistoryObserved(cmap', added')
        /\ \A map : Good(map, cmap, added, purged) => Good(map, cmap', added', purged')
    BY <1>4, <2>3, <2>6
  <2> QED BY <2>6, <2>7
<1>7. CASE cmap' = cmap /\ added' = added /\ purged' = purged
  BY <1>1, <1>7
<1>8. \/ cmap' = cmap /\ added' = added /\ purged' = purged
      \/ \E c \in Client : Reply(c) \/ \E k \in Key : Put(c, k) \/ RemoveKey(c, k)
  BY MergeStepCases DEF Next, ClientStep, ToJsonStep, Post, WriteElements, WriteVersions,
         Broadcast, Deliver, Answered, vars, history
<1> QED BY <1>3, <1>5, <1>6, <1>7, <1>8

LEMMA PartsOf ==
  ASSUME NEW elements, NEW versions, NEW registers
  PROVE  /\ AMap(elements, versions, registers).keys.elements = elements
         /\ AMap(elements, versions, registers).keys.versions = versions
         /\ AMap(elements, versions, registers).registers = registers
BY DEF AMap

\* What an assignment to a part of handler::m leaves.
LEMMA Assigned ==
  ASSUME Inv, NEW x
  PROVE  /\ m' = [m EXCEPT !.keys.elements = x] =>
              /\ m'.keys.elements = x /\ m'.keys.versions = m.keys.versions
              /\ m'.registers = m.registers
         /\ m' = [m EXCEPT !.keys.versions = x] =>
              /\ m'.keys.elements = m.keys.elements /\ m'.keys.versions = x
              /\ m'.registers = m.registers
         /\ m' = [m EXCEPT !.registers = x] =>
              m'.keys = m.keys /\ m'.registers = x
<1>1. m = AMap(m.keys.elements, m.keys.versions, m.registers)
  BY DEF Inv, MapsSound, Sound
<1>2. ASSUME m' = [m EXCEPT !.keys.elements = x]
      PROVE  m' = AMap(x, m.keys.versions, m.registers)
  BY <1>1, <1>2, AssignParts
<1>3. ASSUME m' = [m EXCEPT !.keys.versions = x]
      PROVE  m' = AMap(m.keys.elements, x, m.registers)
  BY <1>1, <1>3, AssignParts
<1>4. ASSUME m' = [m EXCEPT !.registers = x]
      PROVE  m' = AMap(m.keys.elements, m.keys.versions, x)
  BY <1>1, <1>4, AssignParts
<1> QED BY <1>1, <1>2, <1>3, <1>4 DEF AMap

\* At the end of merge(), handler::m is as good as after an atomic one.
LEMMA MergedGood ==
  ASSUME Inv, Inv', UNCHANGED <<cmap, added, purged>>,
         NEW map, NEW remote, Good(map, cmap, added, purged), Good(remote, cmap, added, purged),
         m'.keys.elements = Merge(map.keys, remote.keys).elements,
         m'.keys.versions = MergeVersions(map.keys.versions, remote.keys.versions),
         Contents(m'.keys) = DOMAIN m'.registers
  PROVE  Good(m', cmap, added, purged)
<1> DEFINE merged == MapMerge(map, Here, remote)
<1>1. Good(merged, cmap, added, purged) /\ merged.keys = Merge(map.keys, remote.keys)
  BY GoodMerge, Identifiers, MapMergeWellFormed DEF Good
<1>2. IsMap(m') /\ m'.keys = [elements |-> m'.keys.elements, versions |-> m'.keys.versions]
  <2>1. Sound(m', cmap', added')
    BY DEF Inv, MapsSound
  <2>2. IsMap(m')
    BY <2>1, SoundIs
  <2> QED BY <2>2 DEF IsMap, IsSet
<1>3. m'.keys = merged.keys
  BY <1>1, <1>2 DEF Merge
<1> HIDE DEF merged
<1> QED BY <1>1, <1>2, <1>3 DEF Good, WellFormed, Safe, KeysMatch

\* A step of a client, or one that does not touch handler::m.
LEMMA QuietWhole ==
  ASSUME Inv, Inv', Whole, [Next]_vars, m' = m, UNCHANGED loop,
         Good(peer', cmap, added, purged),
         \A d \in Client :
           /\ pc'[d] \in Midway <=> pc[d] \in Midway
           /\ pc[d] \in Midway =>
                /\ pc'[d] = pc[d] /\ arg'[d] = arg[d] /\ json'[d] = json[d]
                /\ keys_copy'[d] = keys_copy[d]
           /\ Good(arg'[d], cmap, added, purged)
           /\ request'[d] = "replica" => Good(json'[d], cmap, added, purged)
  PROVE  Whole'
<1>1. /\ HistoryObserved(cmap', added')
      /\ \A map : Good(map, cmap, added, purged) => Good(map, cmap', added', purged')
      /\ \A d \in Client : Good(cmap'[d], cmap', added', purged')
  BY HistoryStep
<1>2. \A d \in Client : AtRest(d)'
  BY <1>1 DEF AtRest
<1>3. ASSUME NEW d \in Client, pc[d] \in Midway PROVE Partway(d)'
  <2>1. Partway(d)
    BY <1>3 DEF Whole
  <2>2. CASE pc[d] \in MergeSteps
    <3>1. PICK map : Good(map, cmap, added, purged) /\ MergedUpTo(d, map)
      BY <2>1, <2>2 DEF Partway, PartwayMerge
    <3>2. Good(map, cmap', added', purged')
      BY <1>1, <3>1
    <3>3. MergedUpTo(d, map)'
      BY <1>3, <3>1 DEF MergedUpTo, loop
    <3> QED BY <1>3, <2>2, <3>2, <3>3 DEF Partway, PartwayMerge
  <2>3. CASE pc[d] \notin MergeSteps
    BY <1>1, <1>3, <2>1, <2>3 DEF Partway, PartwayToJson
  <2> QED BY <2>2, <2>3
<1>4. (\A d \in Client : pc'[d] \notin Midway) => Good(m', cmap', added', purged')
  BY <1>1 DEF Whole
<1>5. \A c, d \in Client : pc'[c] \in Midway /\ pc'[d] \in Midway => c = d
  BY DEF Whole
<1>6. Good(peer', cmap', added', purged')
  BY <1>1
<1> QED BY <1>1, <1>2, <1>3, <1>4, <1>5, <1>6 DEF Whole

\* A step of the only handler that is in the midst of its work.
LEMMA AloneWhole ==
  ASSUME Inv, Inv', Whole, [Next]_vars, peer' = peer, NEW c \in Client,
         \A d \in Client \ {c} :
           /\ pc'[d] = pc[d] /\ pc[d] \notin Midway
           /\ arg'[d] = arg[d] /\ json'[d] = json[d] /\ request'[d] = request[d],
         Good(arg'[c], cmap, added, purged),
         request'[c] = "replica" => Good(json'[c], cmap, added, purged),
         pc'[c] \in Midway => Partway(c)',
         pc'[c] \notin Midway => Good(m', cmap, added, purged)
  PROVE  Whole'
<1>1. /\ HistoryObserved(cmap', added')
      /\ \A map : Good(map, cmap, added, purged) => Good(map, cmap', added', purged')
      /\ \A d \in Client : Good(cmap'[d], cmap', added', purged')
  BY HistoryStep
<1>2. ASSUME NEW d \in Client PROVE AtRest(d)'
  <2>1. AtRest(d)
    BY DEF Whole
  <2>2. CASE d = c
    BY <1>1, <2>2 DEF AtRest
  <2>3. CASE d # c
    BY <1>1, <2>1, <2>3 DEF AtRest
  <2> QED BY <2>2, <2>3
<1>3. \A d \in Client : pc'[d] \in Midway => d = c
  OBVIOUS
<1>4. (\A d \in Client : pc'[d] \notin Midway) => Good(m', cmap', added', purged')
  BY <1>1
<1>5. Good(peer', cmap', added', purged')
  BY <1>1 DEF Whole
<1> QED BY <1>1, <1>2, <1>3, <1>4, <1>5 DEF Whole

LEMMA StepAlone ==
  ASSUME Inv, NEW c \in Client, NEW from, NEW to, Step(c, from, to), ~overlapped'
  PROVE  /\ ~overlapped /\ pc[c] = from /\ pc'[c] = to
         /\ \A d \in Client \ {c} : pc'[d] = pc[d] /\ pc[d] \notin Midway
<1>1. DOMAIN pc = Client
  BY DEF Inv, Control
<1>2. pc[c] = from /\ pc' = [pc EXCEPT ![c] = to]
  BY DEF Step
<1>3. ~(overlapped \/ \E d \in Client \ {c} : pc[d] \in Midway)
  BY DEF Step
<1> QED BY <1>1, <1>2, <1>3

\* In the midst of a merge.
LEMMA MergingFrom ==
  ASSUME Inv, Whole, NEW c \in Client, pc[c] \in MergeSteps \ {"copy"}
  PROVE  PartwayMerge(c)
BY DEF Whole, Partway, Midway, MergeSteps, ToJsonSteps

LEMMA MergeWhole ==
  ASSUME Inv, Inv', ~overlapped => Whole, [Next]_vars, ~overlapped',
         NEW c \in Client, MergeStep(c)
  PROVE  Whole'
<1> USE DEF Midway, MergeSteps, ToJsonSteps
<1>1. /\ cmap' = cmap /\ added' = added /\ purged' = purged /\ peer' = peer
      /\ arg' = arg /\ json' = json /\ request' = request
  BY MergeStepCases DEF history
<1>2. \E from, to : Step(c, from, to)
  BY MergeStepCases
<1>3. Whole /\ \A d \in Client \ {c} : pc'[d] = pc[d] /\ pc[d] \notin Midway
  BY <1>2, StepAlone
<1>4. AtRest(c) /\ m = AMap(m.keys.elements, m.keys.versions, m.registers)
  BY <1>3 DEF Whole, Inv, MapsSound, Sound
<1>5. ASSUME pc'[c] \in Midway => Partway(c)',
             pc'[c] \notin Midway => Good(m', cmap, added, purged)
      PROVE  Whole'
  <2>1. \A d \in Client \ {c} :
          /\ pc'[d] = pc[d] /\ pc[d] \notin Midway
          /\ arg'[d] = arg[d] /\ json'[d] = json[d] /\ request'[d] = request[d]
    BY <1>1, <1>3
  <2>2. /\ Good(arg'[c], cmap, added, purged)
        /\ request'[c] = "replica" => Good(json'[c], cmap, added, purged)
    BY <1>1, <1>4 DEF AtRest
  <2> HIDE DEF Midway
  <2> QED BY <1>1, <1>3, <1>5, <2>1, <2>2, AloneWhole
<1>6. /\ c \in DOMAIN todo /\ c \in DOMAIN entry /\ c \in DOMAIN version /\ c \in DOMAIN keys_copy
      /\ IsSet(m.keys) /\ IsSet(arg[c].keys)
  BY SoundIs DEF Inv, Control, MapsSound, IsMap
<1>7. CASE CopyKeys(c)
  <2>1. /\ pc[c] = "copy" /\ pc'[c] = "removes" /\ m' = m
        /\ keys_copy'[c] = Contents(m.keys)
    BY <1>6, <1>7, StepAlone DEF CopyKeys
  <2>2. Good(m, cmap, added, purged)
    BY <1>3, <2>1 DEF Whole
  <2>3. MergedUpTo(c, m)'
    BY <2>1, <2>2 DEF MergedUpTo, RegisterSteps, Good, WellFormed, KeysMatch
  <2>4. PartwayMerge(c)'
    BY <1>1, <2>1, <2>2, <2>3 DEF PartwayMerge
  <2> QED BY <1>5, <2>1, <2>4 DEF Partway
<1> DEFINE Merging(map) ==
             /\ Good(map, cmap, added, purged) /\ IsSet(map.keys) /\ MergedUpTo(c, map)
<1>8. ASSUME pc[c] \in MergeSteps \ {"copy"} PROVE \E map : Merging(map)
  BY <1>3, <1>8, MergingFrom DEF PartwayMerge, Good, WellFormed, IsMap
<1>9. ASSUME NEW map, Good(map, cmap, added, purged), pc'[c] \in MergeSteps \ {"copy"},
             MergedUpTo(c, map)'
      PROVE  Whole'
  <2>1. PartwayMerge(c)'
    BY <1>1, <1>9 DEF PartwayMerge
  <2> QED BY <1>5, <1>9, <2>1 DEF Partway
<1> HIDE DEF Midway
<1>10. CASE RemotelyRemoved(c)
  <2>1. /\ pc[c] = "removes" /\ pc'[c] = "adds" /\ keys_copy' = keys_copy
        /\ m' = [m EXCEPT !.keys.elements = ApplyRemoteRemoves(m.keys, arg[c].keys)]
    BY <1>10, StepAlone DEF RemotelyRemoved
  <2>2. PICK map : Merging(map)
    BY <1>8, <2>1
  <2>3. m.keys = map.keys
    BY <1>6, <2>1, <2>2 DEF MergedUpTo, IsSet
  <2>4. MergedUpTo(c, map)'
    BY <1>1, <2>1, <2>2, <2>3, Assigned DEF MergedUpTo, RegisterSteps
  <2> QED BY <1>9, <2>1, <2>2, <2>4
<1>11. CASE RemotelyAdded(c)
  <2>1. /\ pc[c] = "adds" /\ pc'[c] = "versions" /\ keys_copy' = keys_copy
        /\ m' = [m EXCEPT !.keys.elements =
                   ApplyRemoteAdds(m.keys.elements, m.keys.versions, arg[c].keys)]
        /\ todo'[c] = {r \in Replica : arg[c].keys.versions[r] # Unseen}
    BY <1>6, <1>11, StepAlone DEF RemotelyAdded
  <2>2. PICK map : Merging(map)
    BY <1>8, <2>1
  <2>3. /\ m'.keys.elements = Merge(map.keys, arg[c].keys).elements
        /\ m'.keys.versions = map.keys.versions /\ m'.registers = m.registers
    BY <2>1, <2>2, Assigned DEF MergedUpTo, Merge
  <2>4. map.keys.versions = MergedBut(todo'[c], map.keys.versions, arg[c].keys.versions)
    <3>1. map.keys.versions \in Versions /\ arg[c].keys.versions \in Versions
      BY <1>6, <2>2 DEF IsSet
    <3>2. ASSUME NEW r \in Replica \ todo'[c]
          PROVE  MergeVersions(map.keys.versions, arg[c].keys.versions)[r] = map.keys.versions[r]
      BY <2>1, <3>1, VersionsType DEF MergeVersions, Unseen
    <3> QED BY <3>1, <3>2 DEF MergedBut, Versions
  <2>5. MergedUpTo(c, map)'
    BY <1>1, <2>1, <2>2, <2>3, <2>4 DEF MergedUpTo, RegisterSteps
  <2> QED BY <1>9, <2>1, <2>2, <2>5
<1>12. CASE ReadVersion(c)
  <2>1. /\ pc[c] = "versions" /\ pc'[c] = "write_version" /\ keys_copy' = keys_copy /\ m' = m
        /\ \E r \in todo[c] :
             /\ todo'[c] = todo[c] \ {r} /\ entry'[c] = r
             /\ version'[c] = MergeVersions(m.keys.versions, arg[c].keys.versions)[r]
    BY <1>6, <1>12, StepAlone DEF ReadVersion
  <2>2. PICK map : Merging(map)
    BY <1>8, <2>1
  <2>3. PICK r \in todo[c] :
          /\ todo'[c] = todo[c] \ {r} /\ entry'[c] = r
          /\ version'[c] = MergeVersions(m.keys.versions, arg[c].keys.versions)[r]
    BY <2>1
  <2>4. r \in Replica /\ m.keys.versions[r] = map.keys.versions[r]
    BY <2>1, <2>2 DEF Inv, LoopSound, MergedUpTo, MergedBut
  <2>5. version'[c] = MergeVersions(map.keys.versions, arg[c].keys.versions)[r]
    BY <2>3, <2>4 DEF MergeVersions
  <2>6. todo'[c] \cup {entry'[c]} = todo[c] /\ entry'[c] \notin todo'[c]
    BY <2>3
  <2>7. MergedUpTo(c, map)'
    BY <1>1, <2>1, <2>2, <2>3, <2>5, <2>6 DEF MergedUpTo, RegisterSteps
  <2> QED BY <1>9, <2>1, <2>2, <2>7
<1>13. CASE WriteVersion(c)
  <2>1. /\ pc[c] = "write_version" /\ keys_copy' = keys_copy /\ todo' = todo
        /\ pc'[c] = IF todo[c] = {} THEN "erase" ELSE "versions"
        /\ m' = [m EXCEPT !.keys.versions = [m.keys.versions EXCEPT ![entry[c]] = version[c]]]
    BY <1>13, AssignEntry, StepAlone DEF WriteVersion
  <2>2. PICK map : Merging(map)
    BY <1>8, <2>1
  <2>3. /\ m'.keys.elements = m.keys.elements /\ m'.registers = m.registers
        /\ m'.keys.versions = [m.keys.versions EXCEPT ![entry[c]] = version[c]]
    BY <2>1, Assigned
  <2>4. m'.keys.versions = MergedBut(todo[c], map.keys.versions, arg[c].keys.versions)
    BY <2>1, <2>2, <2>3 DEF MergedUpTo, MergedBut, Inv, LoopSound
  <2>5. todo[c] = {} => m'.keys.versions = MergeVersions(map.keys.versions, arg[c].keys.versions)
    BY <2>4 DEF MergedBut, MergeVersions
  <2>6. MergedUpTo(c, map)'
    BY <1>1, <2>1, <2>2, <2>3, <2>4, <2>5 DEF MergedUpTo, RegisterSteps
  <2> QED BY <1>9, <2>1, <2>2, <2>6
\* A step in the loop over the registers, or to it.
<1>14. ASSUME NEW map, Good(map, cmap, added, purged), keys_copy'[c] = Contents(map.keys),
              m'.keys.elements = Merge(map.keys, arg[c].keys).elements,
              m'.keys.versions = MergeVersions(map.keys.versions, arg[c].keys.versions),
              DOMAIN m'.registers \subseteq Contents(m'.keys),
              Contents(m'.keys) \subseteq DOMAIN m'.registers \cup todo'[c],
              \/ pc'[c] \in RegisterSteps
              \/ pc'[c] \in {"write_elements", "ready"} /\ todo'[c] = {}
       PROVE  Whole'
  <2>1. CASE pc'[c] \in RegisterSteps
    <3>1. MergedUpTo(c, map)'
      BY <1>1, <1>14, <2>1 DEF MergedUpTo, RegisterSteps
    <3> QED BY <1>9, <1>14, <2>1, <3>1 DEF RegisterSteps
  <2>2. CASE pc'[c] \in {"write_elements", "ready"} /\ todo'[c] = {}
    <3>1. Good(m', cmap, added, purged)
      BY <1>1, <1>4, <1>14, <2>2, MergedGood DEF AtRest
    <3> QED BY <1>5, <2>2, <3>1 DEF Midway
  <2> QED BY <1>14, <2>1, <2>2
<1>15. ASSUME NEW from, NEW left, RegistersLeft(c, from, left)
       PROVE  /\ pc[c] = from /\ todo'[c] = left
              /\ \/ pc'[c] \in RegisterSteps
                 \/ pc'[c] \in {"write_elements", "ready"} /\ todo'[c] = {}
  BY <1>6, <1>15, StepAlone DEF RegistersLeft, RegisterSteps
<1>16. CASE RegistersErased(c)
  <2> DEFINE left == [k \in DOMAIN m.registers \ (keys_copy[c] \ Contents(m.keys)) |-> m.registers[k]]
  <2>1. /\ RegistersLeft(c, "erase", DOMAIN arg[c].registers) /\ keys_copy' = keys_copy
        /\ m' = [m EXCEPT !.registers = left]
    BY <1>16 DEF RegistersErased
  <2>2. PICK map : Merging(map)
    BY <1>8, <1>15, <2>1
  <2>3. /\ m'.keys.elements = m.keys.elements /\ m'.keys.versions = m.keys.versions
        /\ DOMAIN m'.registers = DOMAIN m.registers \ (Contents(map.keys) \ Contents(m.keys))
    BY <2>1, <2>2, Assigned DEF MergedUpTo
  <2>4. /\ m.keys.elements = Merge(map.keys, arg[c].keys).elements
        /\ DOMAIN m.registers = Contents(map.keys)
        /\ m.keys.versions = MergeVersions(map.keys.versions, arg[c].keys.versions)
    BY <1>15, <2>1, <2>2 DEF MergedUpTo, RegisterSteps
  <2>5. Contents(m.keys) \subseteq Contents(map.keys) \cup DOMAIN arg[c].registers
    <3>1. Contents(arg[c].keys) = DOMAIN arg[c].registers
      BY <1>4 DEF AtRest, Good, WellFormed, KeysMatch
    <3> QED BY <1>6, <2>2, <2>4, <3>1, MergeType DEF Contents
  <2>6. Contents(m'.keys) = Contents(m.keys)
    BY <2>3 DEF Contents
  <2> HIDE DEF left
  <2> QED BY <1>14, <1>15, <2>1, <2>2, <2>3, <2>4, <2>5, <2>6 DEF MergedUpTo
<1>17. ASSUME pc[c] \in RegisterSteps, keys_copy' = keys_copy, m'.keys = m.keys,
              DOMAIN m'.registers \subseteq Contents(m.keys),
              Contents(m.keys) \cap (DOMAIN m.registers \cup todo[c])
                \subseteq DOMAIN m'.registers \cup todo'[c],
              \/ pc'[c] \in RegisterSteps
              \/ pc'[c] \in {"write_elements", "ready"} /\ todo'[c] = {}
       PROVE  Whole'
  <2>1. PICK map : Merging(map)
    BY <1>8, <1>17 DEF RegisterSteps
  <2>2. /\ m.keys.elements = Merge(map.keys, arg[c].keys).elements
        /\ m.keys.versions = MergeVersions(map.keys.versions, arg[c].keys.versions)
        /\ Contents(m.keys) \subseteq DOMAIN m.registers \cup todo[c]
        /\ keys_copy[c] = Contents(map.keys)
    BY <1>17, <2>1 DEF MergedUpTo, RegisterSteps
  <2> QED BY <1>14, <1>17, <2>1, <2>2
<1>18. ASSUME pc[c] \in RegisterSteps PROVE DOMAIN m.registers \subseteq Contents(m.keys)
  BY <1>8, <1>18 DEF MergedUpTo, RegisterSteps
<1>19. CASE CreateRegister(c)
  <2>1. PICK k \in (todo[c] \cap Contents(m.keys)) \ DOMAIN m.registers :
          /\ m' = [m EXCEPT !.registers = [x \in DOMAIN m.registers \cup {k} |->
                     IF x = k THEN FirstAssign(Here, arg[c].registers[k].val) ELSE m.registers[x]]]
          /\ todo'[c] = todo[c] \ {k}
    BY <1>6, <1>19 DEF CreateRegister
  <2>2. /\ pc[c] = "registers" /\ pc'[c] = "compare" /\ keys_copy' = keys_copy
    BY <1>19, StepAlone DEF CreateRegister
  <2>3. m'.keys = m.keys /\ DOMAIN m'.registers = DOMAIN m.registers \cup {k}
    BY <2>1, Assigned
  <2> QED BY <1>17, <1>18, <2>1, <2>2, <2>3 DEF RegisterSteps
<1>20. CASE FindRegister(c)
  <2>1. /\ pc[c] = "registers" /\ pc'[c] = "compare" /\ keys_copy' = keys_copy /\ m' = m
        /\ \E k \in todo[c] \cap DOMAIN m.registers : todo'[c] = todo[c] \ {k}
    BY <1>6, <1>20, StepAlone DEF FindRegister
  <2> QED BY <1>17, <1>18, <2>1 DEF RegisterSteps
<1>21. CASE PassRegister(c)
  <2>1. PICK k \in todo[c] \ (DOMAIN m.registers \cup Contents(m.keys)) :
          RegistersLeft(c, "registers", todo[c] \ {k}) /\ m' = m /\ keys_copy' = keys_copy
    BY <1>21 DEF PassRegister
  <2> QED BY <1>15, <1>17, <1>18, <2>1 DEF RegisterSteps
<1>22. CASE KeepRegister(c)
  <2>1. RegistersLeft(c, "compare", todo[c]) /\ m' = m /\ keys_copy' = keys_copy
    BY <1>22 DEF KeepRegister
  <2> QED BY <1>15, <1>17, <1>18, <2>1 DEF RegisterSteps
<1>23. CASE ReplaceRegister(c)
  <2>1. /\ pc[c] = "compare" /\ pc'[c] = "write_value" /\ UNCHANGED <<m, keys_copy, todo>>
    BY <1>23, StepAlone DEF ReplaceRegister, loop
  <2> QED BY <1>17, <1>18, <2>1 DEF RegisterSteps
<1>24. ASSUME NEW x, m' = (IF entry[c] \in DOMAIN m.registers
                           THEN [m EXCEPT !.registers[entry[c]] = x] ELSE m)
       PROVE  m'.keys = m.keys /\ DOMAIN m'.registers = DOMAIN m.registers
  <2>1. CASE entry[c] \in DOMAIN m.registers
    <3>1. m' = [m EXCEPT !.registers = [m.registers EXCEPT ![entry[c]] = x]]
      BY <1>24, <2>1, AssignEntry
    <3> QED BY <3>1, Assigned
  <2> QED BY <1>24, <2>1
<1>25. CASE WriteValue(c)
  <2>1. /\ pc[c] = "write_value" /\ pc'[c] = "write_timestamp" /\ UNCHANGED <<keys_copy, todo>>
    BY <1>25, StepAlone DEF WriteValue, loop
  <2>2. m'.keys = m.keys /\ DOMAIN m'.registers = DOMAIN m.registers
    BY <1>24, <1>25 DEF WriteValue
  <2> QED BY <1>17, <1>18, <2>1, <2>2 DEF RegisterSteps
<1>26. CASE WriteTimestamp(c)
  <2>1. RegistersLeft(c, "write_timestamp", todo[c]) /\ keys_copy' = keys_copy
    BY <1>26 DEF WriteTimestamp
  <2>2. m'.keys = m.keys /\ DOMAIN m'.registers = DOMAIN m.registers
    BY <1>24, <1>26 DEF WriteTimestamp
  <2> QED BY <1>15, <1>17, <1>18, <2>1, <2>2 DEF RegisterSteps
<1> QED BY <1>7, <1>10, <1>11, <1>12, <1>13, <1>16, <1>19, <1>20, <1>21, <1>22, <1>23, <1>25,
           <1>26 DEF MergeStep

LEMMA ToJsonWhole ==
  ASSUME Inv, Inv', ~overlapped => Whole, [Next]_vars, ~overlapped',
         NEW c \in Client, ToJsonStep(c)
  PROVE  Whole'
<1> USE DEF Midway, MergeSteps, ToJsonSteps
<1>1. peer' = peer /\ m' = m
  BY DEF ToJsonStep, WriteElements, WriteVersions, Broadcast, Reply
<1>2. \E from, to : Step(c, from, to)
  BY DEF ToJsonStep, WriteElements, WriteVersions, Broadcast, Reply
<1>3. Whole /\ \A d \in Client \ {c} : pc'[d] = pc[d] /\ pc[d] \notin Midway
  BY <1>2, StepAlone
<1>4. /\ AtRest(c) /\ json = [d \in Client |-> json[d]] /\ arg = [d \in Client |-> arg[d]]
      /\ request \in [Client -> {"none", "client", "replica", "reply"}] /\ Flow(c)
      /\ json[c] = AMap(json[c].keys.elements, json[c].keys.versions, json[c].registers)
  BY <1>3 DEF Whole, Inv, Control, MapsSound, Sound
<1>5. ASSUME \A d \in Client \ {c} :
               arg'[d] = arg[d] /\ json'[d] = json[d] /\ request'[d] = request[d],
             Good(arg'[c], cmap, added, purged),
             request'[c] = "replica" => Good(json'[c], cmap, added, purged),
             pc'[c] \in Midway => Partway(c)',
             pc'[c] \notin Midway => Good(m', cmap, added, purged)
      PROVE  Whole'
  <2>1. \A d \in Client \ {c} :
          /\ pc'[d] = pc[d] /\ pc[d] \notin Midway
          /\ arg'[d] = arg[d] /\ json'[d] = json[d] /\ request'[d] = request[d]
    BY <1>3, <1>5
  <2> HIDE DEF Midway
  <2> QED BY <1>1, <1>3, <1>5, <2>1, AloneWhole
<1>6. CASE WriteElements(c)
  <2>1. /\ pc[c] = "write_elements" /\ pc'[c] = "write_versions"
        /\ UNCHANGED <<cmap, arg, request, added, purged>>
        /\ json' = [json EXCEPT ![c] = [json[c] EXCEPT !.keys.elements = m.keys.elements]]
    BY <1>6, StepAlone DEF WriteElements, history
  <2>2. Good(m, cmap, added, purged)
    BY <1>3, <2>1 DEF Whole
  <2>3. json'[c].keys.elements = m.keys.elements
    <3>1. json'[c] = AMap(m.keys.elements, json[c].keys.versions, json[c].registers)
      BY <1>4, <2>1, AssignParts
    <3> QED BY <3>1, PartsOf
  <2>4. PartwayToJson(c)'
    BY <1>1, <2>1, <2>2, <2>3 DEF PartwayToJson
  <2>5. request'[c] # "replica"
    BY <1>4, <2>1 DEF Flow
  <2> QED BY <1>4, <1>5, <2>1, <2>4, <2>5 DEF Partway, AtRest
<1>7. CASE WriteVersions(c)
  <2>1. /\ pc[c] = "write_versions" /\ pc'[c] = "write_registers"
        /\ UNCHANGED <<cmap, arg, request, added, purged>>
        /\ json' = [json EXCEPT ![c] = [json[c] EXCEPT !.keys.versions = m.keys.versions]]
    BY <1>7, StepAlone DEF WriteVersions, history
  <2>2. PartwayToJson(c)
    BY <1>3, <2>1 DEF Whole, Partway
  <2>3. json'[c].keys.versions = m.keys.versions /\ json'[c].keys.elements = json[c].keys.elements
    <3>1. json'[c] = AMap(json[c].keys.elements, m.keys.versions, json[c].registers)
      BY <1>4, <2>1, AssignParts
    <3> QED BY <3>1, PartsOf
  <2>4. PartwayToJson(c)'
    BY <1>1, <2>1, <2>2, <2>3 DEF PartwayToJson
  <2>5. request'[c] # "replica"
    BY <1>4, <2>1 DEF Flow
  <2> QED BY <1>4, <1>5, <2>1, <2>4, <2>5 DEF Partway, AtRest
<1>8. CASE Broadcast(c)
  <2>1. pc[c] = "write_registers" /\ pc'[c] = "copy"
    BY <1>8, StepAlone DEF Broadcast
  <2>2. [json[c] EXCEPT !.registers = m.registers] = m /\ Good(m, cmap, added, purged)
    BY <1>3, <2>1, Serialized
  <2>3. /\ json' = [json EXCEPT ![c] = m] /\ arg' = [arg EXCEPT ![c] = m]
        /\ request' = [request EXCEPT ![c] = "replica"]
    BY <1>8, <2>2 DEF Broadcast
  <2> QED BY <1>1, <1>4, <1>5, <2>1, <2>2, <2>3
<1>9. CASE Reply(c)
  <2>1. pc[c] = "write_registers" /\ pc'[c] = "ready"
    BY <1>9, StepAlone DEF Reply
  <2>2. Good(m, cmap, added, purged)
    BY <1>3, <2>1, Serialized
  <2>3. /\ json' = [json EXCEPT ![c] = NewMap(c)] /\ arg' = [arg EXCEPT ![c] = NewMap(c)]
        /\ request' = [request EXCEPT ![c] = "none"]
    BY <1>9 DEF Reply
  <2>4. Good(NewMap(c), cmap, added, purged)
    <3>1. added \in Additions /\ DOMAIN cmap = Client
      <4>1. /\ cmap = [d \in Client |-> cmap[d]] /\ Client \subseteq Replica
            /\ added \in [Key -> SUBSET (Client \X Nat)]
        BY Identifiers DEF Inv, Control
      <4> QED BY <4>1 DEF Additions
    <3>2. HistoryObserved(cmap, added) /\ \A d \in DOMAIN cmap : WellFormed(cmap[d])
      BY <1>3, <3>1 DEF Whole, AtRest, Good
    <3> QED BY <3>2, <3>1, Identifiers, NewMapWellFormed, NewMapSafe DEF Good
  <2> QED BY <1>1, <1>4, <1>5, <2>1, <2>2, <2>3, <2>4
<1> QED BY <1>6, <1>7, <1>8, <1>9 DEF ToJsonStep

LEMMA OtherWhole ==
  ASSUME Inv, Inv', Whole, [Next]_vars, NEW c \in Client,
         ClientStep(c) \/ Deliver(c) \/ Answered(c) \/ UNCHANGED vars
  PROVE  Whole'
<1> USE DEF Midway, MergeSteps, ToJsonSteps
<1>1. /\ \A d \in Client : AtRest(d) /\ Flow(d)
      /\ Good(peer, cmap, added, purged)
      /\ pc \in [Client -> MergeSteps \cup ToJsonSteps \cup {"ready"}]
      /\ arg = [d \in Client |-> arg[d]]
      /\ request \in [Client -> {"none", "client", "replica", "reply"}]
  BY DEF Whole, Inv, Control
<1>2. ASSUME m' = m, peer' = peer, UNCHANGED handler PROVE Whole'
  <2>1. \A d \in Client : Good(arg'[d], cmap, added, purged)
    BY <1>1, <1>2 DEF handler, AtRest
  <2>2. \A d \in Client : request'[d] = "replica" => Good(json'[d], cmap, added, purged)
    BY <1>1, <1>2 DEF handler, AtRest
  <2>3. UNCHANGED <<pc, arg, json, keys_copy, loop>>
    BY <1>2 DEF handler
  <2> HIDE DEF Midway
  <2> QED BY <1>1, <1>2, <2>1, <2>2, <2>3, QuietWhole
<1>3. CASE Post(c)
  <2>1. /\ m' = m /\ peer' = peer /\ json' = json /\ keys_copy' = keys_copy
        /\ UNCHANGED loop /\ request[c] = "none" /\ request' = [request EXCEPT ![c] = "client"]
        /\ pc' = [pc EXCEPT ![c] = "copy"] /\ arg' = [arg EXCEPT ![c] = cmap[c]]
    BY <1>3 DEF Post
  <2>2. pc[c] = "ready"
    BY <1>1, <2>1 DEF Flow
  <2>3. \A d \in Client :
          /\ pc'[d] \in Midway <=> pc[d] \in Midway
          /\ pc[d] \in Midway =>
               /\ pc'[d] = pc[d] /\ arg'[d] = arg[d] /\ json'[d] = json[d]
               /\ keys_copy'[d] = keys_copy[d]
    BY <1>1, <2>1, <2>2
  <2>4. \A d \in Client : Good(arg'[d], cmap, added, purged)
    BY <1>1, <2>1 DEF AtRest
  <2>5. \A d \in Client : request'[d] = "replica" => Good(json'[d], cmap, added, purged)
    BY <1>1, <2>1 DEF AtRest
  <2> HIDE DEF Midway
  <2> QED BY <1>1, <2>1, <2>3, <2>4, <2>5, QuietWhole
<1>4. CASE Deliver(c)
  <2>1. /\ m' = m /\ UNCHANGED <<request, pc, arg, json, keys_copy, loop>>
        /\ request[c] = "replica" /\ peer' = MapMerge(peer, Peer, json[c])
    BY <1>4 DEF Deliver
  <2>2. Good(peer', cmap, added, purged)
    BY <1>1, <2>1, Identifiers, GoodMerge DEF AtRest
  <2>3. \A d \in Client : Good(arg'[d], cmap, added, purged)
    BY <1>1, <2>1 DEF AtRest
  <2>4. \A d \in Client : request'[d] = "replica" => Good(json'[d], cmap, added, purged)
    BY <1>1, <2>1 DEF AtRest
  <2>5. \A d \in Client :
          /\ pc'[d] \in Midway <=> pc[d] \in Midway
          /\ pc[d] \in Midway =>
               /\ pc'[d] = pc[d] /\ arg'[d] = arg[d] /\ json'[d] = json[d]
               /\ keys_copy'[d] = keys_copy[d]
    BY <2>1
  <2> HIDE DEF Midway
  <2> QED BY <2>1, <2>2, <2>3, <2>4, <2>5, QuietWhole
<1>5. CASE Answered(c)
  <2>1. /\ m' = m /\ peer' = peer /\ arg' = arg /\ json' = json /\ keys_copy' = keys_copy
        /\ UNCHANGED loop /\ request' = [request EXCEPT ![c] = "reply"]
        /\ pc[c] = "ready" /\ pc' = [pc EXCEPT ![c] = "write_elements"]
    BY <1>5 DEF Answered
  <2>2. \A d \in Client :
          /\ pc'[d] \in Midway <=> pc[d] \in Midway
          /\ pc[d] \in Midway =>
               /\ pc'[d] = pc[d] /\ arg'[d] = arg[d] /\ json'[d] = json[d]
               /\ keys_copy'[d] = keys_copy[d]
    BY <1>1, <2>1
  <2>3. \A d \in Client : Good(arg'[d], cmap, added, purged)
    BY <1>1, <2>1 DEF AtRest
  <2>4. \A d \in Client : request'[d] = "replica" => Good(json'[d], cmap, added, purged)
    BY <1>1, <2>1 DEF AtRest
  <2> HIDE DEF Midway
  <2> QED BY <1>1, <2>1, <2>2, <2>3, <2>4, QuietWhole
<1>6. ASSUME UNCHANGED vars \/ \E k \in Key : Put(c, k) \/ RemoveKey(c, k)
      PROVE  m' = m /\ peer' = peer /\ UNCHANGED handler
  BY <1>6 DEF vars, Put, RemoveKey
<1> QED BY <1>2, <1>3, <1>4, <1>5, <1>6 DEF ClientStep

LEMMA WholeStep == WholeInv /\ [Next]_vars => WholeInv'
<1> SUFFICES ASSUME WholeInv, [Next]_vars, ~overlapped' PROVE Whole'
  BY InvStep DEF WholeInv
<1>1. Inv /\ Inv' /\ (~overlapped => Whole)
  BY InvStep DEF WholeInv
<1>2. CASE \E c \in Client : MergeStep(c)
  BY <1>1, <1>2, MergeWhole
<1>3. CASE \E c \in Client : ToJsonStep(c)
  BY <1>1, <1>3, ToJsonWhole
<1>4. CASE \E c \in Client : ClientStep(c) \/ Deliver(c) \/ Answered(c)
  <2>1. overlapped' = overlapped
    BY <1>4 DEF ClientStep, Put, RemoveKey, Post, Deliver, Answered
  <2> QED BY <1>1, <1>4, <2>1, OtherWhole
<1>5. CASE UNCHANGED vars
  <2>1. Whole
    BY <1>1, <1>5 DEF vars
  <2>2. CASE Client # {}
    BY <1>1, <1>5, <2>1, <2>2, OtherWhole
  <2>3. CASE Client = {}
    BY <1>5, <2>1, <2>3 DEF vars, handler, history, Whole
  <2> QED BY <2>2, <2>3
<1> QED BY <1>2, <1>3, <1>4, <1>5 DEF Next

LEMMA WholeInit == Init => WholeInv
<1> SUFFICES ASSUME Init PROVE Whole
  BY InvInit DEF WholeInv
<1>1. Inv
  BY InvInit
<1>2. ASSUME NEW c \in Client PROVE cmap[c].keys.versions[c] = 0
  BY Identifiers DEF Init, NewMap, NewSet, NoTags
<1>3. HistoryObserved(cmap, added)
  BY <1>2 DEF Init, HistoryObserved
<1>4. ASSUME NEW id \in Replica PROVE Good(NewMap(id), cmap, added, purged)
  <2>1. \A c \in DOMAIN cmap : WellFormed(cmap[c])
    BY Identifiers, NewMapWellFormed DEF Init
  <2>2. DOMAIN cmap \subseteq Replica /\ added \in Additions
    BY <1>1, Identifiers DEF Inv, Control, Additions
  <2> QED BY <1>3, <2>1, <2>2, NewMapWellFormed, NewMapSafe DEF Good
<1>5. \A c \in Client : AtRest(c) /\ pc[c] \notin Midway
  BY <1>4, Identifiers DEF Init, AtRest, Midway, MergeSteps, ToJsonSteps
<1> QED BY <1>3, <1>4, <1>5, Identifiers DEF Init, Whole

\* Until two handlers overlap, step-by-step merges and serializations are as good as
\* atomic ones: no addition is lost, and keys and registers match.
THEOREM AtomicUnlessOverlapped == Spec => []SafeUnlessOverlapped
<1>1. Spec => []WholeInv
  BY WholeInit, WholeStep, PTL DEF Spec
<1>2. WholeInv => SafeUnlessOverlapped
  <2> SUFFICES ASSUME WholeInv, ~overlapped
               PROVE  /\ NoLostPut
                      /\ \A map \in MapsAtRest : Contents(map.keys) = DOMAIN map.registers
    BY DEF SafeUnlessOverlapped
  <2>1. ASSUME NEW map \in MapsAtRest PROVE Good(map, cmap, added, purged)
    BY <2>1 DEF MapsAtRest, WholeInv, Whole, AtRest
  <2>2. ASSUME NEW map \in MapsAtRest, NEW k \in Key, ~Contains(map, k)
        PROVE  {t \in added[k] : t[2] <= map.keys.versions[t[1]]} \subseteq purged[k]
    BY <2>1, <2>2 DEF Good, Safe, Accounted, Contains
  <2> QED BY <2>1, <2>2 DEF NoLostPut, Good, WellFormed, KeysMatch
<1> QED BY <1>1, <1>2, PTL
=============================================================================
