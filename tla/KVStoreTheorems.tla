--------------------------- MODULE KVStoreTheorems ---------------------------
(***************************************************************************)
(* Theorems about the key-value store, for every set of clients, servers,  *)
(* keys and values and every bound.                                        *)
(***************************************************************************)
EXTENDS KVStore, CRDTMapTheorems

\* The types of everything but the maps.
Control ==
  /\ cmap = [c \in Client |-> cmap[c]]
  /\ smap = [s \in Server |-> smap[s]]
  /\ body = [c \in Client |-> body[c]]
  /\ \A p \in late : p = [to |-> p.to, body |-> p.body] /\ p.to \in Server
  /\ up \in [Server -> BOOLEAN]
  /\ phase \in [Client -> Phases]
  /\ coord \in [Client -> Server]
  /\ waiting \in [Client -> SUBSET Server]
  /\ oks \in [Client -> 0..ExpectedResponses]
  /\ puts \in [Client -> Nat] /\ \A c \in Client : puts[c] <= MaxPuts[c]
  /\ restarts \in [Client -> Nat] /\ \A c \in Client : restarts[c] <= MaxRestarts[c]
  /\ added \in [Key -> SUBSET (Client \X Nat)]
  /\ purged \in [Key -> SUBSET (Client \X Nat)]

\* The maps.
MapsWellFormed ==
  /\ \A c \in Client : WellFormed(cmap[c])
  /\ \A s \in Server : WellFormed(smap[s])
  /\ \A c \in Client : WellFormed(body[c])
  /\ \A p \in late : WellFormed(p.body)

Inv == Control /\ MapsWellFormed

-----------------------------------------------------------------------------
LEMMA InvImplies == Inv => TypeOK /\ KeysMatchRegisters /\ TagsCovered
<1> SUFFICES ASSUME Inv PROVE TypeOK /\ KeysMatchRegisters /\ TagsCovered
  OBVIOUS
<1>1. \A m \in MapsHeld : WellFormed(m)
  BY DEF Inv, MapsWellFormed, MapsHeld
<1>2. TypeOK
  BY <1>1 DEF Inv, Control, TypeOK, WellFormed
<1>3. KeysMatchRegisters
  BY <1>1 DEF KeysMatchRegisters, WellFormed, KeysMatch
<1>4. TagsCovered
  BY <1>1 DEF TagsCovered, WellFormed, Covered
<1> QED BY <1>2, <1>3, <1>4

LEMMA NoCoordType == NoCoord \in Server
BY KVAssumption DEF NoCoord

LEMMA BoundsType ==
  /\ \A c \in Client : MaxPuts[c] \in Nat /\ MaxRestarts[c] \in Nat
  /\ Client \subseteq Replica /\ Server \subseteq Replica
BY KVAssumption

LEMMA InvInit == Init => Inv
<1> SUFFICES ASSUME Init PROVE Inv
  OBVIOUS
<1>1. Control
  BY NoCoordType, KVAssumption DEF Init, Control, Phases, ExpectedResponses
<1>2. MapsWellFormed
  BY NewMapWellFormed, KVAssumption DEF Init, MapsWellFormed
<1> QED BY <1>1, <1>2 DEF Inv

\* The end of syncs keeps the control state typed and leaves only empty bodies.
LEMMA EndOfSyncsType ==
  ASSUME Inv, NEW clients, EndOfSyncs(clients)
  PROVE  /\ body' = [c \in Client |-> body'[c]]
         /\ phase' \in [Client -> Phases]
         /\ coord' \in [Client -> Server]
         /\ waiting' \in [Client -> SUBSET Server]
         /\ oks' \in [Client -> 0..ExpectedResponses]
         /\ \A c \in Client : body'[c] \in {body[c], NewMap(c)} /\ WellFormed(body'[c])
<1>1. body' = [c \in Client |-> body'[c]]
  BY DEF EndOfSyncs
<1>2. /\ phase' \in [Client -> Phases]
      /\ coord' \in [Client -> Server]
      /\ waiting' \in [Client -> SUBSET Server]
      /\ oks' \in [Client -> 0..ExpectedResponses]
  BY NoCoordType DEF Inv, Control, EndOfSyncs, Phases, ExpectedResponses
<1>3. \A c \in Client : body'[c] \in {body[c], NewMap(c)} /\ WellFormed(body'[c])
  BY NewMapWellFormed, KVAssumption DEF Inv, MapsWellFormed, EndOfSyncs
<1> QED BY <1>1, <1>2, <1>3

LEMMA InvStep == Inv /\ [Next]_vars => Inv'
<1> SUFFICES ASSUME Inv, [Next]_vars PROVE Inv'
  OBVIOUS
<1> USE DEF Inv
<1>1. ASSUME NEW c \in Client, NEW k \in Key, Put(c, k) PROVE Inv'
  <2>1. <<c, puts[c] + 1>> \in Value
    <3>1. puts[c] + 1 \in 1..MaxPuts[c]
      BY <1>1, BoundsType DEF Put, Control
    <3> QED BY <3>1, KVAssumption
  <2>2. WellFormed(MapPut(cmap[c], c, k, <<c, puts[c] + 1>>))
    BY <2>1, MapPutWellFormed, KVAssumption DEF MapsWellFormed
  <2>3. MapsWellFormed'
    BY <1>1, <2>2 DEF Put, MapsWellFormed, Control, sync
  <2>4. cmap[c].keys.versions[c] + 1 \in Nat
    <3>1. cmap[c].keys.versions \in Versions /\ c \in Replica
      BY KVAssumption DEF MapsWellFormed, WellFormed, IsMap, IsSet
    <3> QED BY <3>1, VersionsType
  <2>5. added' \in [Key -> SUBSET (Client \X Nat)]
    BY <1>1, <2>4 DEF Put, Control
  <2>6. puts' \in [Client -> Nat] /\ \A d \in Client : puts'[d] <= MaxPuts[d]
    BY <1>1, BoundsType DEF Put, Control
  <2>7. Control'
    BY <1>1, <2>5, <2>6 DEF Put, Control, sync
  <2> QED BY <2>3, <2>7
<1>2. ASSUME NEW c \in Client, NEW k \in Key, RemoveKey(c, k) PROVE Inv'
  <2>1. MapsWellFormed'
    BY <1>2, MapRemoveWellFormed DEF RemoveKey, MapsWellFormed, Control, sync
  <2>2. Control'
    BY <1>2 DEF RemoveKey, Control, sync
  <2> QED BY <2>1, <2>2
<1>3. ASSUME NEW c \in Client, ClientRestart(c) PROVE Inv'
  <2>1. MapsWellFormed'
    BY <1>3, NewMapWellFormed, KVAssumption DEF ClientRestart, MapsWellFormed, Control
  <2>2. Control'
    <3>1. restarts' \in [Client -> Nat] /\ \A d \in Client : restarts'[d] <= MaxRestarts[d]
      BY <1>3, BoundsType DEF ClientRestart, Control
    <3> QED BY <1>3, <3>1 DEF ClientRestart, Control, Phases
  <2> QED BY <2>1, <2>2
<1>4. ASSUME NEW c \in Client, StartSync(c) \/ LookupFails(c) PROVE Inv'
  BY <1>4 DEF StartSync, LookupFails, Control, MapsWellFormed, Phases, store, history
<1>5. ASSUME NEW c \in Client, NEW s \in Server, Connect(c, s) PROVE Inv'
  BY <1>5 DEF Connect, Control, MapsWellFormed, Phases, store, history
<1>6. ASSUME NEW c \in Client, PostFails(c) PROVE Inv'
  BY <1>6, EndOfSyncsType DEF PostFails, Control, MapsWellFormed, store, history
<1>7. ASSUME NEW c \in Client, HandlePost(c) PROVE Inv'
  <2>1. WellFormed(MapMerge(smap[coord[c]], coord[c], cmap[c]))
    BY MapMergeWellFormed, KVAssumption DEF Control, MapsWellFormed
  <2>2. MapsWellFormed'
    BY <1>7, <2>1 DEF HandlePost, MapsWellFormed, Control
  <2>3. Control'
    BY <1>7 DEF HandlePost, Control, Phases, history
  <2> QED BY <2>2, <2>3
<1>8. ASSUME NEW c \in Client, Broadcast(c) PROVE Inv'
  <2>1. MapsWellFormed'
    BY <1>8 DEF Broadcast, MapsWellFormed, Control, store
  <2>2. Control'
    BY <1>8 DEF Broadcast, Control, Phases, ExpectedResponses, store, history
  <2> QED BY <2>1, <2>2
<1>9. ASSUME NEW c \in Client, NEW s \in Server, DeliverPost(c, s) PROVE Inv'
  <2>1. WellFormed(MapMerge(smap[s], s, body[c]))
    BY MapMergeWellFormed, KVAssumption DEF MapsWellFormed
  <2>2. MapsWellFormed'
    BY <1>9, <2>1 DEF DeliverPost, MapsWellFormed, Control
  <2>3. Control'
    <3>1. oks' \in [Client -> 0..ExpectedResponses]
      BY <1>9 DEF DeliverPost, Control, ExpectedResponses
    <3>2. waiting' \in [Client -> SUBSET Server]
      BY <1>9 DEF DeliverPost, Control
    <3> QED BY <1>9, <3>1, <3>2 DEF DeliverPost, Control, history
  <2> QED BY <2>2, <2>3
<1>10. ASSUME NEW c \in Client, NEW s \in Server, PostRefused(c, s) PROVE Inv'
  BY <1>10 DEF PostRefused, Control, MapsWellFormed, store, history
<1>11. ASSUME NEW c \in Client, NEW s \in Server, PostTimesOut(c, s) PROVE Inv'
  <2>1. \A p \in late' : p \in late \/ (p.to = s /\ p.body = body[c]
                                       /\ p = [to |-> p.to, body |-> p.body])
    BY <1>11 DEF PostTimesOut
  <2>2. MapsWellFormed'
    BY <1>11, <2>1 DEF PostTimesOut, MapsWellFormed, store
  <2>3. Control'
    BY <1>11, <2>1 DEF PostTimesOut, Control, store, history
  <2> QED BY <2>2, <2>3
<1>12. ASSUME NEW c \in Client, ClientTimesOut(c) PROVE Inv'
  <2>1. \A p \in late' : \/ p \in late
                         \/ /\ p.to \in Server /\ p.body = body[c]
                            /\ p = [to |-> p.to, body |-> p.body]
    BY <1>12 DEF ClientTimesOut, Control
  <2>2. EndOfSyncs({c})
    BY <1>12 DEF ClientTimesOut
  <2>3. MapsWellFormed'
    BY <1>12, <2>1, <2>2, EndOfSyncsType DEF ClientTimesOut, MapsWellFormed, store
  <2>4. Control'
    BY <1>12, <2>1, <2>2, EndOfSyncsType DEF ClientTimesOut, Control, store, history
  <2> QED BY <2>3, <2>4
<1>13. ASSUME NEW p \in late, DeliverLate(p) PROVE Inv'
  <2>1. WellFormed(MapMerge(smap[p.to], p.to, p.body))
    BY MapMergeWellFormed, KVAssumption DEF Control, MapsWellFormed
  <2>2. MapsWellFormed'
    BY <1>13, <2>1 DEF DeliverLate, MapsWellFormed, Control, sync
  <2>3. Control'
    BY <1>13 DEF DeliverLate, Control, sync, history
  <2> QED BY <2>2, <2>3
<1>14. ASSUME NEW c \in Client, SyncSucceeds(c) PROVE Inv'
  <2>1. WellFormed(MapMerge(cmap[c], c, smap[coord[c]]))
    BY MapMergeWellFormed, KVAssumption DEF Control, MapsWellFormed
  <2>2. EndOfSyncs({c})
    BY <1>14 DEF SyncSucceeds, EndOfSync
  <2>3. MapsWellFormed'
    BY <1>14, <2>1, <2>2, EndOfSyncsType DEF SyncSucceeds, EndOfSync, MapsWellFormed, Control
  <2>4. Control'
    BY <1>14, <2>2, EndOfSyncsType DEF SyncSucceeds, EndOfSync, Control, history
  <2> QED BY <2>3, <2>4
<1>15. ASSUME NEW c \in Client, SyncFails(c) PROVE Inv'
  <2>1. EndOfSyncs({c})
    BY <1>15 DEF SyncFails, EndOfSync
  <2> QED BY <1>15, <2>1, EndOfSyncsType
          DEF SyncFails, EndOfSync, Control, MapsWellFormed, history
<1>16. ASSUME NEW s \in Server, Crash(s) PROVE Inv'
  <2> DEFINE mine == {c \in Client : coord[c] = s /\ phase[c] \in {"merged", "waiting"}}
  <2>1. \A p \in late' : \/ p \in late
                         \/ \E c \in Client : /\ p.to \in Server /\ p.body = body[c]
                                              /\ p = [to |-> p.to, body |-> p.body]
    BY <1>16 DEF Crash, Control
  <2>2. EndOfSyncs(mine)
    BY <1>16 DEF Crash
  <2>3. /\ cmap' = cmap /\ history' = history
        /\ smap' = [smap EXCEPT ![s] = NewMap(s)]
        /\ up' = [up EXCEPT ![s] = FALSE]
    BY <1>16 DEF Crash
  <2> HIDE DEF mine
  <2>4. WellFormed(NewMap(s))
    BY NewMapWellFormed, KVAssumption
  <2>5. MapsWellFormed'
    BY <2>1, <2>2, <2>3, <2>4, EndOfSyncsType DEF MapsWellFormed, Control
  <2>6. Control'
    BY <2>1, <2>2, <2>3, EndOfSyncsType DEF Control, history
  <2> QED BY <2>5, <2>6
<1>17. ASSUME NEW s \in Server, Restart(s) PROVE Inv'
  BY <1>17 DEF Restart, Control, MapsWellFormed, store, sync, history
<1>18. CASE UNCHANGED vars
  BY <1>18 DEF vars, store, sync, history, Control, MapsWellFormed
<1> QED BY <1>1, <1>2, <1>3, <1>4, <1>5, <1>6, <1>7, <1>8, <1>9, <1>10, <1>11, <1>12,
           <1>13, <1>14, <1>15, <1>16, <1>17, <1>18
        DEF Next, ClientStep, ServerStep

\* Every variable keeps its type: every map that is held or under way is a map, a
\* counted OK never exceeds what the coordinator expects.
THEOREM TypeCorrect == Spec => []TypeOK
<1>1. Spec => []Inv
  BY InvInit, InvStep, PTL DEF Spec
<1> QED BY <1>1, InvImplies, PTL

\* map.hh keeps the key set and the registers in step, in every map of the system.
THEOREM KeysAlwaysMatch == Spec => []KeysMatchRegisters
<1>1. Spec => []Inv
  BY InvInit, InvStep, PTL DEF Spec
<1> QED BY <1>1, InvImplies, PTL

\* No map records an addition it has not observed.
THEOREM TagsAlwaysCovered == Spec => []TagsCovered
<1>1. Spec => []Inv
  BY InvInit, InvStep, PTL DEF Spec
<1> QED BY <1>1, InvImplies, PTL

-----------------------------------------------------------------------------
\* What an operation of the code makes of the maps that are held.
Made(map) ==
  \/ map \in MapsHeld
  \/ \E id \in Replica : map = NewMap(id)
  \/ \E c \in Client, k \in Key : \E v : map = MapPut(cmap[c], c, k, v)
  \/ \E old \in MapsHeld, k \in Key : map = MapRemove(old, k)
  \/ \E old, remote \in MapsHeld, id \in Replica : map = MapMerge(old, id, remote)

\* In every state a step leads to, all maps are among these.
LEMMA AllMade ==
  ASSUME Inv, [Next]_vars
  PROVE  \A m \in MapsHeld' : Made(m)
<1> DEFINE Posts == /\ \A c \in Client : Made(body'[c])
                    /\ \A p \in late' : Made(p.body)
           Maps  == /\ \A c \in Client : Made(cmap'[c])
                    /\ \A s \in Server : Made(smap'[s])
<1>1. /\ Control
      /\ \A m \in MapsHeld : Made(m)
      /\ \A c \in Client : cmap[c] \in MapsHeld /\ body[c] \in MapsHeld /\ c \in Replica
      /\ \A s \in Server : smap[s] \in MapsHeld /\ s \in Replica
      /\ \A p \in late : p.body \in MapsHeld /\ p.to \in Server
  BY BoundsType DEF Inv, Control, Made, MapsHeld
<1>2. /\ \A m \in MapsHeld : Made(m)
      /\ \A id \in Replica : Made(NewMap(id))
      /\ \A c \in Client, k \in Key : \A v : Made(MapPut(cmap[c], c, k, v))
      /\ \A m \in MapsHeld, k \in Key : Made(MapRemove(m, k))
      /\ \A m \in MapsHeld, m2 \in MapsHeld, id \in Replica : Made(MapMerge(m, id, m2))
  BY DEF Made
<1> HIDE DEF Made
<1>3. ASSUME UNCHANGED store PROVE Maps
  BY <1>1, <1>3 DEF store
<1>4. ASSUME UNCHANGED <<body, late>> PROVE Posts
  BY <1>1, <1>4
<1>5. ASSUME NEW clients, EndOfSyncs(clients) PROVE \A c \in Client : Made(body'[c])
  BY <1>1, <1>2, <1>5 DEF EndOfSyncs
<1>6. ASSUME NEW c \in Client, ClientStep(c) PROVE Maps /\ Posts
  <2>1. ASSUME NEW k \in Key, Put(c, k) PROVE Maps /\ Posts
    BY <1>1, <1>2, <1>4, <2>1 DEF Put, Control, sync
  <2>2. ASSUME NEW k \in Key, RemoveKey(c, k) PROVE Maps /\ Posts
    BY <1>1, <1>2, <1>4, <2>2 DEF RemoveKey, Control, sync
  <2>3. CASE ClientRestart(c)
    BY <1>1, <1>2, <1>4, <2>3 DEF ClientRestart, Control
  <2>4. CASE StartSync(c) \/ LookupFails(c) \/ \E s \in Server : Connect(c, s)
    BY <1>3, <1>4, <2>4 DEF StartSync, LookupFails, Connect
  <2>5. CASE PostFails(c)
    BY <1>1, <1>3, <1>5, <2>5 DEF PostFails
  <2> QED BY <1>6, <2>1, <2>2, <2>3, <2>4, <2>5 DEF ClientStep
<1>7. ASSUME NEW c \in Client, ServerStep(c) PROVE Maps /\ Posts
  <2>1. CASE HandlePost(c)
    BY <1>1, <1>2, <1>4, <2>1 DEF HandlePost, Control
  <2>2. CASE Broadcast(c)
    BY <1>1, <1>3, <2>2 DEF Broadcast, Control
  <2>3. ASSUME NEW s \in Server, DeliverPost(c, s) PROVE Maps /\ Posts
    BY <1>1, <1>2, <1>4, <2>3 DEF DeliverPost, Control
  <2>4. ASSUME NEW s \in Server, PostRefused(c, s) PROVE Maps /\ Posts
    BY <1>3, <1>4, <2>4 DEF PostRefused
  <2>5. ASSUME NEW s \in Server, PostTimesOut(c, s) PROVE Maps /\ Posts
    BY <1>1, <1>3, <2>5 DEF PostTimesOut
  <2>6. CASE ClientTimesOut(c)
    BY <1>1, <1>3, <1>5, <2>6 DEF ClientTimesOut
  <2>7. CASE SyncSucceeds(c)
    BY <1>1, <1>2, <1>5, <2>7 DEF SyncSucceeds, EndOfSync, Control
  <2>8. CASE SyncFails(c)
    BY <1>1, <1>3, <1>5, <2>8 DEF SyncFails, EndOfSync, store
  <2> QED BY <1>7, <2>1, <2>2, <2>3, <2>4, <2>5, <2>6, <2>7, <2>8 DEF ServerStep
<1>8. ASSUME NEW p \in late, DeliverLate(p) PROVE Maps /\ Posts
  BY <1>1, <1>2, <1>8 DEF DeliverLate, Control, sync
<1>9. ASSUME NEW s \in Server, Crash(s) PROVE Maps /\ Posts
  <2> DEFINE mine == {c \in Client : coord[c] = s /\ phase[c] \in {"merged", "waiting"}}
  <2>1. /\ cmap' = cmap /\ smap' = [smap EXCEPT ![s] = NewMap(s)]
        /\ EndOfSyncs(mine)
        /\ \A p \in late' : p \in late \/ \E c \in Client : p.body = body[c]
    BY <1>9 DEF Crash
  <2> HIDE DEF mine
  <2> QED BY <1>1, <1>2, <1>5, <2>1 DEF Control
<1>10. ASSUME NEW s \in Server, Restart(s) PROVE Maps /\ Posts
  BY <1>3, <1>4, <1>10 DEF Restart, sync
<1>11. ASSUME UNCHANGED vars PROVE Maps /\ Posts
  BY <1>3, <1>4, <1>11 DEF vars, sync
<1>12. Maps /\ Posts
  BY <1>6, <1>7, <1>8, <1>9, <1>10, <1>11 DEF Next
<1> QED BY <1>12 DEF MapsHeld

TaggedInv == Inv /\ \A m \in MapsHeld : Tagged(m)

LEMMA HeldWellFormed == Inv => \A m \in MapsHeld : WellFormed(m)
BY DEF Inv, MapsWellFormed, MapsHeld

LEMMA TaggedInit == Init => TaggedInv
<1> SUFFICES ASSUME Init PROVE TaggedInv
  OBVIOUS
<1>1. \A m \in MapsHeld : \E id \in Replica : m = NewMap(id)
  BY BoundsType DEF Init, MapsHeld
<1> QED BY <1>1, InvInit, NewMapTagged DEF TaggedInv

LEMMA TaggedStep == TaggedInv /\ [Next]_vars => TaggedInv'
<1> SUFFICES ASSUME TaggedInv, [Next]_vars PROVE TaggedInv'
  OBVIOUS
<1>1. \A m \in MapsHeld : WellFormed(m) /\ Tagged(m)
  BY HeldWellFormed DEF TaggedInv
<1>2. ASSUME NEW m, Made(m) PROVE Tagged(m)
  <2>1. \A c \in Client : cmap[c] \in MapsHeld /\ c \in Replica
    BY BoundsType DEF MapsHeld
  <2> QED BY <1>1, <1>2, <2>1, NewMapTagged, PutTagged, RemoveTagged, MergeTagged DEF Made
<1>3. \A m \in MapsHeld' : Tagged(m)
  BY <1>2, AllMade DEF TaggedInv
<1>4. Inv'
  BY InvStep DEF TaggedInv
<1> QED BY <1>3, <1>4 DEF TaggedInv

-----------------------------------------------------------------------------
\* No map goes back.
LEMMA AdvancesToSelf ==
  ASSUME NEW map, WellFormed(map)
  PROVE  Advances(map, map)
<1>1. \A r \in Replica : map.keys.versions[r] \in Int
  BY VersionsType DEF WellFormed, IsMap, IsSet
<1>2. \A k \in DOMAIN map.registers : map.registers[k] \in Register
  BY DEF WellFormed, IsMap
<1>3. \A reg \in Register : ~TimestampLess(reg, reg)
  BY NotOlderThanItself
<1> QED BY <1>1, <1>2, <1>3 DEF Advances, Covers

LEMMA MergeAdvances ==
  ASSUME NEW map, NEW remote, NEW id \in Replica, WellFormed(map), WellFormed(remote)
  PROVE  Advances(map, MapMerge(map, id, remote))
<1> DEFINE merged  == Merge(map.keys, remote.keys)
           kept    == DOMAIN map.registers \ (Contents(map.keys) \ Contents(merged))
           adopted == (DOMAIN remote.registers \ kept) \cap Contents(merged)
           new     == MapMerge(map, id, remote)
<1>1. /\ IsSet(map.keys) /\ IsSet(remote.keys) /\ new.keys = merged
      /\ \A k \in DOMAIN map.registers : map.registers[k] \in Register
      /\ \A k \in DOMAIN remote.registers : remote.registers[k] \in Register
  BY MapMergeWellFormed DEF WellFormed, IsMap
<1>2. Covers(new, map)
  BY <1>1, MergeType DEF Covers
<1>3. ASSUME NEW k \in DOMAIN map.registers, k \in DOMAIN new.registers
      PROVE  new.registers[k] \in {map.registers[k], RegisterMerge(map.registers[k], remote.registers[k])}
             /\ (k \notin DOMAIN remote.registers => new.registers[k] = map.registers[k])
  <2>1. k \in kept \cup adopted
    BY <1>3 DEF MapMerge
  <2>2. k \notin adopted
    BY <2>1, <1>3
  <2>3. new.registers[k] = IF k \in DOMAIN remote.registers
                           THEN RegisterMerge(map.registers[k], remote.registers[k])
                           ELSE map.registers[k]
    BY <2>1, <2>2 DEF MapMerge
  <2> QED BY <2>3
<1>4. \A reg \in Register : ~TimestampLess(reg, reg)
  BY NotOlderThanItself
<1>5. ASSUME NEW k \in DOMAIN map.registers \cap DOMAIN new.registers
      PROVE  ~TimestampLess(new.registers[k], map.registers[k])
  BY <1>1, <1>3, <1>4, RegisterMergeAdvances
<1> QED BY <1>2, <1>5 DEF Advances

LEMMA PutAdvances ==
  ASSUME NEW map, WellFormed(map), NEW id \in Replica, NEW k, NEW v
  PROVE  Advances(map, MapPut(map, id, k, v))
<1> DEFINE new == MapPut(map, id, k, v)
<1>1. map.keys.versions \in Versions /\ \A x \in DOMAIN map.registers : map.registers[x] \in Register
  BY DEF WellFormed, IsMap, IsSet
<1>2. Covers(new, map)
  <2>1. new.keys.versions = [map.keys.versions EXCEPT ![id] = map.keys.versions[id] + 1]
    BY DEF MapPut, Add
  <2> QED BY <1>1, <2>1, VersionsType DEF Covers, Versions
<1>3. \A x \in DOMAIN map.registers :
        new.registers[x] \in {map.registers[x], Assign(map.registers[x], id, v)}
  BY DEF MapPut
<1>4. \A reg \in Register : ~TimestampLess(reg, reg)
  BY NotOlderThanItself
<1> QED BY <1>1, <1>2, <1>3, <1>4, AssignAdvances DEF Advances

LEMMA RemoveAdvances ==
  ASSUME NEW map, WellFormed(map), NEW k
  PROVE  Advances(map, MapRemove(map, k))
<1>1. Advances(map, map)
  BY AdvancesToSelf
<1> QED BY <1>1 DEF Advances, Covers, MapRemove, Remove

\* What NeverBack says of a step.
MapsAdvance ==
  /\ \A c \in Client : restarts'[c] = restarts[c] => Advances(cmap[c], cmap'[c])
  /\ \A s \in Server : up'[s] = up[s] => Advances(smap[s], smap'[s])

LEMMA MapsAdvanceStep == Inv /\ [Next]_vars => MapsAdvance
<1> SUFFICES ASSUME Inv, [Next]_vars PROVE MapsAdvance
  OBVIOUS
<1>1. /\ Control
      /\ \A c \in Client : /\ WellFormed(cmap[c]) /\ WellFormed(body[c]) /\ c \in Replica
                           /\ Advances(cmap[c], cmap[c])
      /\ \A s \in Server : /\ WellFormed(smap[s]) /\ s \in Replica
                           /\ Advances(smap[s], smap[s])
      /\ \A p \in late : WellFormed(p.body)
  BY AdvancesToSelf, BoundsType DEF Inv, MapsWellFormed
<1>2. CASE UNCHANGED store
  BY <1>1, <1>2 DEF store, MapsAdvance
<1>3. ASSUME NEW c \in Client, NEW k \in Key, Put(c, k) PROVE MapsAdvance
  BY <1>1, <1>3, PutAdvances DEF Put, MapsAdvance, Control
<1>4. ASSUME NEW c \in Client, NEW k \in Key, RemoveKey(c, k) PROVE MapsAdvance
  BY <1>1, <1>4, RemoveAdvances DEF RemoveKey, MapsAdvance, Control
<1>5. ASSUME NEW c \in Client, ClientRestart(c) PROVE MapsAdvance
  BY <1>1, <1>5 DEF ClientRestart, MapsAdvance, Control
<1>6. ASSUME NEW c \in Client, HandlePost(c) PROVE MapsAdvance
  BY <1>1, <1>6, MergeAdvances DEF HandlePost, MapsAdvance, Control
<1>7. ASSUME NEW c \in Client, NEW s \in Server, DeliverPost(c, s) PROVE MapsAdvance
  BY <1>1, <1>7, MergeAdvances DEF DeliverPost, MapsAdvance, Control
<1>8. ASSUME NEW p \in late, DeliverLate(p) PROVE MapsAdvance
  BY <1>1, <1>8, MergeAdvances DEF DeliverLate, MapsAdvance, Control
<1>9. ASSUME NEW c \in Client, SyncSucceeds(c) PROVE MapsAdvance
  BY <1>1, <1>9, MergeAdvances DEF SyncSucceeds, EndOfSync, MapsAdvance, Control
<1>10. ASSUME NEW s \in Server, Crash(s) PROVE MapsAdvance
  BY <1>1, <1>10 DEF Crash, MapsAdvance, Control
<1>11. ASSUME NEW c \in Client, ClientStep(c) PROVE MapsAdvance
  BY <1>2, <1>3, <1>4, <1>5, <1>11
     DEF ClientStep, StartSync, LookupFails, PostFails, Connect
<1>12. ASSUME NEW c \in Client, ServerStep(c) PROVE MapsAdvance
  <2>1. SyncFails(c) => UNCHANGED store
    BY DEF SyncFails, EndOfSync, store
  <2> QED BY <1>2, <1>6, <1>7, <1>9, <1>12, <2>1
          DEF ServerStep, Broadcast, ClientTimesOut, PostRefused, PostTimesOut
<1>13. CASE UNCHANGED vars
  BY <1>2, <1>13 DEF vars
<1> QED BY <1>2, <1>8, <1>10, <1>11, <1>12, <1>13 DEF Next, Restart

\* Whatever fails and in whatever order posts arrive, no map forgets a version or
\* takes an older register, until its process starts over.
THEOREM NoMapGoesBack == Spec => NeverBack
<1>1. Spec => []Inv
  BY InvInit, InvStep, PTL DEF Spec
<1>2. Inv /\ [Next]_vars => [MapsAdvance]_vars
  BY MapsAdvanceStep
<1>3. Spec => [][MapsAdvance]_vars
  BY <1>1, <1>2, PTL DEF Spec
<1> QED BY <1>3 DEF NeverBack, MapsAdvance

-----------------------------------------------------------------------------
\* Add wins: every map is safe (CRDTMapTheorems).
MapsSafe ==
  /\ \A c \in Client : Safe(cmap[c], cmap, added, purged)
  /\ \A s \in Server : Safe(smap[s], cmap, added, purged)
  /\ \A c \in Client : Safe(body[c], cmap, added, purged)
  /\ \A p \in late : Safe(p.body, cmap, added, purged)

AddWinsInv == Inv /\ HistoryObserved(cmap, added) /\ MapsSafe

LEMMA HistoryType ==
  ASSUME Inv
  PROVE  DOMAIN cmap = Client /\ Client \subseteq Replica /\ added \in Additions
BY KVAssumption DEF Inv, Control, Additions

LEMMA AddWinsInit == Init => AddWinsInv
<1> SUFFICES ASSUME Init PROVE AddWinsInv
  OBVIOUS
<1>1. Inv
  BY InvInit
<1>2. added \in Additions /\ DOMAIN cmap = Client /\ \A k \in Key : added[k] = {}
  BY DEF Init, Additions
<1>3. \A c \in Client : cmap[c] = NewMap(c) /\ cmap[c].keys.versions[c] = 0
  BY BoundsType DEF Init, NewMap, NewSet, NoTags
<1>4. HistoryObserved(cmap, added)
  BY <1>2, <1>3 DEF HistoryObserved
<1>5. \A c \in Client : WellFormed(cmap[c])
  BY <1>1 DEF Inv, MapsWellFormed
<1>6. \A r \in Replica : Safe(NewMap(r), cmap, added, purged)
  BY <1>2, <1>4, <1>5, BoundsType, NewMapSafe
<1>7. MapsSafe
  BY <1>6, BoundsType DEF Init, MapsSafe
<1> QED BY <1>1, <1>4, <1>7 DEF AddWinsInv

\* The steps that leave the clients' maps and the history alone: they are safe if
\* every server map and body after the step is one that was held before, an empty
\* map, or the merge of two maps that were held.
LEMMA MapsSafeStep ==
  ASSUME AddWinsInv, Inv', UNCHANGED <<added, purged>>,
         \A c \in Client : cmap'[c] = cmap[c] \/
           \E s \in Server : cmap'[c] = MapMerge(cmap[c], c, smap[s]),
         \A s \in Server :
           \/ smap'[s] \in {smap[s], NewMap(s)}
           \/ \E c \in Client : smap'[s] \in {MapMerge(smap[s], s, cmap[c]),
                                           MapMerge(smap[s], s, body[c])}
           \/ \E p \in late : smap'[s] = MapMerge(smap[s], s, p.body),
         \A c \in Client : \/ body'[c] \in {body[c], NewMap(c)}
                           \/ \E s \in Server : body'[c] = smap[s],
         \A p \in late' : p \in late \/ \E c \in Client : p.body = body[c]
  PROVE  HistoryObserved(cmap', added') /\ MapsSafe'
<1>1. /\ \A c \in Client : WellFormed(cmap[c]) /\ Safe(cmap[c], cmap, added, purged)
      /\ \A s \in Server : WellFormed(smap[s]) /\ Safe(smap[s], cmap, added, purged)
      /\ \A c \in Client : WellFormed(body[c]) /\ Safe(body[c], cmap, added, purged)
      /\ \A p \in late : WellFormed(p.body) /\ Safe(p.body, cmap, added, purged)
  BY DEF AddWinsInv, Inv, MapsWellFormed, MapsSafe
<1>2. /\ added \in Additions /\ HistoryObserved(cmap, added)
      /\ DOMAIN cmap = Client /\ DOMAIN cmap' = Client
  <2>1. DOMAIN cmap' = Client
    BY DEF Inv, Control
  <2> QED BY <2>1, HistoryType DEF AddWinsInv
<1>3. Client \subseteq Replica /\ Server \subseteq Replica
  BY BoundsType
<1>4. \A r \in Replica : WellFormed(NewMap(r)) /\ Safe(NewMap(r), cmap, added, purged)
  BY <1>1, <1>2, <1>3, NewMapWellFormed, NewMapSafe
<1>5. \A c \in Client : WellFormed(cmap'[c]) /\ Safe(cmap'[c], cmap, added, purged)
  BY <1>1, <1>2, <1>3, MapMergeWellFormed, SafeMerge
<1>6. \A s \in Server : WellFormed(smap'[s]) /\ Safe(smap'[s], cmap, added, purged)
  <2> SUFFICES ASSUME NEW s \in Server
               PROVE  WellFormed(smap'[s]) /\ Safe(smap'[s], cmap, added, purged)
    OBVIOUS
  <2>1. \A c \in Client : /\ WellFormed(MapMerge(smap[s], s, cmap[c]))
                          /\ Safe(MapMerge(smap[s], s, cmap[c]), cmap, added, purged)
    BY <1>1, <1>2, <1>3, MapMergeWellFormed, SafeMerge
  <2>2. \A c \in Client : /\ WellFormed(MapMerge(smap[s], s, body[c]))
                          /\ Safe(MapMerge(smap[s], s, body[c]), cmap, added, purged)
    BY <1>1, <1>2, <1>3, MapMergeWellFormed, SafeMerge
  <2>3. \A p \in late : /\ WellFormed(MapMerge(smap[s], s, p.body))
                       /\ Safe(MapMerge(smap[s], s, p.body), cmap, added, purged)
    BY <1>1, <1>2, <1>3, MapMergeWellFormed, SafeMerge
  <2> QED BY <1>1, <1>3, <1>4, <2>1, <2>2, <2>3
<1>7. \A c \in Client : WellFormed(body'[c]) /\ Safe(body'[c], cmap, added, purged)
  BY <1>1, <1>3, <1>4
<1>8. \A p \in late' : WellFormed(p.body) /\ Safe(p.body, cmap, added, purged)
  BY <1>1
<1>9. \A c \in Client : /\ cmap[c].keys.versions[c] \in Int
                        /\ cmap'[c].keys.versions[c] \in Int
                        /\ cmap[c].keys.versions[c] <= cmap'[c].keys.versions[c]
  <2> SUFFICES ASSUME NEW c \in Client
               PROVE  /\ cmap[c].keys.versions[c] \in Int
                      /\ cmap'[c].keys.versions[c] \in Int
                      /\ cmap[c].keys.versions[c] <= cmap'[c].keys.versions[c]
    OBVIOUS
  <2>1. cmap[c].keys.versions[c] \in Int /\ cmap'[c].keys.versions[c] \in Int
    BY <1>1, <1>3, <1>5, WellFormedVersions
  <2>2. ASSUME NEW s \in Server, cmap'[c] = MapMerge(cmap[c], c, smap[s])
        PROVE  cmap[c].keys.versions[c] <= cmap'[c].keys.versions[c]
    <3>1. cmap'[c].keys = Merge(cmap[c].keys, smap[s].keys)
      BY <1>1, <1>3, <2>2, MapMergeWellFormed
    <3>2. IsSet(cmap[c].keys) /\ IsSet(smap[s].keys)
      BY <1>1 DEF WellFormed, IsMap
    <3> QED BY <1>3, <3>1, <3>2, MergeType
  <2> QED BY <2>1, <2>2
<1>10. HistoryObserved(cmap', added')
  <2>1. \A k \in Key : \A t \in added[k] : t[1] \in Client /\ t[2] \in Nat
    BY <1>2 DEF Additions, HistoryObserved
  <2> QED BY <1>2, <1>9, <2>1 DEF HistoryObserved
<1>11. ASSUME NEW m, WellFormed(m), Safe(m, cmap, added, purged)
       PROVE  Safe(m, cmap', added', purged')
  BY <1>1, <1>2, <1>3, <1>5, <1>9, <1>11, SafeStays
<1> QED BY <1>5, <1>6, <1>7, <1>8, <1>10, <1>11 DEF MapsSafe

\* Without client restarts (after which versions are used again), whatever the
\* servers and the network do.
LEMMA AddWinsStep ==
  ASSUME \A c \in Client : MaxRestarts[c] = 0
  PROVE  AddWinsInv /\ [Next]_vars => AddWinsInv'
<1> SUFFICES ASSUME AddWinsInv, [Next]_vars PROVE AddWinsInv'
  OBVIOUS
<1>1. Inv'
  BY InvStep DEF AddWinsInv
<1>2. /\ \A c \in Client : WellFormed(cmap[c]) /\ Safe(cmap[c], cmap, added, purged)
      /\ \A s \in Server : WellFormed(smap[s]) /\ Safe(smap[s], cmap, added, purged)
      /\ \A c \in Client : WellFormed(body[c]) /\ Safe(body[c], cmap, added, purged)
      /\ \A p \in late : WellFormed(p.body) /\ Safe(p.body, cmap, added, purged)
      /\ HistoryObserved(cmap, added)
  BY DEF AddWinsInv, Inv, MapsWellFormed, MapsSafe
<1>3. /\ Control /\ added \in Additions /\ Client \subseteq Replica
      /\ DOMAIN cmap = Client /\ DOMAIN cmap' = Client
  BY <1>1, HistoryType DEF AddWinsInv, Inv, Control
<1> SUFFICES HistoryObserved(cmap', added') /\ MapsSafe'
  BY <1>1 DEF AddWinsInv
<1>4. ASSUME NEW c \in Client, NEW k \in Key, Put(c, k)
      PROVE  HistoryObserved(cmap', added') /\ MapsSafe'
  <2>1. <<c, puts[c] + 1>> \in Value
    <3>1. puts[c] + 1 \in 1..MaxPuts[c]
      BY <1>3, <1>4, BoundsType DEF Put, Control
    <3> QED BY <3>1, KVAssumption
  <2>2. /\ cmap'[c] = MapPut(cmap[c], c, k, <<c, puts[c] + 1>>)
        /\ \A d \in Client \ {c} : cmap'[d] = cmap[d]
        /\ added'[k] = added[k] \cup {<<c, cmap[c].keys.versions[c] + 1>>}
        /\ \A k2 \in Key \ {k} : added'[k2] = added[k2]
        /\ UNCHANGED <<smap, body, late, purged>>
    BY <1>3, <1>4 DEF Put, Control, sync
  <2>4. ASSUME NEW m, WellFormed(m), Safe(m, cmap, added, purged)
        PROVE  /\ HistoryObserved(cmap', added')
               /\ Safe(cmap'[c], cmap', added', purged')
               /\ Safe(m, cmap', added', purged')
    <3>1. /\ \A d \in DOMAIN cmap : WellFormed(cmap[d])
          /\ HistoryObserved(cmap, added)
          /\ Safe(cmap[c], cmap, added, purged)
          /\ c \in DOMAIN cmap /\ \A d \in DOMAIN cmap \ {c} : cmap'[d] = cmap[d]
          /\ DOMAIN cmap \subseteq Replica /\ DOMAIN cmap' = DOMAIN cmap
      BY <1>2, <1>3, <2>2
    <3>2. purged' = purged
      BY <2>2
    <3>3. /\ HistoryObserved(cmap', added')
          /\ Safe(cmap'[c], cmap', added', purged)
          /\ Safe(m, cmap', added', purged)
      BY <1>3, <2>1, <2>2, <2>4, <3>1, PutSafe
    <3> QED BY <3>2, <3>3
  <2>5. \A d \in Client : Safe(cmap'[d], cmap', added', purged')
    BY <1>2, <2>2, <2>4
  <2>6. HistoryObserved(cmap', added')
    BY <1>2, <2>4
  <2> QED BY <1>2, <2>2, <2>4, <2>5, <2>6 DEF MapsSafe
<1>5. ASSUME NEW c \in Client, NEW k \in Key, RemoveKey(c, k)
      PROVE  HistoryObserved(cmap', added') /\ MapsSafe'
  <2>1. /\ cmap'[c] = MapRemove(cmap[c], k)
        /\ \A d \in Client \ {c} : cmap'[d] = cmap[d]
        /\ purged'[k] = purged[k] \cup {t \in added[k] : t[2] <= cmap[c].keys.versions[t[1]]}
        /\ \A k2 \in Key \ {k} : purged'[k2] = purged[k2]
        /\ UNCHANGED <<smap, body, late, added>>
    BY <1>3, <1>5 DEF RemoveKey, Control, sync
  <2>2. \A d \in Client : /\ WellFormed(cmap'[d])
                          /\ cmap'[d].keys.versions = cmap[d].keys.versions
    <3>1. /\ WellFormed(MapRemove(cmap[c], k))
          /\ MapRemove(cmap[c], k).keys.versions = cmap[c].keys.versions
      <4>1. /\ WellFormed(MapRemove(cmap[c], k))
            /\ MapRemove(cmap[c], k).keys = Remove(cmap[c].keys, k)
        BY <1>2, MapRemoveWellFormed
      <4>2. Remove(cmap[c].keys, k).versions = cmap[c].keys.versions
        BY DEF Remove
      <4> QED BY <4>1, <4>2
    <3> QED BY <1>2, <2>1, <3>1
  <2>3. \A d \in Client : cmap[d].keys.versions[d] \in Int
    BY <1>2, WellFormedVersions, BoundsType
  <2>8. /\ DOMAIN cmap \subseteq Replica /\ DOMAIN cmap' = DOMAIN cmap
        /\ \A d \in DOMAIN cmap : /\ WellFormed(cmap[d]) /\ WellFormed(cmap'[d])
                                 /\ cmap[d].keys.versions[d] <= cmap'[d].keys.versions[d]
        /\ \A k2 \in Key : purged[k2] \subseteq purged'[k2]
    BY <1>2, <1>3, <2>1, <2>2, <2>3
  <2>4. ASSUME NEW m, WellFormed(m), Safe(m, cmap, added, purged)
        PROVE  Safe(m, cmap', added', purged')
    <3>1. Safe(m, cmap', added, purged')
      BY <2>4, <2>8, SafeStays
    <3> QED BY <2>1, <3>1
  <2>5. Safe(cmap'[c], cmap', added', purged')
    <3>1. Safe(MapRemove(cmap[c], k), cmap, added, purged')
      BY <1>2, <2>1, RemoveSafe
    <3> QED BY <1>2, <1>3, <2>1, <2>2, <2>3, <3>1, SafeStays
  <2>6. \A d \in Client : Safe(cmap'[d], cmap', added', purged')
    BY <1>2, <2>1, <2>4, <2>5
  <2>7. HistoryObserved(cmap', added')
    <3>1. \A k2 \in Key : \A t \in added[k2] : t[1] \in Client
      BY <1>3 DEF Control
    <3> QED BY <1>2, <1>3, <2>1, <2>2, <3>1 DEF HistoryObserved
  <2> QED BY <1>2, <2>1, <2>4, <2>6, <2>7 DEF MapsSafe
<1>6. ASSUME NEW c \in Client PROVE ~ClientRestart(c)
  BY <1>3 DEF ClientRestart, Control
<1>7. ASSUME NEW c \in Client, StartSync(c) \/ LookupFails(c)
      PROVE  HistoryObserved(cmap', added') /\ MapsSafe'
  BY <1>2, <1>7 DEF StartSync, LookupFails, MapsSafe, store, history
<1>8. ASSUME NEW c \in Client, NEW s \in Server, Connect(c, s)
      PROVE  HistoryObserved(cmap', added') /\ MapsSafe'
  BY <1>2, <1>8 DEF Connect, MapsSafe, store, history
<1>9. ASSUME NEW c \in Client, PostFails(c)
      PROVE  HistoryObserved(cmap', added') /\ MapsSafe'
  <2>1. /\ UNCHANGED <<cmap, smap, late, added, purged>>
        /\ \A d \in Client : body'[d] \in {body[d], NewMap(d)}
    BY <1>9, EndOfSyncsType DEF PostFails, store, history, AddWinsInv
  <2> QED BY <1>1, <2>1, MapsSafeStep
<1>10. ASSUME NEW c \in Client, HandlePost(c)
       PROVE  HistoryObserved(cmap', added') /\ MapsSafe'
  <2>1. /\ UNCHANGED <<cmap, body, late, added, purged>>
        /\ \A s \in Server : smap'[s] \in {smap[s], MapMerge(smap[s], s, cmap[c])}
    BY <1>3, <1>10 DEF HandlePost, Control, history
  <2> QED BY <1>1, <2>1, MapsSafeStep
<1>11. ASSUME NEW c \in Client, Broadcast(c)
       PROVE  HistoryObserved(cmap', added') /\ MapsSafe'
  <2>1. /\ UNCHANGED <<cmap, smap, late, added, purged>>
        /\ coord[c] \in Server
        /\ \A d \in Client : body'[d] \in {body[d], smap[coord[c]]}
    BY <1>3, <1>11 DEF Broadcast, Control, store, history
  <2> QED BY <1>1, <2>1, MapsSafeStep
<1>12. ASSUME NEW c \in Client, NEW s \in Server, DeliverPost(c, s)
       PROVE  HistoryObserved(cmap', added') /\ MapsSafe'
  <2>1. /\ UNCHANGED <<cmap, body, late, added, purged>>
        /\ \A r \in Server : smap'[r] \in {smap[r], MapMerge(smap[r], r, body[c])}
    BY <1>3, <1>12 DEF DeliverPost, Control, history
  <2> QED BY <1>1, <2>1, MapsSafeStep
<1>13. ASSUME NEW c \in Client, NEW s \in Server, PostRefused(c, s)
       PROVE  HistoryObserved(cmap', added') /\ MapsSafe'
  BY <1>2, <1>13 DEF PostRefused, MapsSafe, store, history
<1>14. ASSUME NEW c \in Client, NEW s \in Server, PostTimesOut(c, s)
       PROVE  HistoryObserved(cmap', added') /\ MapsSafe'
  <2>1. /\ UNCHANGED <<cmap, smap, body, added, purged>>
        /\ \A p \in late' : p \in late \/ p.body = body[c]
    BY <1>14 DEF PostTimesOut, store, history
  <2> QED BY <1>1, <2>1, MapsSafeStep
<1>15. ASSUME NEW c \in Client, ClientTimesOut(c)
       PROVE  HistoryObserved(cmap', added') /\ MapsSafe'
  <2>1. /\ UNCHANGED <<cmap, smap, added, purged>>
        /\ \A p \in late' : p \in late \/ p.body = body[c]
        /\ EndOfSyncs({c})
    BY <1>15 DEF ClientTimesOut, store, history
  <2> QED BY <1>1, <2>1, EndOfSyncsType, MapsSafeStep DEF AddWinsInv
<1>16. ASSUME NEW p \in late, DeliverLate(p)
       PROVE  HistoryObserved(cmap', added') /\ MapsSafe'
  <2>1. /\ UNCHANGED <<cmap, body, added, purged>>
        /\ \A q \in late' : q \in late
        /\ \A s \in Server : smap'[s] \in {smap[s], MapMerge(smap[s], s, p.body)}
    BY <1>3, <1>16 DEF DeliverLate, Control, sync, history
  <2> QED BY <1>1, <2>1, MapsSafeStep
<1>17. ASSUME NEW c \in Client, SyncSucceeds(c)
       PROVE  HistoryObserved(cmap', added') /\ MapsSafe'
  <2>1. /\ UNCHANGED <<smap, late, added, purged>>
        /\ EndOfSyncs({c})
        /\ coord[c] \in Server
        /\ \A d \in Client :
             cmap'[d] = cmap[d] \/ cmap'[d] = MapMerge(cmap[d], d, smap[coord[c]])
    BY <1>3, <1>17 DEF SyncSucceeds, EndOfSync, Control, history
  <2> QED BY <1>1, <2>1, EndOfSyncsType, MapsSafeStep DEF AddWinsInv
<1>18. ASSUME NEW c \in Client, SyncFails(c)
       PROVE  HistoryObserved(cmap', added') /\ MapsSafe'
  <2>1. UNCHANGED <<cmap, smap, late, added, purged>> /\ EndOfSyncs({c})
    BY <1>18 DEF SyncFails, EndOfSync, history
  <2> QED BY <1>1, <2>1, EndOfSyncsType, MapsSafeStep DEF AddWinsInv
<1>19. ASSUME NEW s \in Server, Crash(s)
       PROVE  HistoryObserved(cmap', added') /\ MapsSafe'
  <2> DEFINE mine == {c \in Client : coord[c] = s /\ phase[c] \in {"merged", "waiting"}}
  <2>1. /\ UNCHANGED <<cmap, added, purged>>
        /\ \A r \in Server : smap'[r] \in {smap[r], NewMap(r)}
        /\ \A p \in late' : p \in late \/ \E c \in Client : p.body = body[c]
        /\ EndOfSyncs(mine)
    BY <1>3, <1>19 DEF Crash, Control, history
  <2> HIDE DEF mine
  <2> QED BY <1>1, <2>1, EndOfSyncsType, MapsSafeStep DEF AddWinsInv
<1>20. ASSUME NEW s \in Server, Restart(s)
       PROVE  HistoryObserved(cmap', added') /\ MapsSafe'
  BY <1>2, <1>20 DEF Restart, MapsSafe, store, sync, history
<1>21. CASE UNCHANGED vars
  BY <1>2, <1>21 DEF vars, store, sync, history, MapsSafe
<1> QED BY <1>4, <1>5, <1>6, <1>7, <1>8, <1>9, <1>10, <1>11, <1>12, <1>13, <1>14, <1>15,
           <1>16, <1>17, <1>18, <1>19, <1>20, <1>21
        DEF Next, ClientStep, ServerStep

LEMMA AddWinsImplies == AddWinsInv => OwnerAhead /\ NoLostPut
<1> SUFFICES ASSUME AddWinsInv PROVE OwnerAhead /\ NoLostPut
  OBVIOUS
<1>1. DOMAIN cmap = Client /\ \A m \in MapsHeld : Safe(m, cmap, added, purged)
  BY HistoryType DEF AddWinsInv, MapsSafe, MapsHeld
<1>2. OwnerAhead
  BY <1>1 DEF OwnerAhead, Safe
<1>3. NoLostPut
  BY <1>1 DEF NoLostPut, Safe, Accounted, Contains
<1> QED BY <1>2, <1>3

\* The add-wins promise of the map: however syncs of any number of clients with any
\* number of servers interleave, whichever servers crash and whichever posts are
\* lost or late, a map that lacks a key has observed no addition of the key that
\* nobody removed.
THEOREM NoPutIsLost ==
  ASSUME \A c \in Client : MaxRestarts[c] = 0
  PROVE  Spec => []NoLostPut
<1>1. Spec => []AddWinsInv
  BY AddWinsInit, AddWinsStep, PTL DEF Spec
<1> QED BY <1>1, AddWinsImplies, PTL

\* A client that is not restarted is never behind anyone on its own additions, so
\* that every tag it makes is new.
THEOREM OwnerAlwaysAhead ==
  ASSUME \A c \in Client : MaxRestarts[c] = 0
  PROVE  Spec => []OwnerAhead
<1>1. Spec => []AddWinsInv
  BY AddWinsInit, AddWinsStep, PTL DEF Spec
<1> QED BY <1>1, AddWinsImplies, PTL
=============================================================================
