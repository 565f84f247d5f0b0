--------------------------- MODULE AddWinsTheorems ---------------------------
(***************************************************************************)
(* The key-value store implements the add-wins policy of module AddWins,   *)
(* as long as clients are not restarted (after which they use versions     *)
(* again): for every set of clients, servers and keys, whatever servers    *)
(* crash and whichever posts are lost or late.                             *)
(***************************************************************************)
EXTENDS KVStoreTheorems

Process == Client \cup Server

\* The state of AddWins that a state of the store implements.
Seen    == [p \in Process |-> [k \in Key |-> Observed(MapOf(p), k)]]
Visible == [p \in Process |-> Contents(MapOf(p).keys)]

-----------------------------------------------------------------------------
MapsGenuine ==
  /\ \A c \in Client : Genuine(cmap[c], added) /\ Genuine(body[c], added)
  /\ \A s \in Server : Genuine(smap[s], added)
  /\ \A p \in late : Genuine(p.body, added)

-----------------------------------------------------------------------------
\* What a step does to the maps: p merges m, or s starts over, and the posts that
\* are under way afterwards carry maps that were held before.
Merges(p, m) ==
  \A q \in Process : MapOf(q)' = IF q = p THEN MapMerge(MapOf(q), p, m) ELSE MapOf(q)

StartsOver(s) ==
  \A q \in Process : MapOf(q)' = IF q = s THEN NewMap(s) ELSE MapOf(q)

Posts ==
  /\ \A c \in Client : body'[c] \in {body[c], NewMap(c)} \cup {smap[s] : s \in Server}
  /\ \A p \in late' : p \in late \/ \E c \in Client : p.body = body[c]

LEMMA StepKinds ==
  ASSUME \A c \in Client : MaxRestarts[c] = 0, Inv, [Next]_vars
  PROVE  \/ \E c \in Client, k \in Key : Put(c, k) \/ RemoveKey(c, k)
         \/ /\ UNCHANGED <<added, purged>>
            /\ Posts
            /\ \/ UNCHANGED store
               \/ \E p \in Process, m \in MapsHeld : Merges(p, m)
               \/ \E s \in Server : StartsOver(s)
<1> DEFINE Kind == /\ UNCHANGED <<added, purged>>
                   /\ Posts
                   /\ \/ UNCHANGED store
                      \/ \E p \in Process, m \in MapsHeld : Merges(p, m)
                      \/ \E s \in Server : StartsOver(s)
<1>1. Control
  BY DEF Inv
<1>2. /\ Client \cap Server = {} /\ Process = Client \cup Server
      /\ \A c \in Client : cmap[c] \in MapsHeld /\ body[c] \in MapsHeld
      /\ \A s \in Server : smap[s] \in MapsHeld
      /\ \A p \in late : p.body \in MapsHeld
  BY KVAssumption DEF MapsHeld, Process
<1>3. ASSUME NEW clients, EndOfSyncs(clients)
      PROVE  \A c \in Client : body'[c] \in {body[c], NewMap(c)}
  BY <1>3, EndOfSyncsType
<1>4. ASSUME NEW c \in Client PROVE ~ClientRestart(c)
  BY <1>1 DEF ClientRestart, Control
<1>5. ASSUME NEW c \in Client, StartSync(c) \/ LookupFails(c) PROVE Kind
  BY <1>5 DEF StartSync, LookupFails, Posts, store, history
<1>6. ASSUME NEW c \in Client, NEW s \in Server, Connect(c, s) PROVE Kind
  BY <1>6 DEF Connect, Posts, store, history
<1>7. ASSUME NEW c \in Client, PostFails(c) PROVE Kind
  BY <1>3, <1>7 DEF PostFails, Posts, store, history
<1>8. ASSUME NEW c \in Client, HandlePost(c) PROVE Kind
  <2>1. coord[c] \in Process /\ Merges(coord[c], cmap[c])
    BY <1>1, <1>2, <1>8 DEF HandlePost, Merges, MapOf, Control
  <2>2. UNCHANGED <<added, purged, body, late>>
    BY <1>8 DEF HandlePost, history
  <2> QED BY <1>2, <2>1, <2>2 DEF Posts
<1>9. ASSUME NEW c \in Client, Broadcast(c) PROVE Kind
  BY <1>1, <1>9 DEF Broadcast, Posts, store, history, Control
<1>10. ASSUME NEW c \in Client, NEW s \in Server, DeliverPost(c, s) PROVE Kind
  <2>1. Merges(s, body[c])
    BY <1>1, <1>2, <1>10 DEF DeliverPost, Merges, MapOf, Control
  <2>2. UNCHANGED <<added, purged, body, late>>
    BY <1>10 DEF DeliverPost, history
  <2> QED BY <1>2, <2>1, <2>2 DEF Posts
<1>11. ASSUME NEW c \in Client, NEW s \in Server, PostRefused(c, s) PROVE Kind
  BY <1>11 DEF PostRefused, Posts, store, history
<1>12. ASSUME NEW c \in Client, NEW s \in Server, PostTimesOut(c, s) PROVE Kind
  BY <1>12 DEF PostTimesOut, Posts, store, history
<1>13. ASSUME NEW c \in Client, ClientTimesOut(c) PROVE Kind
  <2>1. /\ UNCHANGED <<store, added, purged>> /\ EndOfSyncs({c})
        /\ \A p \in late' : p \in late \/ p.body = body[c]
    BY <1>13 DEF ClientTimesOut, history
  <2> QED BY <1>3, <2>1 DEF Posts
<1>14. ASSUME NEW p \in late, DeliverLate(p) PROVE Kind
  <2>1. p.to \in Process /\ Merges(p.to, p.body)
    BY <1>1, <1>2, <1>14 DEF DeliverLate, Merges, MapOf, Control
  <2>2. UNCHANGED <<added, purged, body>> /\ late' \subseteq late
    BY <1>14 DEF DeliverLate, sync, history
  <2> QED BY <1>2, <2>1, <2>2 DEF Posts
<1>15. ASSUME NEW c \in Client, SyncSucceeds(c) PROVE Kind
  <2>1. Merges(c, smap[coord[c]]) /\ coord[c] \in Server
    BY <1>1, <1>2, <1>15 DEF SyncSucceeds, EndOfSync, Merges, MapOf, Control
  <2>2. UNCHANGED <<added, purged, late>> /\ EndOfSyncs({c})
    BY <1>15 DEF SyncSucceeds, EndOfSync, history
  <2> QED BY <1>2, <1>3, <2>1, <2>2 DEF Posts
<1>16. ASSUME NEW c \in Client, SyncFails(c) PROVE Kind
  <2>1. UNCHANGED <<store, added, purged, late>> /\ EndOfSyncs({c})
    BY <1>16 DEF SyncFails, EndOfSync, history, store
  <2> QED BY <1>3, <2>1 DEF Posts
<1>17. ASSUME NEW s \in Server, Crash(s) PROVE Kind
  <2> DEFINE mine == {c \in Client : coord[c] = s /\ phase[c] \in {"merged", "waiting"}}
  <2>1. /\ cmap' = cmap /\ smap' = [smap EXCEPT ![s] = NewMap(s)]
        /\ UNCHANGED <<added, purged>> /\ EndOfSyncs(mine)
        /\ \A p \in late' : p \in late \/ \E c \in Client : p.body = body[c]
    BY <1>17 DEF Crash, history
  <2> HIDE DEF mine
  <2>2. StartsOver(s)
    BY <1>1, <1>2, <2>1 DEF StartsOver, MapOf, Control
  <2> QED BY <1>3, <2>1, <2>2 DEF Posts
<1>18. ASSUME NEW s \in Server, Restart(s) PROVE Kind
  BY <1>18 DEF Restart, Posts, store, sync, history
<1>19. ASSUME UNCHANGED vars PROVE Kind
  BY <1>19 DEF vars, store, sync, history, Posts
<1> HIDE DEF Kind
<1>20. ASSUME NEW c \in Client, ClientStep(c)
       PROVE  (\E k \in Key : Put(c, k) \/ RemoveKey(c, k)) \/ Kind
  BY <1>4, <1>5, <1>6, <1>7, <1>20 DEF ClientStep
<1>21. ASSUME NEW c \in Client, ServerStep(c) PROVE Kind
  BY <1>8, <1>9, <1>10, <1>11, <1>12, <1>13, <1>15, <1>16, <1>21 DEF ServerStep
<1>22. ASSUME Next PROVE (\E c \in Client, k \in Key : Put(c, k) \/ RemoveKey(c, k)) \/ Kind
  BY <1>14, <1>17, <1>18, <1>20, <1>21, <1>22 DEF Next
<1>23. CASE Next
  BY <1>22, <1>23 DEF Kind
<1>24. CASE UNCHANGED vars
  BY <1>19, <1>24 DEF Kind
<1> QED BY <1>23, <1>24

-----------------------------------------------------------------------------
ImplInv == AddWinsInv /\ MapsGenuine

LEMMA MapOfType ==
  /\ Client \cap Server = {} /\ Process \subseteq Replica
  /\ \A c \in Client : c \in Process /\ MapOf(c) = cmap[c] /\ MapOf(c)' = cmap'[c]
  /\ \A s \in Server : s \in Process /\ MapOf(s) = smap[s] /\ MapOf(s)' = smap'[s]
BY KVAssumption DEF MapOf, Process

\* What holds of every map that is held.
LEMMA HeldMaps ==
  ASSUME ImplInv
  PROVE  /\ \A m \in MapsHeld : WellFormed(m) /\ Genuine(m, added)
         /\ \A q \in Process : MapOf(q) \in MapsHeld
         /\ added \in Additions
<1>1. \A m \in MapsHeld : WellFormed(m) /\ Genuine(m, added)
  BY DEF ImplInv, AddWinsInv, Inv, MapsWellFormed, MapsGenuine, MapsHeld
<1>2. \A q \in Process : MapOf(q) \in MapsHeld
  BY MapOfType DEF Process, MapsHeld
<1>3. added \in Additions
  BY HistoryType DEF ImplInv, AddWinsInv
<1> QED BY <1>1, <1>2, <1>3

LEMMA NewMapEmpty ==
  ASSUME NEW id \in Replica, NEW additions
  PROVE  Contents(NewMap(id).keys) = {} /\ Genuine(NewMap(id), additions)
BY NewMapWellFormed, NewSetType DEF Genuine

LEMMA ImplInit == Init => ImplInv
<1> SUFFICES ASSUME Init PROVE ImplInv
  OBVIOUS
<1>1. AddWinsInv
  BY AddWinsInit
<1>2. MapsGenuine
  BY NewMapEmpty, BoundsType DEF Init, MapsGenuine
<1> QED BY <1>1, <1>2 DEF ImplInv

LEMMA GenuineStep ==
  ASSUME \A c \in Client : MaxRestarts[c] = 0, ImplInv, [Next]_vars
  PROVE  MapsGenuine'
<1>1. /\ Inv /\ Control
      /\ \A c \in Client : WellFormed(cmap[c]) /\ Genuine(cmap[c], added)
      /\ \A c \in Client : Genuine(body[c], added)
      /\ \A s \in Server : Genuine(smap[s], added)
      /\ \A p \in late : Genuine(p.body, added)
  BY DEF ImplInv, AddWinsInv, Inv, MapsWellFormed, MapsGenuine
<1>2. Client \subseteq Replica /\ Server \subseteq Replica
  BY BoundsType
<1>3. ASSUME NEW c \in Client, NEW k \in Key, Put(c, k) PROVE MapsGenuine'
  <2>1. /\ cmap'[c] = MapPut(cmap[c], c, k, <<c, puts[c] + 1>>)
        /\ \A d \in Client \ {c} : cmap'[d] = cmap[d]
        /\ added'[k] = added[k] \cup {<<c, cmap[c].keys.versions[c] + 1>>}
        /\ \A k2 \in Key \ {k} : added'[k2] = added[k2]
        /\ UNCHANGED <<smap, body, late>>
    BY <1>1, <1>3 DEF Put, Control, sync
  <2>2. Genuine(cmap'[c], added')
    BY <1>1, <1>2, <2>1, PutGenuine DEF WellFormed
  <2>3. ASSUME NEW m, WellFormed(m), Genuine(m, added) PROVE Genuine(m, added')
    <3>1. \A k2 \in Key : added[k2] \subseteq added'[k2]
      BY <2>1
    <3>2. Contents(m.keys) \subseteq Key
      BY <2>3 DEF WellFormed, IsMap, IsSet, Contents
    <3> QED BY <2>3, <3>1, <3>2 DEF Genuine
  <2>4. /\ \A d \in Client : WellFormed(body[d])
        /\ \A s \in Server : WellFormed(smap[s])
        /\ \A p \in late : WellFormed(p.body)
    BY <1>1 DEF Inv, MapsWellFormed
  <2> QED BY <1>1, <2>1, <2>2, <2>3, <2>4 DEF MapsGenuine
<1>4. ASSUME NEW c \in Client, NEW k \in Key, RemoveKey(c, k) PROVE MapsGenuine'
  <2>1. /\ cmap'[c] = MapRemove(cmap[c], k)
        /\ \A d \in Client \ {c} : cmap'[d] = cmap[d]
        /\ UNCHANGED <<smap, body, late, added>>
    BY <1>1, <1>4 DEF RemoveKey, Control, sync
  <2>2. Genuine(MapRemove(cmap[c], k), added)
    BY <1>1 DEF Genuine, MapRemove, Remove, Contents
  <2> QED BY <1>1, <2>1, <2>2 DEF MapsGenuine
<1>5. ASSUME UNCHANGED added, Posts,
             \A q \in Process : Genuine(MapOf(q)', added)
      PROVE  MapsGenuine'
  <2>1. /\ \A c \in Client : Genuine(cmap'[c], added)
        /\ \A s \in Server : Genuine(smap'[s], added)
    BY <1>5, MapOfType
  <2>2. \A c \in Client : Genuine(body'[c], added)
    BY <1>1, <1>2, <1>5, NewMapEmpty DEF Posts
  <2>3. \A p \in late' : Genuine(p.body, added)
    BY <1>1, <1>5 DEF Posts
  <2> QED BY <1>5, <2>1, <2>2, <2>3 DEF MapsGenuine
<1>6. CASE UNCHANGED <<added, purged>> /\ Posts /\ UNCHANGED store
  <2>1. \A q \in Process : MapOf(q)' = MapOf(q)
    BY <1>6 DEF store, MapOf
  <2> QED BY <1>5, <1>6, <2>1, HeldMaps
<1>7. ASSUME UNCHANGED <<added, purged>>, Posts,
             NEW p \in Process, NEW m \in MapsHeld, Merges(p, m)
      PROVE  MapsGenuine'
  <2>1. Genuine(MapMerge(MapOf(p), p, m), added)
    BY MapOfType, HeldMaps, MergeGenuine DEF WellFormed
  <2> QED BY <1>5, <1>7, <2>1, HeldMaps DEF Merges
<1>8. ASSUME UNCHANGED <<added, purged>>, Posts, NEW s \in Server, StartsOver(s)
      PROVE  MapsGenuine'
  BY <1>2, <1>5, <1>8, HeldMaps, NewMapEmpty DEF StartsOver
<1> QED BY <1>1, <1>3, <1>4, <1>6, <1>7, <1>8, StepKinds

-----------------------------------------------------------------------------
LEMMA ImplStep ==
  ASSUME \A c \in Client : MaxRestarts[c] = 0
  PROVE  ImplInv /\ [Next]_vars => ImplInv'
<1> SUFFICES ASSUME ImplInv, [Next]_vars PROVE ImplInv'
  OBVIOUS
<1>1. AddWinsInv'
  BY AddWinsStep DEF ImplInv
<1>2. MapsGenuine'
  BY GenuineStep
<1> QED BY <1>1, <1>2 DEF ImplInv

\* A map that merges another forgets nothing, and a key comes back to it only with
\* an addition that it had not observed.
LEMMA MergeHears ==
  ASSUME NEW map, NEW remote, NEW id \in Replica, WellFormed(map), WellFormed(remote),
         added \in Additions, Genuine(remote, added), NEW k \in Key
  PROVE  LET merged == MapMerge(map, id, remote) IN
         /\ Contents(merged.keys) \subseteq Key
         /\ Observed(map, k) \subseteq Observed(merged, k)
         /\ k \in Contents(merged.keys) \ Contents(map.keys) =>
              Observed(merged, k) # Observed(map, k)
<1> DEFINE merged == MapMerge(map, id, remote)
<1>1. /\ merged.keys = Merge(map.keys, remote.keys) /\ WellFormed(merged)
      /\ IsSet(map.keys) /\ IsSet(remote.keys) /\ Covered(remote.keys)
  BY MapMergeWellFormed DEF WellFormed, IsMap
<1>2. \A r \in Replica : /\ map.keys.versions[r] <= merged.keys.versions[r]
                         /\ remote.keys.versions[r] <= merged.keys.versions[r]
                         /\ map.keys.versions[r] \in Int /\ map.keys.versions[r] >= -1
                         /\ remote.keys.versions[r] \in Int
                         /\ merged.keys.versions[r] \in Int
  BY <1>1, MergeType, WellFormedVersions
<1>3. added[k] \in SUBSET (Replica \X Nat)
  BY AdditionsType
<1> HIDE DEF merged
<1>4. Observed(map, k) \subseteq Observed(merged, k)
  <2> SUFFICES ASSUME NEW t \in added[k], t[2] <= map.keys.versions[t[1]]
               PROVE  t[2] <= merged.keys.versions[t[1]]
    BY DEF Observed
  <2>1. t[1] \in Replica /\ t[2] \in Nat
    BY <1>3
  <2> QED BY <1>2, <2>1
<1>5. ASSUME k \in Contents(merged.keys) \ Contents(map.keys)
      PROVE  Observed(merged, k) # Observed(map, k)
  <2>1. /\ k \in Contents(remote.keys)
        /\ \E r \in Replica : map.keys.versions[r] < remote.keys.elements[k][r]
    BY <1>1, <1>5, MergeElements
  <2>2. PICK r \in Replica : map.keys.versions[r] < remote.keys.elements[k][r]
    BY <2>1
  <2> DEFINE n == remote.keys.elements[k][r]
  <2>3. n \in Int /\ n <= remote.keys.versions[r]
    BY <1>1, <2>1, VersionsType DEF IsSet, Contents, Covered
  <2> HIDE DEF n
  <2>4. n > map.keys.versions[r] /\ n <= merged.keys.versions[r] /\ n # -1
    BY <1>2, <2>2, <2>3 DEF n
  <2>5. <<r, n>> \in added[k]
    BY <2>1, <2>4 DEF Genuine, Unseen, n
  <2>6. <<r, n>> \in Observed(merged, k) /\ <<r, n>> \notin Observed(map, k)
    BY <1>2, <2>3, <2>4, <2>5 DEF Observed
  <2> QED BY <2>6
<1>6. Contents(merged.keys) \subseteq Key
  BY <1>1 DEF WellFormed, IsMap, IsSet, Contents
<1> QED BY <1>4, <1>5, <1>6 DEF merged

\* What a map without a key has observed of it has been removed.
LEMMA SafeObserved ==
  ASSUME ImplInv, NEW m \in MapsHeld, NEW k \in Key, k \notin Contents(m.keys)
  PROVE  Observed(m, k) \subseteq purged[k]
<1>1. NoLostPut
  BY AddWinsImplies DEF ImplInv
<1> QED BY <1>1 DEF NoLostPut, Contains, Observed

LEMMA RefinesInit == Init => Keys!Init
<1> SUFFICES ASSUME Init PROVE Keys!Init
  OBVIOUS
<1>1. ImplInv
  BY ImplInit
<1>2. /\ added = [k \in Key |-> {}] /\ purged = [k \in Key |-> {}]
      /\ \A q \in Process : MapOf(q) = NewMap(q) /\ q \in Replica
  BY MapOfType DEF Init, Process
<1>3. \A q \in Process : Contents(MapOf(q).keys) = {}
  BY <1>2, NewMapEmpty
<1>4. \A q \in Process, k \in Key : Observed(MapOf(q), k) = {}
  BY <1>2 DEF Observed
<1>5. Seen = [q \in Process |-> [k \in Key |-> {}]] /\ Visible = [q \in Process |-> {}]
  BY <1>3, <1>4 DEF Seen, Visible
<1> QED BY <1>2, <1>5 DEF Keys!Init, Keys!Nothing, Seen, Visible, Process

\* The history of a put: its tag is new, and its client alone has observed it.
LEMMA PutObserved ==
  ASSUME ImplInv, NEW c \in Client, NEW k \in Key, Put(c, k)
  PROVE  LET t == <<c, cmap[c].keys.versions[c] + 1>> IN
         /\ \A x \in Key : t \notin added[x]
         /\ added' = [added EXCEPT ![k] = @ \cup {t}]
         /\ purged' = purged
         /\ Seen' = [Seen EXCEPT ![c][k] = @ \cup {t}]
         /\ Visible' = [Visible EXCEPT ![c] = @ \cup {k}]
<1> DEFINE n == cmap[c].keys.versions[c]
           t == <<c, n + 1>>
<1>1. /\ Control /\ HistoryObserved(cmap, added) /\ OwnerAhead
      /\ \A q \in Process : WellFormed(MapOf(q)) /\ MapOf(q) \in MapsHeld
      /\ c \in Process /\ MapOf(c) = cmap[c] /\ c \in Replica /\ Process \subseteq Replica
  BY HeldMaps, MapOfType, AddWinsImplies DEF ImplInv, AddWinsInv, Inv
<1>2. /\ added' = [added EXCEPT ![k] = @ \cup {t}] /\ purged' = purged
      /\ cmap' = [cmap EXCEPT ![c] = MapPut(@, c, k, <<c, puts[c] + 1>>)] /\ smap' = smap
      /\ phase[c] = "idle"
  BY DEF Put
<1>3. \A q \in Process : MapOf(q)' = IF q = c THEN MapPut(cmap[c], c, k, <<c, puts[c] + 1>>)
                                              ELSE MapOf(q)
  BY <1>1, <1>2, MapOfType DEF Control, MapOf, Process
<1>4. /\ MapOf(c)'.keys.versions = [cmap[c].keys.versions EXCEPT ![c] = n + 1]
      /\ Contents(MapOf(c)'.keys) = Contents(cmap[c].keys) \cup {k}
  <2>1. /\ MapOf(c)'.keys = Add(cmap[c].keys, c, k)
        /\ IsSet(cmap[c].keys)
    BY <1>1, <1>3 DEF MapPut, WellFormed, IsMap
  <2>2. Add(cmap[c].keys, c, k).versions = [cmap[c].keys.versions EXCEPT ![c] = n + 1]
    BY DEF Add
  <2> QED BY <1>1, <2>1, <2>2, AddType
<1>5. \A q \in Process : /\ MapOf(q).keys.versions[c] \in Int
                         /\ MapOf(q).keys.versions[c] <= n
                         /\ n \in Int
  BY <1>1, <1>2, WellFormedVersions DEF OwnerAhead
<1>6. ASSUME NEW x \in Key, NEW u \in added[x]
      PROVE  u[1] = c => u[2] \in Int /\ u[2] <= n
  BY <1>1, HeldMaps DEF HistoryObserved, Additions
<1> HIDE DEF n
<1>7. \A x \in Key : t \notin added[x]
  <2>1. n \in Int /\ ~(n + 1 <= n)
    BY <1>1, <1>5
  <2> QED BY <1>6, <2>1
<1>8. \A x \in Key : added'[x] = IF x = k THEN added[k] \cup {t} ELSE added[x]
  BY <1>2, HeldMaps DEF Additions
<1>9. ASSUME NEW q \in Process, NEW x \in Key
      PROVE  Observed(MapOf(q), x)' = IF q = c /\ x = k THEN Observed(MapOf(c), k) \cup {t}
                                                        ELSE Observed(MapOf(q), x)
  <2>1. Observed(MapOf(q), x)' = {u \in added'[x] : u[2] <= MapOf(q)'.keys.versions[u[1]]}
    BY DEF Observed
  <2>2. CASE q # c
    <3>1. MapOf(q)' = MapOf(q)
      BY <1>3, <2>2
    <3>2. ~(t[2] <= MapOf(q).keys.versions[t[1]])
      BY <1>5
    <3> QED BY <1>8, <2>1, <2>2, <3>1, <3>2 DEF Observed
  <2>3. CASE q = c
    <3>1. \A u \in added[x] : u[2] <= MapOf(c)'.keys.versions[u[1]]
                              <=> u[2] <= MapOf(c).keys.versions[u[1]]
      <4> SUFFICES ASSUME NEW u \in added[x]
                   PROVE  u[2] <= MapOf(c)'.keys.versions[u[1]]
                          <=> u[2] <= MapOf(c).keys.versions[u[1]]
        OBVIOUS
      <4>1. u[1] \in Replica /\ u[2] \in Nat
        BY AdditionsType, HeldMaps
      <4>2. cmap[c].keys.versions \in Versions
        BY <1>1 DEF WellFormed, IsMap, IsSet
      <4>3. CASE u[1] # c
        BY <1>1, <1>4, <4>1, <4>2, <4>3 DEF Versions
      <4>4. CASE u[1] = c
        <5>1. u[2] <= n /\ n \in Int
          BY <1>5, <1>6, <4>4
        <5>2. MapOf(c)'.keys.versions[c] = n + 1 /\ MapOf(c).keys.versions[c] = n
          BY <1>1, <1>4, <4>2 DEF Versions, n
        <5> QED BY <4>1, <4>4, <5>1, <5>2
      <4> QED BY <4>3, <4>4
    <3>2. t[2] <= MapOf(c)'.keys.versions[t[1]]
      <4>1. cmap[c].keys.versions \in Versions
        BY <1>1 DEF WellFormed, IsMap, IsSet
      <4>2. MapOf(c)'.keys.versions[c] = n + 1 /\ n + 1 \in Int
        BY <1>1, <1>4, <1>5, <4>1 DEF Versions
      <4> QED BY <4>2
    <3> QED BY <1>8, <2>1, <2>3, <3>1, <3>2 DEF Observed
  <2> QED BY <2>2, <2>3
<1>10. Seen' = [Seen EXCEPT ![c][k] = @ \cup {t}]
  BY <1>1, <1>9 DEF Seen
<1>11. Visible' = [Visible EXCEPT ![c] = @ \cup {k}]
  BY <1>1, <1>3, <1>4 DEF Visible
<1> QED BY <1>2, <1>7, <1>10, <1>11 DEF n

LEMMA RemoveObserved ==
  ASSUME ImplInv, NEW c \in Client, NEW k \in Key, RemoveKey(c, k)
  PROVE  /\ purged' = [purged EXCEPT ![k] = @ \cup Seen[c][k]]
         /\ Visible' = [Visible EXCEPT ![c] = @ \ {k}]
         /\ added' = added /\ Seen' = Seen
<1>1. /\ Control /\ c \in Process /\ MapOf(c) = cmap[c]
      /\ WellFormed(cmap[c])
  BY HeldMaps, MapOfType DEF ImplInv, AddWinsInv, Inv
<1>2. /\ purged' = [purged EXCEPT ![k] =
                      @ \cup {t \in added[k] : t[2] <= cmap[c].keys.versions[t[1]]}]
      /\ cmap' = [cmap EXCEPT ![c] = MapRemove(@, k)] /\ smap' = smap
      /\ added' = added
  BY DEF RemoveKey
<1>3. \A q \in Process : MapOf(q)' = IF q = c THEN MapRemove(cmap[c], k) ELSE MapOf(q)
  BY <1>1, <1>2, MapOfType DEF Control, MapOf, Process
<1>4. /\ MapRemove(cmap[c], k).keys.versions = cmap[c].keys.versions
      /\ Contents(MapRemove(cmap[c], k).keys) = Contents(cmap[c].keys) \ {k}
  BY <1>1, MapRemoveWellFormed, RemoveType DEF WellFormed, IsMap
<1>5. \A q \in Process, x \in Key : Observed(MapOf(q), x)' = Observed(MapOf(q), x)
  BY <1>1, <1>2, <1>3, <1>4 DEF Observed
<1>6. Seen' = Seen
  BY <1>5 DEF Seen
<1>7. Visible' = [Visible EXCEPT ![c] = @ \ {k}]
  BY <1>1, <1>3, <1>4 DEF Visible
<1>8. Seen[c][k] = {t \in added[k] : t[2] <= cmap[c].keys.versions[t[1]]}
  BY <1>1 DEF Seen, Observed
<1> QED BY <1>2, <1>6, <1>7, <1>8

LEMMA MergeObserved ==
  ASSUME ImplInv, ImplInv', UNCHANGED <<added, purged>>,
         NEW p \in Process, NEW m \in MapsHeld, Merges(p, m)
  PROVE  /\ Seen' = [Seen EXCEPT ![p] = Seen'[p]]
         /\ Visible' = [Visible EXCEPT ![p] = Visible'[p]]
         /\ Visible'[p] \subseteq Key
         /\ \A k \in Key :
              /\ Seen[p][k] \subseteq Seen'[p][k] /\ Seen'[p][k] \subseteq added[k]
              /\ k \notin Visible'[p] => Seen'[p][k] \subseteq purged[k]
              /\ k \in Visible'[p] \ Visible[p] => Seen'[p][k] # Seen[p][k]
<1>1. /\ \A q \in Process : MapOf(q)' = IF q = p THEN MapMerge(MapOf(p), p, m) ELSE MapOf(q)
      /\ p \in Replica /\ added \in Additions
      /\ WellFormed(MapOf(p)) /\ WellFormed(m) /\ Genuine(m, added)
  BY MapOfType, HeldMaps DEF Merges
<1>2. \A q \in Process : q # p => /\ \A k \in Key : Observed(MapOf(q), k)' = Observed(MapOf(q), k)
                                  /\ Contents(MapOf(q).keys)' = Contents(MapOf(q).keys)
  BY <1>1 DEF Observed
<1>3. Seen' = [Seen EXCEPT ![p] = Seen'[p]] /\ Visible' = [Visible EXCEPT ![p] = Visible'[p]]
  BY <1>2 DEF Seen, Visible
<1>4. MapOf(p)' \in MapsHeld'
  BY <1>1, MapOfType DEF Process, MapsHeld
<1>5. ASSUME NEW k \in Key
      PROVE  /\ Contents(MapOf(p)'.keys) \subseteq Key
             /\ Observed(MapOf(p), k) \subseteq Observed(MapOf(p), k)'
             /\ Observed(MapOf(p), k)' \subseteq added[k]
             /\ k \in Contents(MapOf(p)'.keys) \ Contents(MapOf(p).keys) =>
                  Observed(MapOf(p), k)' # Observed(MapOf(p), k)
             /\ k \notin Contents(MapOf(p)'.keys) => Observed(MapOf(p), k)' \subseteq purged[k]
  <2>1. Observed(MapOf(p), k)' = Observed(MapMerge(MapOf(p), p, m), k)
    BY <1>1 DEF Observed
  <2>2. k \notin Contents(MapOf(p)'.keys) => Observed(MapOf(p), k)' \subseteq purged[k]
    <3>1. NoLostPut'
      BY AddWinsImplies, PTL DEF ImplInv
    <3> QED BY <1>4, <3>1 DEF NoLostPut, Contains, Observed
  <2>3. Observed(MapOf(p), k)' \subseteq added[k]
    BY DEF Observed
  <2> QED BY <1>1, <2>1, <2>2, <2>3, MergeHears
<1>6. /\ Visible'[p] = Contents(MapOf(p)'.keys) /\ Visible[p] = Contents(MapOf(p).keys)
      /\ \A k \in Key : Seen'[p][k] = Observed(MapOf(p), k)' /\ Seen[p][k] = Observed(MapOf(p), k)
  BY DEF Seen, Visible
<1>7. Visible'[p] \subseteq Key
  <2>1. WellFormed(MapOf(p)')
    BY <1>1, MapMergeWellFormed
  <2> QED BY <1>6, <2>1 DEF WellFormed, IsMap, IsSet, Contents
<1> QED BY <1>3, <1>5, <1>6, <1>7

LEMMA StartObserved ==
  ASSUME ImplInv, UNCHANGED <<added, purged>>, NEW s \in Server, StartsOver(s)
  PROVE  /\ Seen' = [Seen EXCEPT ![s] = [k \in Key |-> {}]]
         /\ Visible' = [Visible EXCEPT ![s] = {}]
<1>1. /\ \A q \in Process : MapOf(q)' = IF q = s THEN NewMap(s) ELSE MapOf(q)
      /\ s \in Process /\ s \in Replica /\ s \notin Client
  BY MapOfType DEF StartsOver
<1>2. ASSUME NEW k \in Key, NEW t \in added[k]
      PROVE  ~(t[2] <= NewMap(s).keys.versions[t[1]])
  <2>1. t[1] \in Client /\ t[2] \in Nat /\ 1 <= t[2]
    BY HeldMaps, HistoryType DEF Additions, ImplInv, AddWinsInv, HistoryObserved
  <2>2. NewMap(s).keys.versions[t[1]] = -1
    BY <1>1, <2>1, BoundsType DEF NewMap, NewSet, NoTags, Unseen
  <2> QED BY <2>1, <2>2
<1>3. ASSUME NEW q \in Process, NEW k \in Key
      PROVE  Observed(MapOf(q), k)' = IF q = s THEN {} ELSE Observed(MapOf(q), k)
  BY <1>1, <1>2 DEF Observed
<1>4. Seen' = [Seen EXCEPT ![s] = [k \in Key |-> {}]]
  BY <1>1, <1>3 DEF Seen
<1>5. Visible' = [Visible EXCEPT ![s] = {}]
  BY <1>1, NewMapEmpty DEF Visible
<1> QED BY <1>4, <1>5

LEMMA StoreKept ==
  ASSUME UNCHANGED <<added, store>>
  PROVE  Seen' = Seen /\ Visible' = Visible
<1>1. \A q \in Process : MapOf(q)' = MapOf(q)
  BY DEF store, MapOf
<1> QED BY <1>1 DEF Seen, Visible, Observed

\* Every step is a step of AddWins, or none.
LEMMA RefinesStep ==
  ASSUME \A c \in Client : MaxRestarts[c] = 0, ImplInv, ImplInv', [Next]_vars
  PROVE  [Keys!Next]_(Keys!vars)
<1> USE DEF Process
<1>1. ASSUME NEW c \in Client, NEW k \in Key, Put(c, k) PROVE Keys!Next
  <2> DEFINE t == <<c, cmap[c].keys.versions[c] + 1>>
  <2>1. t \in added'[k]
    BY <1>1, PutObserved, HeldMaps DEF Additions
  <2>2. Keys!AddKey(c, k)
    BY <1>1, <2>1, PutObserved DEF Keys!AddKey, Seen, Visible
  <2> QED BY <2>2 DEF Keys!Next
<1>2. ASSUME NEW c \in Client, NEW k \in Key, RemoveKey(c, k) PROVE Keys!Next
  <2>1. Keys!RemoveKey(c, k)
    BY <1>2, RemoveObserved DEF Keys!RemoveKey, Seen, Visible
  <2> QED BY <2>1 DEF Keys!Next
<1>3. CASE UNCHANGED <<added, purged>> /\ UNCHANGED store
  BY <1>3, StoreKept DEF Keys!vars, Seen, Visible
<1>4. ASSUME UNCHANGED <<added, purged>>, NEW p \in Process, NEW m \in MapsHeld, Merges(p, m)
      PROVE  Keys!Next
  <2>1. Keys!Hear(p)
    BY <1>4, MergeObserved DEF Keys!Hear, Seen, Visible
  <2> QED BY <2>1 DEF Keys!Next
<1>5. ASSUME UNCHANGED <<added, purged>>, NEW s \in Server, StartsOver(s)
      PROVE  Keys!Next
  <2>1. Keys!Forget(s)
    BY <1>5, StartObserved DEF Keys!Forget, Keys!Nothing, Seen, Visible
  <2> QED BY <2>1 DEF Keys!Next
<1>6. Inv
  BY DEF ImplInv, AddWinsInv
<1> QED BY <1>1, <1>2, <1>3, <1>4, <1>5, <1>6, StepKinds

-----------------------------------------------------------------------------
\* The store implements the add-wins policy (map.hh:11): whatever is lost, late,
\* or interleaved, every step of it is a step that AddWins allows.
THEOREM StoreImplementsAddWins ==
  ASSUME \A c \in Client : MaxRestarts[c] = 0
  PROVE  Spec => ImplementsAddWins
<1>1. Spec => []ImplInv
  BY ImplInit, ImplStep, PTL DEF Spec
<1>2. ImplInv /\ ImplInv' /\ [Next]_vars => [Keys!Next]_(Keys!vars)
  BY RefinesStep
<1> QED BY <1>1, <1>2, RefinesInit, PTL DEF Spec, ImplementsAddWins, Keys!Spec
=============================================================================
