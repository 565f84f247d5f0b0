---------------------------- MODULE SyncTheorems ----------------------------
(***************************************************************************)
(* What a client may rely on: an acknowledged sync; while servers do not   *)
(* crash and posts do not time out, its own version after a restart, and   *)
(* merges that agree on the keys; the maps it sends and receives; and what *)
(* menu option 6 reports.  For every set of clients, servers and keys.     *)
(***************************************************************************)
EXTENDS Report, KVStoreTheorems, FiniteSetTheorems

\* The servers that are not waited for and hold what c posted.
Holders(c) == {s \in Server \ waiting[c] : Covers(smap[s], cmap[c])}

\* What the broadcast of c posts covers the map of c: it is taken from the
\* coordinator after that has merged c's map. Every OK comes from a holder.
AckOf(c) ==
  /\ phase[c] = "merged" => Covers(smap[coord[c]], cmap[c])
  /\ phase[c] = "waiting" =>
       Covers(body[c], cmap[c]) /\ oks[c] <= Cardinality(Holders(c))

AckInv == Inv /\ \A c \in Client : AckOf(c)

-----------------------------------------------------------------------------
LEMMA CoversTransitive ==
  ASSUME NEW m1, NEW m2, NEW m3, WellFormed(m1), WellFormed(m2), WellFormed(m3),
         Covers(m1, m2), Covers(m2, m3)
  PROVE  Covers(m1, m3)
<1>1. ASSUME NEW r \in Replica PROVE m3.keys.versions[r] <= m1.keys.versions[r]
  <2>1. /\ m1.keys.versions[r] \in Int /\ m2.keys.versions[r] \in Int
        /\ m3.keys.versions[r] \in Int
    BY WellFormedVersions
  <2> QED BY <2>1 DEF Covers
<1> QED BY <1>1 DEF Covers

LEMMA MergeCovers ==
  ASSUME NEW map, NEW remote, NEW id \in Replica, WellFormed(map), WellFormed(remote)
  PROVE  Covers(MapMerge(map, id, remote), remote)
<1>1. /\ IsSet(map.keys) /\ IsSet(remote.keys)
      /\ MapMerge(map, id, remote).keys = Merge(map.keys, remote.keys)
  BY MapMergeWellFormed DEF WellFormed, IsMap
<1> QED BY <1>1, MergeType DEF Covers

\* What a step does to the sync of a client that is in the middle of it.
Steady(c) ==
  /\ phase'[c] = phase[c] /\ coord'[c] = coord[c] /\ oks'[c] = oks[c]
  /\ cmap'[c] = cmap[c] /\ body'[c] = body[c] /\ waiting'[c] \subseteq waiting[c]

Ended(c) == phase'[c] \notin {"merged", "waiting"}

LEMMA SyncKinds ==
  ASSUME Inv, [Next]_vars, \A s \in Server : ~Crash(s), NEW d \in Client
  PROVE  \/ Ended(d) \/ Steady(d) \/ HandlePost(d) \/ Broadcast(d)
         \/ \E s \in Server : DeliverPost(d, s)
<1> DEFINE Kind == \/ Ended(d) \/ Steady(d) \/ HandlePost(d) \/ Broadcast(d)
                   \/ \E s \in Server : DeliverPost(d, s)
<1>1. Control
  BY DEF Inv
<1>2. ASSUME NEW c \in Client, EndOfSyncs({c}), cmap'[d] = cmap[d] \/ c = d PROVE Kind
  BY <1>1, <1>2 DEF EndOfSyncs, Ended, Steady, Control
<1>3. ASSUME NEW c \in Client, ClientStep(c) PROVE Kind
  <2>1. ASSUME NEW k \in Key, Put(c, k) \/ RemoveKey(c, k) PROVE Kind
    BY <1>1, <2>1 DEF Put, RemoveKey, Ended, Steady, Control, sync
  <2>2. CASE ClientRestart(c) \/ StartSync(c) \/ LookupFails(c)
    BY <1>1, <2>2 DEF ClientRestart, StartSync, LookupFails, Ended, Steady, Control, store
  <2>3. ASSUME NEW s \in Server, Connect(c, s) PROVE Kind
    BY <1>1, <2>3 DEF Connect, Ended, Steady, Control, store
  <2>4. CASE PostFails(c)
    BY <1>2, <2>4 DEF PostFails, store
  <2> QED BY <1>3, <2>1, <2>2, <2>3, <2>4 DEF ClientStep
<1>4. ASSUME NEW c \in Client, ServerStep(c) PROVE Kind
  <2>1. CASE HandlePost(c)
    BY <1>1, <2>1 DEF HandlePost, Steady, Control
  <2>2. CASE Broadcast(c)
    BY <1>1, <2>2 DEF Broadcast, Steady, Control, store
  <2>3. ASSUME NEW s \in Server, DeliverPost(c, s) PROVE Kind
    BY <1>1, <2>3 DEF DeliverPost, Steady, Control
  <2>4. ASSUME NEW s \in Server, PostRefused(c, s) \/ PostTimesOut(c, s) PROVE Kind
    BY <1>1, <2>4 DEF PostRefused, PostTimesOut, Steady, Control, store
  <2>5. CASE ClientTimesOut(c)
    BY <1>2, <2>5 DEF ClientTimesOut, store
  <2>6. CASE SyncSucceeds(c)
    BY <1>1, <1>2, <2>6 DEF SyncSucceeds, EndOfSync, Control
  <2>7. CASE SyncFails(c)
    BY <1>2, <2>7 DEF SyncFails, EndOfSync
  <2> QED BY <1>4, <2>1, <2>2, <2>3, <2>4, <2>5, <2>6, <2>7 DEF ServerStep
<1>5. ASSUME NEW p \in late, DeliverLate(p) PROVE Kind
  BY <1>1, <1>5 DEF DeliverLate, Steady, Control, sync
<1>6. ASSUME NEW s \in Server, Restart(s) PROVE Kind
  BY <1>6 DEF Restart, Steady, store, sync
<1>7. CASE UNCHANGED vars
  BY <1>7 DEF vars, Steady, store, sync
<1> QED BY <1>3, <1>4, <1>5, <1>6, <1>7 DEF Next

\* A server that does not crash goes on covering what it covered.
LEMMA ServersCover ==
  ASSUME Inv, [Next]_vars, \A s \in Server : ~Crash(s)
  PROVE  \A s \in Server : Covers(smap'[s], smap[s])
<1>1. MapsAdvance
  BY MapsAdvanceStep
<1>2. Control /\ \A s \in Server : WellFormed(smap[s]) /\ Covers(smap[s], smap[s])
  BY AdvancesToSelf DEF Inv, MapsWellFormed, Advances
<1>3. CASE up' = up
  BY <1>1, <1>3 DEF MapsAdvance, Advances
<1>4. CASE \E s \in Server : Restart(s)
  BY <1>2, <1>4 DEF Restart, store
<1>5. up' = up \/ \E s \in Server : Restart(s)
  BY DEF Next, ClientStep, ServerStep, vars, Put, RemoveKey, ClientRestart, StartSync,
         LookupFails, PostFails, Connect, HandlePost, Broadcast, SyncSucceeds, SyncFails,
         EndOfSync, ClientTimesOut, DeliverPost, PostRefused, PostTimesOut, DeliverLate
<1> QED BY <1>3, <1>4, <1>5

LEMMA HoldersStay ==
  ASSUME IsFiniteSet(Server), Inv, Inv', NEW c \in Client,
         cmap'[c] = cmap[c], waiting'[c] \subseteq waiting[c],
         \A s \in Server : Covers(smap'[s], smap[s])
  PROVE  /\ Holders(c) \subseteq Holders(c)'
         /\ IsFiniteSet(Holders(c)) /\ IsFiniteSet(Holders(c)')
         /\ Cardinality(Holders(c)) <= Cardinality(Holders(c)')
         /\ Cardinality(Holders(c)) \in Nat /\ Cardinality(Holders(c)') \in Nat
<1>1. ASSUME NEW s \in Holders(c) PROVE s \in Holders(c)'
  <2>1. WellFormed(smap[s]) /\ WellFormed(smap'[s]) /\ WellFormed(cmap[c])
    BY DEF Inv, MapsWellFormed, Holders
  <2> QED BY <2>1, CoversTransitive DEF Holders
<1>2. Holders(c) \subseteq Server /\ Holders(c)' \subseteq Server
  BY DEF Holders
<1>3. IsFiniteSet(Holders(c)) /\ IsFiniteSet(Holders(c)')
  BY <1>2, FS_Subset
<1> QED BY <1>1, <1>3, FS_Subset, FS_CardinalityType

-----------------------------------------------------------------------------
NoCrash == IsFiniteSet(Server) /\ MaxDown = 0

LEMMA NeverDown ==
  ASSUME NoCrash, NEW s \in Server
  PROVE  ~Crash(s)
<1>1. IsFiniteSet({r \in Server : ~up[r]})
  BY FS_Subset DEF NoCrash
<1>2. Cardinality({r \in Server : ~up[r]}) \in Nat
  BY <1>1, FS_CardinalityType
<1> QED BY <1>2 DEF NoCrash, Crash

LEMMA AckInit == Init => AckInv
BY InvInit DEF Init, AckInv, AckOf

LEMMA AckStep ==
  ASSUME NoCrash
  PROVE  AckInv /\ [Next]_vars => AckInv'
<1> SUFFICES ASSUME AckInv, [Next]_vars PROVE AckInv'
  OBVIOUS
<1>1. /\ Inv /\ Inv' /\ Control /\ IsFiniteSet(Server)
      /\ \A s \in Server : Covers(smap'[s], smap[s])
  BY InvStep, ServersCover, NeverDown DEF AckInv, NoCrash, Inv
<1>2. ASSUME NEW d \in Client PROVE AckOf(d)'
  <2>1. /\ AckOf(d) /\ coord[d] \in Server /\ d \in Replica
        /\ WellFormed(cmap[d]) /\ WellFormed(body[d])
        /\ \A s \in Server : WellFormed(smap[s]) /\ WellFormed(smap'[s]) /\ s \in Replica
    BY <1>1, BoundsType DEF AckInv, Inv, MapsWellFormed, Control
  <2>2. CASE Ended(d)
    BY <2>2 DEF Ended, AckOf
  <2>3. CASE Steady(d)
    <3>1. phase'[d] = "merged" => Covers(smap'[coord'[d]], cmap'[d])
      BY <1>1, <2>1, <2>3, CoversTransitive DEF Steady, AckOf
    <3>2. phase'[d] = "waiting" => oks'[d] <= Cardinality(Holders(d)')
      <4>1. oks[d] \in Int
        BY <1>1 DEF Control, ExpectedResponses
      <4> QED BY <1>1, <2>1, <2>3, <4>1, HoldersStay DEF Steady, AckOf
    <3> QED BY <2>1, <2>3, <3>1, <3>2 DEF Steady, AckOf, Holders
  <2>4. CASE HandlePost(d)
    <3>1. /\ smap'[coord[d]] = MapMerge(smap[coord[d]], coord[d], cmap[d])
          /\ cmap' = cmap /\ coord' = coord /\ phase'[d] = "merged"
      BY <1>1, <2>1, <2>4 DEF HandlePost, Control
    <3> QED BY <2>1, <3>1, MergeCovers DEF AckOf
  <2>5. CASE Broadcast(d)
    <3>1. /\ phase[d] = "merged" /\ phase'[d] = "waiting" /\ oks'[d] = 0
          /\ body'[d] = smap[coord[d]] /\ cmap' = cmap
      BY <1>1, <2>5 DEF Broadcast, Control, store
    <3>2. Holders(d)' \subseteq Server
      BY DEF Holders
    <3>3. Cardinality(Holders(d)') \in Nat
      BY <1>1, <3>2, FS_Subset, FS_CardinalityType
    <3> QED BY <2>1, <3>1, <3>3 DEF AckOf
  <2>6. ASSUME NEW s \in Server, DeliverPost(d, s) PROVE AckOf(d)'
    <3>1. /\ s \in waiting[d] /\ waiting'[d] = waiting[d] \ {s}
          /\ smap'[s] = MapMerge(smap[s], s, body[d])
          /\ oks[d] \in Nat /\ oks'[d] \in Nat /\ oks'[d] <= oks[d] + 1
          /\ UNCHANGED <<cmap, phase, coord, body>>
      BY <1>1, <2>6 DEF DeliverPost, Control, ExpectedResponses
    <3>2. CASE phase[d] = "waiting"
      <4>1. Covers(body[d], cmap[d]) /\ oks[d] <= Cardinality(Holders(d))
        BY <2>1, <3>2 DEF AckOf
      <4>2. Covers(smap'[s], cmap[d])
        BY <2>1, <3>1, <4>1, MergeCovers, CoversTransitive
      <4>3. s \notin Holders(d) /\ s \in Holders(d)'
        BY <3>1, <4>2 DEF Holders
      <4>4. /\ IsFiniteSet(Holders(d)) /\ IsFiniteSet(Holders(d)')
            /\ Holders(d) \subseteq Holders(d)'
            /\ Cardinality(Holders(d)) \in Nat /\ Cardinality(Holders(d)') \in Nat
        BY <1>1, <3>1, HoldersStay
      <4>5. Cardinality(Holders(d) \cup {s}) = Cardinality(Holders(d)) + 1
        BY <4>3, <4>4, FS_AddElement
      <4>6. Cardinality(Holders(d) \cup {s}) <= Cardinality(Holders(d)')
        BY <4>3, <4>4, FS_Subset
      <4>7. oks'[d] <= Cardinality(Holders(d)')
        BY <3>1, <4>1, <4>4, <4>5, <4>6
      <4> QED BY <3>1, <3>2, <4>1, <4>7 DEF AckOf
    <3>3. CASE phase[d] = "merged"
      BY <1>1, <2>1, <3>1, <3>3, CoversTransitive DEF AckOf
    <3> QED BY <3>1, <3>2, <3>3 DEF AckOf
  <2>7. \/ Ended(d) \/ Steady(d) \/ HandlePost(d) \/ Broadcast(d)
        \/ \E s \in Server : DeliverPost(d, s)
    BY <1>1, NeverDown, SyncKinds
  <2> QED BY <2>2, <2>3, <2>4, <2>5, <2>6, <2>7
<1> QED BY <1>1, <1>2 DEF AckInv

\* A 200 is worth what it says: each counted OK comes from a server of its own that has
\* observed all that the client had, and observes it for as long as it runs.
THEOREM OksAreHeld ==
  ASSUME IsFiniteSet(Server), MaxDown = 0
  PROVE  Spec => []AcksCounted
<1>1. Spec => []AckInv
  BY AckInit, AckStep, PTL DEF Spec, NoCrash
<1>2. AckInv => AcksCounted
  BY DEF AckInv, AckOf, AcksCounted, Holders
<1> QED BY <1>1, <1>2, PTL

-----------------------------------------------------------------------------
\* When no server crashes and no post times out, every sync that has found a server
\* succeeds, and every server then has what the client posted.
Reliable == NoCrash /\ MaxLate = 0 /\ Cardinality(Server) >= ExpectedResponses

\* A sync is where its control state says, and all answers to its broadcast are OKs.
Prompt ==
  /\ late = {} /\ \A s \in Server : up[s]
  /\ \A c \in Client :
       /\ phase[c] # "waiting" => waiting[c] = {} /\ body[c] = NewMap(c)
       /\ phase[c] = "waiting" =>
            oks[c] \in {ExpectedResponses, Cardinality(Server \ waiting[c])}

\* Only clients add, and their first addition is number 1; everybody has a version of
\* its own, which the constructor of the set makes 0.
TagsOfClients(map) ==
  \A k \in Contents(map.keys), r \in Replica :
    map.keys.elements[k][r] # Unseen => r \in Client /\ map.keys.elements[k][r] >= 1

OwnVersions ==
  /\ \A c \in Client : cmap[c].keys.versions[c] >= 0
  /\ \A s \in Server : smap[s].keys.versions[s] >= 0

PromptInv == Inv /\ Prompt /\ OwnVersions /\ \A m \in MapsHeld : TagsOfClients(m)

\* What is left of Next.
PromptStep(c) ==
  \/ \E k \in Key : Put(c, k) \/ RemoveKey(c, k)
  \/ ClientRestart(c)
  \/ StartSync(c) \/ LookupFails(c) \/ HandlePost(c) \/ Broadcast(c) \/ SyncSucceeds(c)
  \/ \E s \in Server : Connect(c, s) \/ DeliverPost(c, s)

LEMMA PromptKinds ==
  ASSUME Reliable, Inv, Prompt, [Next]_vars
  PROVE  UNCHANGED vars \/ \E c \in Client : PromptStep(c)
<1>1. Control /\ MaxLate = 0 /\ IsFiniteSet(Server)
  BY DEF Inv, Reliable, NoCrash
<1>2. late = {} /\ \A s \in Server : up[s] /\ ~Restart(s) /\ ~Crash(s)
  BY NeverDown DEF Prompt, Reliable, Restart
<1>3. Cardinality({}) = 0
  BY FS_EmptySet
<1>4. ASSUME NEW c \in Client PROVE ~PostFails(c)
  BY <1>1, <1>2 DEF PostFails, Control
<1>5. ASSUME NEW c \in Client, NEW s \in Server PROVE ~PostRefused(c, s) /\ ~PostTimesOut(c, s)
  BY <1>1, <1>2, <1>3 DEF PostRefused, PostTimesOut
<1>6. ASSUME NEW c \in Client PROVE ~ClientTimesOut(c)
  <2> SUFFICES ASSUME ClientTimesOut(c) PROVE FALSE
    OBVIOUS
  <2> DEFINE sent == {[to |-> s, body |-> body[c]] : s \in waiting[c]}
  <2>1. /\ waiting[c] \subseteq Server /\ waiting[c] # {}
        /\ Cardinality(late \cup sent) <= 0
    BY <1>1 DEF ClientTimesOut, Control
  <2>2. IsFiniteSet(sent)
    <3>1. IsFiniteSet(waiting[c])
      BY <1>1, <2>1, FS_Subset
    <3> DEFINE post == [s \in waiting[c] |-> [to |-> s, body |-> body[c]]]
    <3>2. post \in Surjection(waiting[c], sent)
      BY DEF Surjection
    <3> HIDE DEF post, sent
    <3> QED BY <3>1, <3>2, FS_Surjection
  <2>3. late \cup sent = sent /\ sent # {}
    BY <1>2, <2>1
  <2> HIDE DEF sent
  <2>4. Cardinality(sent) \in Nat /\ Cardinality(sent) # 0
    BY <2>2, <2>3, FS_CardinalityType, FS_EmptySet
  <2> QED BY <2>1, <2>3, <2>4
<1>7. ASSUME NEW c \in Client PROVE ~SyncFails(c)
  <2> SUFFICES ASSUME SyncFails(c) PROVE FALSE
    OBVIOUS
  <2>1. phase[c] = "waiting" /\ waiting[c] = {} /\ oks[c] < ExpectedResponses
    BY DEF SyncFails, EndOfSync
  <2>2. oks[c] \in {ExpectedResponses, Cardinality(Server)}
    BY <2>1 DEF Prompt
  <2> QED BY <1>1, <2>1, <2>2, FS_CardinalityType DEF Reliable, ExpectedResponses
<1> QED BY <1>2, <1>4, <1>5, <1>6, <1>7 DEF Next, ClientStep, ServerStep, PromptStep

\* The operations keep tags those of clients.
LEMMA OperationTags ==
  ASSUME NEW map, WellFormed(map), TagsOfClients(map)
  PROVE  /\ \A k : TagsOfClients(MapRemove(map, k))
         /\ \A c \in Client, k \in Key : \A v :
              map.keys.versions[c] >= 0 => TagsOfClients(MapPut(map, c, k, v))
         /\ \A id \in Replica : \A remote :
              WellFormed(remote) /\ TagsOfClients(remote)
                => TagsOfClients(MapMerge(map, id, remote))
<1>1. \A k : TagsOfClients(MapRemove(map, k))
  BY DEF TagsOfClients, MapRemove, Remove, Contents
<1>2. ASSUME NEW c \in Client, NEW k \in Key, NEW v, map.keys.versions[c] >= 0
      PROVE  TagsOfClients(MapPut(map, c, k, v))
  <2> DEFINE old == map.keys
             new == Add(old, c, k)
  <2>1. MapPut(map, c, k, v).keys = new /\ IsSet(old)
    BY DEF MapPut, WellFormed, IsMap
  <2>2. c \in Replica /\ old.versions[c] \in Int
    BY BoundsType, WellFormedVersions
  <2>3. /\ Contents(new) = Contents(old) \cup {k}
        /\ \A e \in Contents(old) \ {k} : new.elements[e] = old.elements[e]
        /\ new.elements[k][c] = old.versions[c] + 1
        /\ \A r \in Replica \ {c} :
             new.elements[k][r] = IF k \in Contents(old) THEN old.elements[k][r] ELSE Unseen
    <3>1. k \in Contents(old) => old.elements[k] \in Versions
      BY <2>1 DEF IsSet, Contents
    <3> HIDE DEF old
    <3> QED BY <2>2, <3>1 DEF Add, Contents, Versions, NoTags
  <2>4. ASSUME NEW e \in Contents(new), NEW r \in Replica, new.elements[e][r] # Unseen
        PROVE  r \in Client /\ new.elements[e][r] >= 1
    <3>1. CASE e = k /\ r = c
      BY <1>2, <2>2, <2>3, <3>1
    <3>2. CASE e # k \/ r # c
      <4>1. e \in Contents(old) /\ new.elements[e][r] = old.elements[e][r]
        BY <2>3, <2>4, <3>2
      <4> HIDE DEF old, new
      <4> QED BY <2>4, <4>1 DEF TagsOfClients, old
    <3> QED BY <3>1, <3>2
  <2> HIDE DEF old, new
  <2> QED BY <2>1, <2>4 DEF TagsOfClients
<1>3. ASSUME NEW id \in Replica, NEW remote, WellFormed(remote), TagsOfClients(remote)
      PROVE  TagsOfClients(MapMerge(map, id, remote))
  <2>1. /\ MapMerge(map, id, remote).keys = Merge(map.keys, remote.keys)
        /\ IsSet(map.keys) /\ IsSet(remote.keys)
    BY <1>3, MapMergeType DEF WellFormed, IsMap
  <2> QED BY <1>3, <2>1, MergeType DEF TagsOfClients
<1> QED BY <1>1, <1>2, <1>3

LEMMA PromptInit == Init => PromptInv
<1> SUFFICES ASSUME Init PROVE PromptInv
  OBVIOUS
<1>1. \A m \in MapsHeld : \E id \in Replica : m = NewMap(id)
  BY BoundsType DEF Init, MapsHeld
<1>2. \A id \in Replica : TagsOfClients(NewMap(id)) /\ NewMap(id).keys.versions[id] = 0
  BY DEF TagsOfClients, NewMap, NewSet, NoTags, Contents
<1>3. OwnVersions
  BY <1>2, BoundsType DEF Init, OwnVersions
<1>4. Prompt
  BY DEF Init, Prompt
<1> QED BY <1>1, <1>2, <1>3, <1>4, InvInit DEF PromptInv

LEMMA OwnVersionsStep ==
  ASSUME Inv, OwnVersions, [Next]_vars
  PROVE  OwnVersions'
<1>1. Inv' /\ MapsAdvance
  BY InvStep, MapsAdvanceStep
<1>2. /\ \A c \in Client : c \in Replica /\ WellFormed(cmap[c]) /\ WellFormed(cmap'[c])
      /\ \A s \in Server : s \in Replica /\ WellFormed(smap[s]) /\ WellFormed(smap'[s])
  BY <1>1, BoundsType DEF Inv, MapsWellFormed
<1>3. ASSUME NEW s \in Server PROVE smap'[s].keys.versions[s] >= 0
  <2>1. smap[s].keys.versions[s] \in Int /\ smap'[s].keys.versions[s] \in Int
    BY <1>2, WellFormedVersions
  <2>2. CASE up'[s] = up[s]
    BY <1>1, <1>2, <2>1, <2>2 DEF MapsAdvance, Advances, Covers, OwnVersions
  <2>3. CASE Crash(s)
    <3>1. smap'[s] = NewMap(s)
      BY <2>3 DEF Crash, Inv, Control
    <3> QED BY <1>2, <3>1 DEF NewMap, NewSet, NoTags
  <2>4. CASE Restart(s)
    BY <2>4 DEF Restart, store, OwnVersions
  <2>5. up'[s] = up[s] \/ Crash(s) \/ Restart(s)
    <3>1. up' = up \/ \E r \in Server : Crash(r) \/ Restart(r)
      BY DEF Next, ClientStep, ServerStep, vars, Put, RemoveKey, ClientRestart, StartSync,
             LookupFails, PostFails, Connect, HandlePost, Broadcast, SyncSucceeds, SyncFails,
             EndOfSync, ClientTimesOut, DeliverPost, PostRefused, PostTimesOut, DeliverLate
    <3>2. ASSUME NEW r \in Server, r # s, Crash(r) \/ Restart(r) PROVE up'[s] = up[s]
      BY <3>2 DEF Crash, Restart, Inv, Control
    <3> QED BY <3>1, <3>2
  <2> QED BY <2>2, <2>3, <2>4, <2>5
<1>4. ASSUME NEW c \in Client PROVE cmap'[c].keys.versions[c] >= 0
  <2>1. cmap[c].keys.versions[c] \in Int /\ cmap'[c].keys.versions[c] \in Int
    BY <1>2, WellFormedVersions
  <2>2. CASE restarts'[c] = restarts[c]
    BY <1>1, <1>2, <2>1, <2>2 DEF MapsAdvance, Advances, Covers, OwnVersions
  <2>3. CASE ClientRestart(c)
    <3>1. cmap'[c] = NewMap(c)
      BY <2>3 DEF ClientRestart, Inv, Control
    <3> QED BY <1>2, <3>1 DEF NewMap, NewSet, NoTags
  <2>4. restarts'[c] = restarts[c] \/ ClientRestart(c)
    <3>1. restarts' = restarts \/ \E d \in Client : ClientRestart(d)
      BY DEF Next, ClientStep, ServerStep, vars, history, Put, RemoveKey, StartSync,
             LookupFails, PostFails, Connect, HandlePost, Broadcast, SyncSucceeds, SyncFails,
             EndOfSync, ClientTimesOut, DeliverPost, PostRefused, PostTimesOut, DeliverLate,
             Crash, Restart
    <3> QED BY <3>1 DEF ClientRestart, Inv, Control
  <2> QED BY <2>2, <2>3, <2>4
<1> QED BY <1>3, <1>4 DEF OwnVersions

\* Whatever fails, only the additions of clients are recorded.
TagsInv == Inv /\ OwnVersions /\ \A m \in MapsHeld : TagsOfClients(m)

LEMMA TagsInit == Init => TagsInv
BY PromptInit DEF PromptInv, TagsInv

LEMMA TagsStep == TagsInv /\ [Next]_vars => TagsInv'
<1> SUFFICES ASSUME TagsInv, [Next]_vars PROVE TagsInv'
  OBVIOUS
<1>1. /\ Inv /\ \A m \in MapsHeld : WellFormed(m) /\ TagsOfClients(m)
      /\ \A c \in Client : cmap[c] \in MapsHeld /\ cmap[c].keys.versions[c] >= 0
  BY HeldWellFormed DEF TagsInv, OwnVersions, MapsHeld
<1>2. \A id \in Replica : TagsOfClients(NewMap(id))
  BY DEF TagsOfClients, NewMap, NewSet, Contents
<1>3. \A m : Made(m) => TagsOfClients(m)
  BY <1>1, <1>2, OperationTags DEF Made
<1>4. \A m \in MapsHeld' : TagsOfClients(m)
  BY <1>1, <1>3, AllMade
<1> QED BY <1>1, <1>4, InvStep, OwnVersionsStep DEF TagsInv

\* The evidence that orset.hh asks for is the version of a server: no addition has it.
LEMMA TagsGiveEvidence == TagsInv => RemovalsApplied
<1> SUFFICES ASSUME TagsInv, NEW m1 \in MapsHeld, NEW m2 \in MapsHeld,
                    NEW s \in Server, m2.keys.versions[s] # Unseen,
                    NEW k \in Contents(m1.keys), k \notin Contents(m2.keys),
                    \A r \in Replica : m1.keys.elements[k][r] <= m2.keys.versions[r]
             PROVE  k \notin Contents(Merge(m1.keys, m2.keys))
  BY DEF RemovalsApplied
<1>1. /\ WellFormed(m1) /\ WellFormed(m2) /\ TagsOfClients(m1)
      /\ s \in Replica /\ s \notin Client
  BY HeldWellFormed, KVAssumption DEF TagsInv
<1>2. /\ IsSet(m1.keys) /\ IsSet(m2.keys)
      /\ m2.keys.versions[s] \in Int /\ m2.keys.versions[s] >= -1
  BY <1>1, WellFormedVersions DEF WellFormed, IsMap
<1>3. m1.keys.elements[k][s] = Unseen
  BY <1>1 DEF TagsOfClients
<1>4. m1.keys.elements[k][s] < m2.keys.versions[s]
  BY <1>2, <1>3 DEF Unseen
<1>5. RemovedRemotely(m1.keys.elements[k], m2.keys.versions)
  BY <1>1, <1>4 DEF RemovedRemotely
<1> QED BY <1>2, <1>5, MergeElements

\* Removals take effect, with crashes, restarts, timeouts and late posts: whoever merges
\* the map of a process that has removed a key, has observed every addition recorded for it
\* and has heard of some server, does not keep the key.
THEOREM ObservedRemovalsApplied == Spec => []RemovalsApplied
<1>1. Spec => []TagsInv
  BY TagsInit, TagsStep, PTL DEF Spec
<1> QED BY <1>1, TagsGiveEvidence, PTL

LEMMA PromptStays ==
  ASSUME Reliable, Inv, Prompt, [Next]_vars
  PROVE  Prompt'
<1>1. /\ Control /\ IsFiniteSet(Server)
      /\ late = {} /\ \A s \in Server : up[s]
      /\ \A c \in Client :
           /\ phase[c] # "waiting" => waiting[c] = {} /\ body[c] = NewMap(c)
           /\ phase[c] = "waiting" =>
                oks[c] \in {ExpectedResponses, Cardinality(Server \ waiting[c])}
  BY DEF Inv, Prompt, Reliable, NoCrash
<1>2. CASE UNCHANGED vars
  BY <1>1, <1>2 DEF vars, store, sync, Prompt
<1>3. ASSUME NEW c \in Client, PromptStep(c) PROVE Prompt'
  <2>1. ASSUME NEW k \in Key, Put(c, k) \/ RemoveKey(c, k) PROVE Prompt'
    BY <1>1, <2>1 DEF Put, RemoveKey, sync, Prompt
  <2>2. CASE ClientRestart(c) \/ StartSync(c) \/ LookupFails(c) \/ HandlePost(c)
    <3>1. UNCHANGED <<up, body, waiting, oks, late>>
      BY <2>2 DEF ClientRestart, StartSync, LookupFails, HandlePost
    <3>2. phase[c] # "waiting" /\ phase'[c] # "waiting"
      <4>1. CASE ClientRestart(c)
        BY <1>1, <4>1 DEF ClientRestart, Control
      <4>2. CASE StartSync(c) \/ LookupFails(c)
        BY <1>1, <4>2 DEF StartSync, LookupFails, Control
      <4>3. CASE HandlePost(c)
        BY <1>1, <4>3 DEF HandlePost, Control
      <4> QED BY <2>2, <4>1, <4>2, <4>3
    <3>3. \A d \in Client \ {c} : phase'[d] = phase[d]
      BY <1>1, <2>2 DEF ClientRestart, StartSync, LookupFails, HandlePost, Control
    <3> QED BY <1>1, <3>1, <3>2, <3>3 DEF Prompt
  <2>3. ASSUME NEW s \in Server, Connect(c, s) PROVE Prompt'
    BY <1>1, <2>3 DEF Connect, Control, Prompt
  <2>4. CASE Broadcast(c)
    <3>1. Cardinality(Server \ Server) = 0
      BY FS_EmptySet
    <3> QED BY <1>1, <2>4, <3>1 DEF Broadcast, Control, Prompt
  <2>5. CASE SyncSucceeds(c)
    BY <1>1, <2>5 DEF SyncSucceeds, EndOfSync, EndOfSyncs, Control, Prompt
  <2>6. ASSUME NEW s \in Server, DeliverPost(c, s) PROVE Prompt'
    <3>1. /\ s \in waiting[c] /\ waiting[c] \subseteq Server
          /\ waiting'[c] = waiting[c] \ {s} /\ phase[c] = "waiting"
          /\ oks'[c] = IF oks[c] < ExpectedResponses THEN oks[c] + 1 ELSE oks[c]
          /\ oks[c] \in 0..ExpectedResponses
          /\ \A d \in Client \ {c} : waiting'[d] = waiting[d] /\ oks'[d] = oks[d]
          /\ UNCHANGED <<up, late, phase, body>>
      BY <1>1, <2>6 DEF DeliverPost, Control
    <3>2. Server \ waiting'[c] = (Server \ waiting[c]) \cup {s}
      BY <3>1
    <3>3. IsFiniteSet(Server \ waiting[c])
      BY <1>1, FS_Subset
    <3>4. Cardinality(Server \ waiting'[c]) = Cardinality(Server \ waiting[c]) + 1
      BY <3>1, <3>2, <3>3, FS_AddElement
    <3>5. oks'[c] \in {ExpectedResponses, Cardinality(Server \ waiting'[c])}
      BY <1>1, <3>1, <3>4 DEF ExpectedResponses
    <3> QED BY <1>1, <3>1, <3>5 DEF Prompt
  <2> QED BY <1>3, <2>1, <2>2, <2>3, <2>4, <2>5, <2>6 DEF PromptStep
<1> QED BY <1>2, <1>3, PromptKinds

LEMMA PromptInvStep ==
  ASSUME Reliable
  PROVE  PromptInv /\ [Next]_vars => PromptInv'
BY TagsStep, PromptStays DEF PromptInv, TagsInv, Reliable

\* A step of somebody else's leaves c, and its sync, as they are.
Untouched(c) ==
  /\ phase'[c] = phase[c] /\ coord'[c] = coord[c] /\ body'[c] = body[c]
  /\ waiting'[c] = waiting[c] /\ restarts'[c] = restarts[c] /\ cmap'[c] = cmap[c]
  /\ ~HandlePost(c)

LEMMA OthersSteps ==
  ASSUME Reliable, Inv, Prompt, [Next]_vars, NEW c \in Client
  PROVE  Untouched(c) \/ PromptStep(c)
<1> DEFINE Same == /\ phase'[c] = phase[c] /\ coord'[c] = coord[c] /\ body'[c] = body[c]
                   /\ waiting'[c] = waiting[c] /\ restarts'[c] = restarts[c]
                   /\ cmap'[c] = cmap[c]
<1>1. Control
  BY DEF Inv
<1>2. ASSUME NEW d \in Client \ {c}, PromptStep(d) PROVE Same
  <2>1. ASSUME NEW k \in Key, Put(d, k) \/ RemoveKey(d, k) PROVE Same
    BY <1>1, <2>1 DEF Put, RemoveKey, sync, Control
  <2>2. ASSUME \/ ClientRestart(d) \/ StartSync(d) \/ LookupFails(d)
               \/ HandlePost(d) \/ Broadcast(d)
        PROVE  Same
    BY <1>1, <2>2 DEF ClientRestart, StartSync, LookupFails, HandlePost, Broadcast, store,
                      history, Control
  <2>3. ASSUME NEW s \in Server, Connect(d, s) \/ DeliverPost(d, s) PROVE Same
    BY <1>1, <2>3 DEF Connect, DeliverPost, store, history, Control
  <2>4. ASSUME SyncSucceeds(d) PROVE Same
    BY <1>1, <2>4 DEF SyncSucceeds, EndOfSync, EndOfSyncs, history, Control
  <2> QED BY <1>2, <2>1, <2>2, <2>3, <2>4 DEF PromptStep
<1>3. UNCHANGED vars => Same
  BY DEF vars, store, sync, history
<1>4. Same => ~HandlePost(c)
  BY <1>1 DEF HandlePost, Control
<1> QED BY <1>2, <1>3, <1>4, PromptKinds DEF Untouched

-----------------------------------------------------------------------------
\* What everybody but c knows of c: the other clients, the servers, and the bodies of
\* broadcasts.
Elsewhere(c) ==
  {cmap[d] : d \in Client \ {c}} \cup {smap[s] : s \in Server}
    \cup {body[d] : d \in {e \in Client : phase[e] = "waiting"}}

\* All that map records of c, one of maps does.
Derived(c, map, maps) ==
  /\ \/ map.keys.versions[c] = Unseen
     \/ \E x \in maps : map.keys.versions[c] = x.keys.versions[c]
  /\ \A k \in Contents(map.keys) : map.keys.elements[k][c] # Unseen =>
       \E x \in maps : /\ k \in Contents(x.keys)
                       /\ map.keys.elements[k][c] = x.keys.elements[k][c]

LEMMA OperationDerived ==
  ASSUME NEW c \in Client, NEW maps, \A x \in maps : WellFormed(x), NEW map \in maps
  PROVE  /\ Derived(c, map, maps)
         /\ \A k : Derived(c, MapRemove(map, k), maps)
         /\ \A id \in Replica \ {c} : Derived(c, NewMap(id), maps)
         /\ \A id \in Replica \ {c}, k \in Key : \A v : Derived(c, MapPut(map, id, k, v), maps)
         /\ \A id \in Replica : \A remote \in maps : Derived(c, MapMerge(map, id, remote), maps)
<1>1. Derived(c, map, maps)
  BY DEF Derived
<1>2. \A k : Derived(c, MapRemove(map, k), maps)
  BY DEF Derived, MapRemove, Remove, Contents
<1>3. \A id \in Replica \ {c} : Derived(c, NewMap(id), maps)
  BY BoundsType DEF Derived, NewMap, NewSet, NoTags, Contents
<1>4. ASSUME NEW id \in Replica \ {c}, NEW k \in Key, NEW v
      PROVE  Derived(c, MapPut(map, id, k, v), maps)
  <2> DEFINE old == map.keys
             new == Add(old, id, k)
  <2>1. MapPut(map, id, k, v).keys = new /\ IsSet(old)
    BY DEF MapPut, WellFormed, IsMap
  <2>2. c \in Replica
    BY BoundsType
  <2>3. /\ Contents(new) = Contents(old) \cup {k}
        /\ \A e \in Contents(old) \ {k} : new.elements[e] = old.elements[e]
        /\ new.elements[k][c] = IF k \in Contents(old) THEN old.elements[k][c] ELSE Unseen
        /\ new.versions[c] = old.versions[c]
    <3>1. k \in Contents(old) => old.elements[k] \in Versions
      BY <2>1 DEF IsSet, Contents
    <3>2. old.versions \in Versions
      BY <2>1 DEF IsSet
    <3> HIDE DEF old
    <3> QED BY <2>2, <3>1, <3>2 DEF Add, Contents, Versions, NoTags
  <2>4. ASSUME NEW e \in Contents(new), new.elements[e][c] # Unseen
        PROVE  e \in Contents(old) /\ new.elements[e][c] = old.elements[e][c]
    BY <2>3, <2>4
  <2> HIDE DEF new
  <2> QED BY <2>1, <2>3, <2>4 DEF Derived
<1>5. ASSUME NEW id \in Replica, NEW remote \in maps
      PROVE  Derived(c, MapMerge(map, id, remote), maps)
  <2>1. /\ MapMerge(map, id, remote).keys = Merge(map.keys, remote.keys)
        /\ IsSet(map.keys) /\ IsSet(remote.keys) /\ c \in Replica
    BY MapMergeType, BoundsType DEF WellFormed, IsMap
  <2>2. /\ Merge(map.keys, remote.keys).versions[c]
             \in {map.keys.versions[c], remote.keys.versions[c]}
        /\ \A e \in Contents(Merge(map.keys, remote.keys)) :
             \/ /\ e \in Contents(map.keys)
                /\ Merge(map.keys, remote.keys).elements[e][c] = map.keys.elements[e][c]
             \/ /\ e \in Contents(remote.keys)
                /\ Merge(map.keys, remote.keys).elements[e][c] = remote.keys.elements[e][c]
    BY <2>1, MergeType
  <2> QED BY <2>1, <2>2 DEF Derived
<1> QED BY <1>1, <1>2, <1>3, <1>4, <1>5

\* No step but c's own post tells anybody more of c.
LEMMA ElsewhereDerived ==
  ASSUME Reliable, PromptInv, [Next]_vars, NEW c \in Client
  PROVE  \A m \in Elsewhere(c)' :
           Derived(c, m, IF HandlePost(c) THEN Elsewhere(c) \cup {cmap[c]} ELSE Elsewhere(c))
<1> DEFINE maps == IF HandlePost(c) THEN Elsewhere(c) \cup {cmap[c]} ELSE Elsewhere(c)
           Told == /\ \A d \in Client \ {c} : Derived(c, cmap'[d], maps)
                   /\ \A s \in Server : Derived(c, smap'[s], maps)
                   /\ \A d \in Client : phase'[d] = "waiting" => Derived(c, body'[d], maps)
<1>1. /\ Control /\ Prompt /\ c \in Replica
      /\ \A d \in Client \ {c} : cmap[d] \in maps /\ d \in Replica \ {c}
      /\ \A s \in Server : smap[s] \in maps /\ s \in Replica \ {c}
      /\ \A d \in Client : phase[d] = "waiting" => body[d] \in maps
  BY KVAssumption DEF PromptInv, Inv, Elsewhere
<1>2. \A x \in maps : WellFormed(x)
  <2>1. /\ Inv /\ maps \subseteq MapsHeld
    BY DEF PromptInv, Elsewhere, MapsHeld
  <2> HIDE DEF maps
  <2> QED BY <2>1, HeldWellFormed
<1>3. /\ \A x \in maps : Derived(c, x, maps)
      /\ \A x \in maps, k \in Key : Derived(c, MapRemove(x, k), maps)
      /\ \A x \in maps, id \in Replica \ {c}, k \in Key :
           \A v : Derived(c, MapPut(x, id, k, v), maps)
      /\ \A x \in maps, y \in maps, id \in Replica : Derived(c, MapMerge(x, id, y), maps)
  BY <1>2, OperationDerived
<1>4. \A id \in Replica \ {c} : Derived(c, NewMap(id), maps)
  <2>1. maps # {}
    BY <1>1, KVAssumption
  <2> QED BY <1>2, <2>1, OperationDerived
<1>5. HandlePost(c) => cmap[c] \in maps
  OBVIOUS
<1> HIDE DEF maps
<1>6. ASSUME UNCHANGED vars PROVE Told
  BY <1>1, <1>3, <1>6 DEF vars, store, sync
<1>7. ASSUME NEW d \in Client, PromptStep(d) PROVE Told
  <2>1. ASSUME NEW k \in Key, Put(d, k) PROVE Told
    BY <1>1, <1>3, <2>1 DEF Put, Control, sync
  <2>2. ASSUME NEW k \in Key, RemoveKey(d, k) PROVE Told
    BY <1>1, <1>3, <2>2 DEF RemoveKey, Control, sync
  <2>3. CASE ClientRestart(d)
    BY <1>1, <1>3, <1>4, <2>3 DEF ClientRestart, Control
  <2>4. CASE StartSync(d) \/ LookupFails(d) \/ \E s \in Server : Connect(d, s)
    BY <1>1, <1>3, <2>4 DEF StartSync, LookupFails, Connect, Control, store
  <2>5. CASE HandlePost(d)
    BY <1>1, <1>3, <1>5, <2>5 DEF HandlePost, Control
  <2>6. CASE Broadcast(d)
    BY <1>1, <1>3, <2>6 DEF Broadcast, Control, store
  <2>7. CASE SyncSucceeds(d)
    BY <1>1, <1>3, <2>7 DEF SyncSucceeds, EndOfSync, EndOfSyncs, Control
  <2>8. ASSUME NEW s \in Server, DeliverPost(d, s) PROVE Told
    <3>1. phase[d] = "waiting"
      BY <1>1, <2>8 DEF DeliverPost, Prompt
    <3> QED BY <1>1, <1>3, <2>8, <3>1 DEF DeliverPost, Control
  <2> QED BY <1>7, <2>1, <2>2, <2>3, <2>4, <2>5, <2>6, <2>7, <2>8 DEF PromptStep
<1>8. Told
  BY <1>1, <1>6, <1>7, PromptKinds DEF PromptInv
<1>9. \A m \in Elsewhere(c)' : Derived(c, m, maps)
  BY <1>8 DEF Elsewhere
<1> QED BY <1>9 DEF maps

-----------------------------------------------------------------------------
\* After a restart a client has to find its version at a server before it may put.
\* Between syncs every server knows as much of c as anybody else; during c's sync the
\* coordinator does, then the body of the broadcast and those that have merged it; c
\* itself does when it is idle, and always if it has never been restarted.
Behind(c, m1, m2) == m1.keys.versions[c] <= m2.keys.versions[c]

Known(c) ==
  /\ phase[c] \in {"idle", "lookup", "posting"} =>
       \A m \in Elsewhere(c), s \in Server : Behind(c, m, smap[s])
  /\ phase[c] = "merged" =>
       \A m \in Elsewhere(c) \cup {cmap[c]} : Behind(c, m, smap[coord[c]])
  /\ phase[c] = "waiting" =>
       /\ \A m \in Elsewhere(c) \cup {cmap[c]} : Behind(c, m, body[c])
       /\ \A s \in Server \ waiting[c] : Behind(c, body[c], smap[s])
  /\ phase[c] = "idle" \/ restarts[c] = 0 =>
       \A m \in Elsewhere(c) : Behind(c, m, cmap[c])

\* A restarted client always finds a server: its constructor's sync does not fail.
RestartsSync == LookupMayFail => \A c \in Client : MaxRestarts[c] = 0

LEMMA DerivedBehind ==
  ASSUME NEW c \in Client, NEW maps, NEW map, NEW top, WellFormed(top),
         Derived(c, map, maps), \A x \in maps : Behind(c, x, top)
  PROVE  Behind(c, map, top)
<1>1. c \in Replica /\ top.keys.versions[c] \in Int /\ top.keys.versions[c] >= -1
  BY BoundsType, WellFormedVersions
<1> QED BY <1>1 DEF Derived, Behind, Unseen

LEMMA BehindTransitive ==
  ASSUME NEW c \in Client, NEW m1, NEW m2, NEW m3,
         WellFormed(m1), WellFormed(m2), WellFormed(m3), Behind(c, m1, m2), Behind(c, m2, m3)
  PROVE  Behind(c, m1, m3)
<1>1. /\ c \in Replica
      /\ m1.keys.versions[c] \in Int /\ m2.keys.versions[c] \in Int /\ m3.keys.versions[c] \in Int
  BY BoundsType, WellFormedVersions
<1> QED BY <1>1 DEF Behind

LEMMA KnownInit == Init => \A c \in Client : Known(c)
<1> SUFFICES ASSUME Init, NEW c \in Client PROVE Known(c)
  OBVIOUS
<1>1. \A id \in Replica \ {c} : NewMap(id).keys.versions[c] = Unseen
  BY BoundsType DEF NewMap, NewSet, NoTags
<1>2. \A m \in Elsewhere(c) : m.keys.versions[c] = Unseen
  BY <1>1, KVAssumption DEF Init, Elsewhere
<1>3. \A s \in Server : smap[s].keys.versions[c] = Unseen
  BY <1>2 DEF Elsewhere
<1>4. phase[c] = "lookup" /\ cmap[c].keys.versions[c] = 0
  BY BoundsType DEF Init, NewMap, NewSet, NoTags
<1> QED BY <1>2, <1>3, <1>4 DEF Known, Behind, Unseen

LEMMA KnownStep ==
  ASSUME Reliable, RestartsSync, PromptInv, [Next]_vars, NEW c \in Client, Known(c)
  PROVE  Known(c)'
<1>1. /\ Inv /\ Inv' /\ Control /\ Prompt /\ c \in Replica
      /\ \A m \in Elsewhere(c) \cup {cmap[c], body[c]} : WellFormed(m)
      /\ \A s \in Server : /\ smap[s] \in Elsewhere(c) /\ s \in Replica
                           /\ WellFormed(smap[s]) /\ WellFormed(smap'[s])
      /\ \A m \in Elsewhere(c)' : WellFormed(m)
      /\ WellFormed(cmap'[c]) /\ WellFormed(body'[c])
  <2>1. Inv /\ Inv' /\ Prompt
    BY InvStep DEF PromptInv
  <2>2. /\ \A m \in MapsHeld : WellFormed(m)
        /\ \A m \in MapsHeld' : WellFormed(m)
    BY <2>1 DEF Inv, MapsWellFormed, MapsHeld
  <2>3. /\ Elsewhere(c) \cup {cmap[c], body[c]} \subseteq MapsHeld
        /\ Elsewhere(c)' \cup {cmap'[c], body'[c]} \subseteq MapsHeld'
        /\ \A s \in Server : smap[s] \in Elsewhere(c) /\ smap'[s] \in MapsHeld'
    BY DEF Elsewhere, MapsHeld
  <2> QED BY <2>1, <2>2, <2>3, BoundsType DEF Inv
<1>2. \A s \in Server : Behind(c, smap[s], smap'[s])
  BY <1>1, NeverDown, ServersCover DEF Reliable, Covers, Behind
<1>3. ASSUME ~HandlePost(c), NEW top, WellFormed(top), \A m \in Elsewhere(c) : Behind(c, m, top)
      PROVE  \A m \in Elsewhere(c)' : Behind(c, m, top)
  BY <1>3, ElsewhereDerived, DerivedBehind
<1>4. \A m1, m2, m3 : /\ WellFormed(m1) /\ WellFormed(m2) /\ WellFormed(m3)
                      /\ Behind(c, m1, m2) /\ Behind(c, m2, m3)
                      => Behind(c, m1, m3)
  BY BehindTransitive
<1>5. ASSUME Untouched(c) PROVE Known(c)'
  <2>1. ~HandlePost(c)
    BY <1>5 DEF Untouched
  <2>2. ASSUME phase[c] \in {"idle", "lookup", "posting"}, NEW s \in Server
        PROVE  \A m \in Elsewhere(c)' : Behind(c, m, smap'[s])
    <3>1. \A m \in Elsewhere(c)' : Behind(c, m, smap[s])
      BY <1>1, <1>3, <2>1, <2>2 DEF Known
    <3> QED BY <1>1, <1>2, <1>4, <3>1
  <2>3. ASSUME phase[c] = "merged"
        PROVE  \A m \in Elsewhere(c)' \cup {cmap[c]} : Behind(c, m, smap'[coord[c]])
    <3>1. coord[c] \in Server /\ \A m \in Elsewhere(c)' : Behind(c, m, smap[coord[c]])
      BY <1>1, <1>3, <2>1, <2>3 DEF Known, Control
    <3>2. Behind(c, cmap[c], smap[coord[c]])
      BY <2>3 DEF Known
    <3> QED BY <1>1, <1>2, <1>4, <3>1, <3>2
  <2>4. ASSUME phase[c] = "waiting"
        PROVE  /\ \A m \in Elsewhere(c)' \cup {cmap[c]} : Behind(c, m, body[c])
               /\ \A s \in Server \ waiting[c] : Behind(c, body[c], smap'[s])
    <3>1. \A m \in Elsewhere(c)' \cup {cmap[c]} : Behind(c, m, body[c])
      BY <1>1, <1>3, <2>1, <2>4 DEF Known
    <3>2. \A s \in Server \ waiting[c] : Behind(c, body[c], smap[s])
      BY <2>4 DEF Known
    <3> QED BY <1>1, <1>2, <1>4, <3>1, <3>2
  <2>5. ASSUME phase[c] = "idle" \/ restarts[c] = 0
        PROVE  \A m \in Elsewhere(c)' : Behind(c, m, cmap[c])
    BY <1>1, <1>3, <2>1, <2>5 DEF Known
  <2> QED BY <1>5, <2>2, <2>3, <2>4, <2>5 DEF Known, Untouched
<1>6. ASSUME NEW k \in Key, Put(c, k) \/ RemoveKey(c, k) PROVE Known(c)'
  <2>1. phase' = phase /\ phase[c] = "idle" /\ Behind(c, cmap[c], cmap'[c])
    <3>1. phase' = phase /\ phase[c] = "idle" /\ restarts' = restarts
      BY <1>6 DEF Put, RemoveKey, sync
    <3> QED BY <1>1, <3>1, MapsAdvanceStep DEF MapsAdvance, Advances, Covers, Behind
  <2>2. ~HandlePost(c)
    BY <2>1 DEF HandlePost
  <2>3. ASSUME NEW s \in Server PROVE \A m \in Elsewhere(c)' : Behind(c, m, smap'[s])
    <3>1. \A m \in Elsewhere(c)' : Behind(c, m, smap[s])
      BY <1>1, <1>3, <2>1, <2>2 DEF Known
    <3> QED BY <1>1, <1>2, <1>4, <3>1
  <2>4. \A m \in Elsewhere(c)' : Behind(c, m, cmap'[c])
    <3>1. \A m \in Elsewhere(c)' : Behind(c, m, cmap[c])
      BY <1>1, <1>3, <2>1, <2>2 DEF Known
    <3> QED BY <1>1, <1>4, <2>1, <3>1
  <2> QED BY <2>1, <2>3, <2>4 DEF Known
<1>7. ASSUME ClientRestart(c) \/ StartSync(c) \/ LookupFails(c) \/ \E s \in Server : Connect(c, s)
      PROVE  Known(c)'
  <2>1. /\ phase[c] \in {"idle", "lookup"} /\ phase'[c] \in {"idle", "lookup", "posting"}
        /\ phase'[c] = "idle" \/ restarts'[c] = 0 => restarts[c] = 0 /\ cmap'[c] = cmap[c]
        /\ ~HandlePost(c)
    <3>1. CASE ClientRestart(c)
      BY <1>1, <3>1 DEF ClientRestart, HandlePost, Control
    <3>2. CASE StartSync(c) \/ \E s \in Server : Connect(c, s)
      BY <1>1, <3>2 DEF StartSync, Connect, HandlePost, Control, store, history
    <3>3. CASE LookupFails(c)
      <4>1. restarts[c] = 0
        BY <1>1, <3>3 DEF LookupFails, RestartsSync, Control
      <4> QED BY <1>1, <3>3, <4>1 DEF LookupFails, HandlePost, Control, store
    <3> QED BY <1>7, <3>1, <3>2, <3>3
  <2>2. ASSUME NEW s \in Server PROVE \A m \in Elsewhere(c)' : Behind(c, m, smap'[s])
    <3>1. \A m \in Elsewhere(c)' : Behind(c, m, smap[s])
      BY <1>1, <1>3, <2>1 DEF Known
    <3> QED BY <1>1, <1>2, <1>4, <3>1
  <2>3. ASSUME phase'[c] = "idle" \/ restarts'[c] = 0
        PROVE  \A m \in Elsewhere(c)' : Behind(c, m, cmap'[c])
    BY <1>1, <1>3, <2>1, <2>3 DEF Known
  <2> QED BY <2>1, <2>2, <2>3 DEF Known
<1>8. ASSUME HandlePost(c) PROVE Known(c)'
  <2>1. /\ phase[c] = "posting" /\ phase'[c] = "merged" /\ coord[c] \in Server
        /\ smap'[coord[c]] = MapMerge(smap[coord[c]], coord[c], cmap[c])
        /\ UNCHANGED <<cmap, coord, restarts>>
    BY <1>1, <1>8 DEF HandlePost, Control, history
  <2>2. Behind(c, cmap[c], smap'[coord[c]])
    BY <1>1, <2>1, MergeCovers DEF Covers, Behind
  <2>3. \A m \in Elsewhere(c) : Behind(c, m, smap'[coord[c]])
    <3>1. \A m \in Elsewhere(c) : Behind(c, m, smap[coord[c]])
      BY <2>1 DEF Known
    <3> QED BY <1>1, <1>2, <1>4, <2>1, <3>1
  <2>4. ASSUME NEW top, WellFormed(top), Behind(c, cmap[c], top),
               \A m \in Elsewhere(c) : Behind(c, m, top)
        PROVE  \A m \in Elsewhere(c)' : Behind(c, m, top)
    BY <1>8, <2>4, ElsewhereDerived, DerivedBehind
  <2>5. \A m \in Elsewhere(c)' : Behind(c, m, smap'[coord[c]])
    BY <1>1, <2>1, <2>2, <2>3, <2>4
  <2>6. restarts[c] = 0 => \A m \in Elsewhere(c)' : Behind(c, m, cmap[c])
    <3>1. Behind(c, cmap[c], cmap[c])
      BY <1>1, WellFormedVersions DEF Behind
    <3> QED BY <1>1, <2>4, <3>1 DEF Known
  <2> QED BY <2>1, <2>2, <2>5, <2>6 DEF Known
<1>9. ASSUME Broadcast(c) PROVE Known(c)'
  <2>1. /\ phase[c] = "merged" /\ phase'[c] = "waiting" /\ coord[c] \in Server
        /\ body'[c] = smap[coord[c]] /\ waiting'[c] = Server
        /\ UNCHANGED <<cmap, restarts>> /\ ~HandlePost(c)
    BY <1>1, <1>9 DEF Broadcast, HandlePost, Control, store, history
  <2>2. \A m \in Elsewhere(c)' \cup {cmap[c]} : Behind(c, m, body'[c])
    BY <1>1, <1>3, <2>1 DEF Known
  <2>3. restarts[c] = 0 => \A m \in Elsewhere(c)' : Behind(c, m, cmap[c])
    BY <1>1, <1>3, <2>1 DEF Known
  <2> QED BY <2>1, <2>2, <2>3 DEF Known
<1>10. ASSUME NEW s \in Server, DeliverPost(c, s) PROVE Known(c)'
  <2>1. /\ phase[c] = "waiting" /\ waiting'[c] = waiting[c] \ {s}
        /\ smap'[s] = MapMerge(smap[s], s, body[c])
        /\ UNCHANGED <<phase, cmap, body, restarts>> /\ ~HandlePost(c)
    BY <1>1, <1>10 DEF DeliverPost, HandlePost, Prompt, Control, history
  <2>2. \A m \in Elsewhere(c)' \cup {cmap[c]} : Behind(c, m, body[c])
    BY <1>1, <1>3, <2>1 DEF Known
  <2>3. Behind(c, body[c], smap'[s])
    BY <1>1, <2>1, MergeCovers DEF Covers, Behind
  <2>4. ASSUME NEW r \in Server \ waiting[c] PROVE Behind(c, body[c], smap'[r])
    <3>1. Behind(c, body[c], smap[r])
      BY <2>1 DEF Known
    <3> QED BY <1>1, <1>2, <1>4, <3>1
  <2>5. restarts[c] = 0 => \A m \in Elsewhere(c)' : Behind(c, m, cmap[c])
    BY <1>1, <1>3, <2>1 DEF Known
  <2> QED BY <2>1, <2>2, <2>3, <2>4, <2>5 DEF Known
<1>11. ASSUME SyncSucceeds(c) PROVE Known(c)'
  <2>1. /\ phase[c] = "waiting" /\ waiting[c] = {} /\ phase'[c] = "idle"
        /\ coord[c] \in Server /\ cmap'[c] = MapMerge(cmap[c], c, smap[coord[c]])
        /\ ~HandlePost(c)
    BY <1>1, <1>11 DEF SyncSucceeds, EndOfSync, EndOfSyncs, HandlePost, Control
  <2>2. ASSUME NEW s \in Server PROVE \A m \in Elsewhere(c) : Behind(c, m, smap[s])
    <3>1. /\ \A m \in Elsewhere(c) : Behind(c, m, body[c])
          /\ Behind(c, body[c], smap[s])
      BY <2>1 DEF Known
    <3> QED BY <1>1, <1>4, <3>1
  <2>3. ASSUME NEW s \in Server PROVE \A m \in Elsewhere(c)' : Behind(c, m, smap[s])
    BY <1>1, <1>3, <2>1, <2>2
  <2>4. Behind(c, smap[coord[c]], cmap'[c])
    BY <1>1, <2>1, MergeCovers DEF Covers, Behind
  <2>5. \A m \in Elsewhere(c)' : Behind(c, m, cmap'[c])
    BY <1>1, <1>4, <2>1, <2>3, <2>4
  <2>6. \A m \in Elsewhere(c)', s \in Server : Behind(c, m, smap'[s])
    BY <1>1, <1>2, <1>4, <2>3
  <2> QED BY <2>1, <2>5, <2>6 DEF Known
<1>12. Untouched(c) \/ PromptStep(c)
  BY <1>1, OthersSteps
<1> QED BY <1>5, <1>6, <1>7, <1>8, <1>9, <1>10, <1>11, <1>12 DEF PromptStep

-----------------------------------------------------------------------------
\* A client that has never heard of a server has no evidence for its removals
\* (orset.hh): then no map may record an addition of its own that it has removed. No
\* map does, but for those that the client is posting; and a restarted client hears of
\* a server before it can add or remove.
Unheard(c) == \A s \in Server : cmap[c].keys.versions[s] = Unseen

Fresh(c) ==
  Unheard(c) =>
    /\ restarts[c] = 0 =>
         \A m \in Elsewhere(c) : \A k \in Contents(m.keys) : m.keys.elements[k][c] # Unseen =>
           phase[c] \in {"merged", "waiting"} /\ Contains(cmap[c], k)
    /\ restarts[c] # 0 => phase[c] # "idle" /\ cmap[c].keys.versions[c] = 0

LEMMA FreshInit == Init => \A c \in Client : Fresh(c)
<1> SUFFICES ASSUME Init, NEW c \in Client PROVE Fresh(c)
  OBVIOUS
<1>1. \A m \in Elsewhere(c) : Contents(m.keys) = {}
  BY DEF Init, Elsewhere, NewMap, NewSet, Contents
<1>2. restarts[c] = 0
  BY DEF Init
<1> QED BY <1>1, <1>2 DEF Fresh

LEMMA FreshStep ==
  ASSUME Reliable, RestartsSync, PromptInv, [Next]_vars, NEW c \in Client, Fresh(c)
  PROVE  Fresh(c)'
<1>1. /\ Inv /\ Inv' /\ Control /\ Prompt /\ c \in Replica
      /\ WellFormed(cmap[c])
      /\ \A s \in Server : WellFormed(smap[s]) /\ smap[s].keys.versions[s] >= 0 /\ s \in Replica
  BY InvStep, BoundsType DEF PromptInv, Inv, MapsWellFormed, OwnVersions
<1> DEFINE Posted(m) == \A k \in Contents(m.keys) : m.keys.elements[k][c] # Unseen =>
                          phase[c] \in {"merged", "waiting"} /\ Contains(cmap[c], k)
           Hidden == \A m \in Elsewhere(c)' : \A k \in Contents(m.keys) :
                       m.keys.elements[k][c] = Unseen
<1>2. ASSUME ~HandlePost(c), \A m \in Elsewhere(c) : Posted(m)
      PROVE  \A m \in Elsewhere(c)' : Posted(m)
  BY <1>2, ElsewhereDerived DEF Derived
<1>3. ASSUME Unheard(c), restarts[c] = 0 PROVE \A m \in Elsewhere(c) : Posted(m)
  BY <1>3 DEF Fresh
<1>4. CASE Untouched(c)
  <2>1. Unheard(c)' => Unheard(c)
    BY <1>4 DEF Unheard, Untouched
  <2>2. ~HandlePost(c)
    BY <1>4 DEF Untouched
  <2>3. ASSUME Unheard(c), restarts[c] = 0
        PROVE  \A m \in Elsewhere(c)' : \A k \in Contents(m.keys) :
                 m.keys.elements[k][c] # Unseen =>
                   phase'[c] \in {"merged", "waiting"} /\ Contains(cmap'[c], k)
    BY <1>2, <1>3, <1>4, <2>2, <2>3 DEF Untouched
  <2>4. ASSUME Unheard(c), restarts[c] # 0
        PROVE  phase'[c] # "idle" /\ cmap'[c].keys.versions[c] = 0
    BY <1>4, <2>4 DEF Fresh, Untouched
  <2>5. restarts'[c] = restarts[c]
    BY <1>4 DEF Untouched
  <2> QED BY <2>1, <2>3, <2>4, <2>5 DEF Fresh
<1>5. ASSUME ~HandlePost(c), phase[c] \in {"idle", "lookup", "posting"}, Unheard(c), restarts[c] = 0
      PROVE  Hidden
  BY <1>2, <1>3, <1>5
<1>6. ASSUME NEW k \in Key, Put(c, k) \/ RemoveKey(c, k) PROVE Fresh(c)'
  <2>1. /\ phase[c] = "idle" /\ ~HandlePost(c) /\ restarts' = restarts
        /\ \A s \in Server : cmap'[c].keys.versions[s] = cmap[c].keys.versions[s]
    <3>1. /\ phase[c] = "idle" /\ restarts' = restarts
          /\ \/ cmap'[c] = MapPut(cmap[c], c, k, <<c, puts[c] + 1>>)
             \/ cmap'[c] = MapRemove(cmap[c], k)
      BY <1>1, <1>6 DEF Put, RemoveKey, Control
    <3>2. \A s \in Server : MapRemove(cmap[c], k).keys.versions[s] = cmap[c].keys.versions[s]
      BY DEF MapRemove, Remove
    <3>3. ASSUME NEW v, NEW s \in Server
          PROVE  MapPut(cmap[c], c, k, v).keys.versions[s] = cmap[c].keys.versions[s]
      <4>1. cmap[c].keys.versions \in Versions /\ s \in Replica /\ s # c
        BY <1>1, KVAssumption DEF WellFormed, IsMap, IsSet
      <4> QED BY <4>1 DEF MapPut, Add, Versions
    <3> QED BY <3>1, <3>2, <3>3 DEF HandlePost
  <2>2. Unheard(c)' => Unheard(c)
    BY <2>1 DEF Unheard
  <2>3. Unheard(c) => restarts[c] = 0
    BY <2>1 DEF Fresh
  <2> QED BY <1>5, <2>1, <2>2, <2>3 DEF Fresh
<1>7. ASSUME ClientRestart(c) PROVE Fresh(c)'
  <2>1. phase'[c] = "lookup" /\ restarts'[c] # 0 /\ cmap'[c] = NewMap(c)
    BY <1>1, <1>7 DEF ClientRestart, Control
  <2>2. NewMap(c).keys.versions[c] = 0
    BY <1>1 DEF NewMap, NewSet, NoTags
  <2> QED BY <2>1, <2>2 DEF Fresh
<1>8. ASSUME StartSync(c) \/ LookupFails(c) \/ \E s \in Server : Connect(c, s) PROVE Fresh(c)'
  <2>1. /\ phase[c] \in {"idle", "lookup"} /\ cmap' = cmap /\ restarts' = restarts
        /\ ~HandlePost(c)
    BY <1>8 DEF StartSync, LookupFails, Connect, HandlePost, store, history
  <2>2. restarts[c] # 0 => phase[c] = "idle" \/ phase'[c] # "idle"
    BY <1>1, <1>8 DEF StartSync, LookupFails, Connect, RestartsSync, Control
  <2>3. Unheard(c)' => Unheard(c)
    BY <2>1 DEF Unheard
  <2> QED BY <1>5, <2>1, <2>2, <2>3 DEF Fresh
<1>9. ASSUME HandlePost(c) PROVE Fresh(c)'
  <2>1. phase[c] = "posting" /\ phase'[c] = "merged" /\ cmap' = cmap /\ restarts' = restarts
    BY <1>1, <1>9 DEF HandlePost, Control, history
  <2>2. Unheard(c)' => Unheard(c)
    BY <2>1 DEF Unheard
  <2>3. ASSUME Unheard(c), restarts[c] = 0, NEW m \in Elsewhere(c)', NEW k \in Contents(m.keys),
               m.keys.elements[k][c] # Unseen
        PROVE  Contains(cmap'[c], k)
    <3>1. PICK x \in Elsewhere(c) \cup {cmap[c]} : /\ k \in Contents(x.keys)
                                                  /\ m.keys.elements[k][c] = x.keys.elements[k][c]
      BY <1>9, <2>3, ElsewhereDerived DEF Derived
    <3>2. x \notin Elsewhere(c)
      BY <1>3, <2>1, <2>3, <3>1
    <3> QED BY <2>1, <3>1, <3>2 DEF Contains
  <2> QED BY <2>1, <2>2, <2>3 DEF Fresh
<1>10. ASSUME Broadcast(c) \/ \E s \in Server : DeliverPost(c, s) PROVE Fresh(c)'
  <2>1. /\ phase'[c] = "waiting" /\ phase[c] \in {"merged", "waiting"}
        /\ UNCHANGED <<cmap, restarts>> /\ ~HandlePost(c)
    BY <1>1, <1>10 DEF Broadcast, DeliverPost, HandlePost, Prompt, Control, store, history
  <2>2. Unheard(c)' => Unheard(c)
    BY <2>1 DEF Unheard
  <2>3. ASSUME Unheard(c), restarts[c] = 0
        PROVE  \A m \in Elsewhere(c)' : Posted(m)
    BY <1>2, <1>3, <2>1, <2>3
  <2> QED BY <2>1, <2>2, <2>3 DEF Fresh
<1>11. ASSUME SyncSucceeds(c) PROVE Fresh(c)'
  <2>1. coord[c] \in Server /\ cmap'[c] = MapMerge(cmap[c], c, smap[coord[c]])
    BY <1>1, <1>11 DEF SyncSucceeds, EndOfSync, Control
  <2>2. /\ smap[coord[c]].keys.versions[coord[c]] \in Int
        /\ cmap'[c].keys.versions[coord[c]] \in Int
        /\ smap[coord[c]].keys.versions[coord[c]] <= cmap'[c].keys.versions[coord[c]]
    <3>1. WellFormed(cmap'[c])
      BY <1>1 DEF Inv, MapsWellFormed
    <3> QED BY <1>1, <2>1, <3>1, WellFormedVersions, MergeCovers DEF Covers
  <2>3. ~Unheard(c)'
    BY <1>1, <2>1, <2>2 DEF Unheard, Unseen
  <2> QED BY <2>3 DEF Fresh
<1>12. Untouched(c) \/ PromptStep(c)
  BY <1>1, OthersSteps
<1> QED BY <1>4, <1>6, <1>7, <1>8, <1>9, <1>10, <1>11, <1>12 DEF PromptStep

-----------------------------------------------------------------------------
ReliableInv == PromptInv /\ \A c \in Client : Known(c) /\ Fresh(c)

LEMMA ReliableInvariant ==
  ASSUME Reliable, RestartsSync
  PROVE  Spec => []ReliableInv
<1>1. Init => ReliableInv
  BY PromptInit, KnownInit, FreshInit DEF ReliableInv
<1>2. ReliableInv /\ [Next]_vars => ReliableInv'
  BY PromptInvStep, KnownStep, FreshStep DEF ReliableInv
<1> QED BY <1>1, <1>2, PTL DEF Spec

LEMMA ReliableOwnerAhead == ReliableInv => OwnerAhead
<1> SUFFICES ASSUME ReliableInv, NEW c \in Client, restarts[c] = 0 \/ phase[c] = "idle"
             PROVE  \A m \in MapsHeld : m.keys.versions[c] <= cmap[c].keys.versions[c]
  BY DEF OwnerAhead
<1>1. /\ Known(c) /\ Prompt /\ c \in Replica
      /\ cmap[c].keys.versions[c] \in Int /\ cmap[c].keys.versions[c] >= 0
  BY BoundsType, WellFormedVersions
     DEF ReliableInv, PromptInv, Inv, MapsWellFormed, OwnVersions
<1>2. \A m \in Elsewhere(c) : m.keys.versions[c] <= cmap[c].keys.versions[c]
  BY <1>1 DEF Known, Behind
<1>3. \A d \in Client : NewMap(d).keys.versions[c] <= 0
  BY BoundsType DEF NewMap, NewSet, NoTags, Unseen
<1>4. ASSUME NEW d \in Client PROVE body[d].keys.versions[c] <= cmap[c].keys.versions[c]
  <2>1. CASE phase[d] = "waiting"
    BY <1>2, <2>1 DEF Elsewhere
  <2>2. CASE phase[d] # "waiting"
    <3>1. body[d] = NewMap(d) /\ NewMap(d).keys.versions[c] \in Int
      BY <1>1, <2>2, BoundsType, NewMapWellFormed, WellFormedVersions DEF Prompt
    <3> QED BY <1>1, <1>3, <3>1
  <2> QED BY <2>1, <2>2
<1>5. \A m \in MapsHeld : m \in Elsewhere(c) \/ m = cmap[c] \/ \E d \in Client : m = body[d]
  BY <1>1 DEF MapsHeld, Elsewhere, Prompt
<1> QED BY <1>1, <1>2, <1>4, <1>5

\* Two sets can disagree about an element only if one lacks it and has observed the
\* recorded additions and nothing else.
LEMMA Disagreement ==
  ASSUME NEW set1, NEW set2, IsSet(set1), IsSet(set2), NEW e,
         (e \in Contents(Merge(set1, set2))) # (e \in Contents(Merge(set2, set1)))
  PROVE  \/ /\ e \in Contents(set1) /\ e \notin Contents(set2)
            /\ \A r \in Replica : set1.elements[e][r] = set2.versions[r]
         \/ /\ e \in Contents(set2) /\ e \notin Contents(set1)
            /\ \A r \in Replica : set2.elements[e][r] = set1.versions[r]
<1>1. ASSUME NEW s1, NEW s2, IsSet(s1), IsSet(s2), e \in Contents(s1), e \notin Contents(s2),
             ~(\A r \in Replica : s1.elements[e][r] = s2.versions[r])
      PROVE  e \in Contents(Merge(s1, s2)) <=> e \in Contents(Merge(s2, s1))
  <2>1. \A r \in Replica : s1.elements[e][r] \in Int /\ s2.versions[r] \in Int
    BY <1>1, VersionsType DEF IsSet, Contents
  <2>2. /\ e \in Contents(Merge(s1, s2)) <=> ~RemovedRemotely(s1.elements[e], s2.versions)
        /\ e \in Contents(Merge(s2, s1)) <=> \E r \in Replica : s2.versions[r] < s1.elements[e][r]
    BY <1>1, MergeElements
  <2>3. ~RemovedRemotely(s1.elements[e], s2.versions)
          <=> \E r \in Replica : s2.versions[r] < s1.elements[e][r]
    BY <1>1, <2>1 DEF RemovedRemotely
  <2> QED BY <2>2, <2>3
<1>2. CASE e \in Contents(set1) /\ e \in Contents(set2)
  BY <1>2, MergeElements
<1>3. CASE e \notin Contents(set1) /\ e \notin Contents(set2)
  BY <1>3, MergeElements
<1> QED BY <1>1, <1>2, <1>3

LEMMA ReliableMergesCommute == ReliableInv => MergeKeysCommute
<1> SUFFICES ASSUME ReliableInv, NEW c \in Client, NEW s \in Server
             PROVE  Contents(MapMerge(cmap[c], c, smap[s]).keys)
                      = Contents(MapMerge(smap[s], s, cmap[c]).keys)
  BY DEF MergeKeysCommute
<1> DEFINE set1 == cmap[c].keys
           set2 == smap[s].keys
<1>1. /\ WellFormed(cmap[c]) /\ WellFormed(smap[s]) /\ c \in Replica /\ s \in Replica
      /\ TagsOfClients(cmap[c]) /\ TagsOfClients(smap[s])
      /\ cmap[c].keys.versions[c] >= 0 /\ smap[s].keys.versions[s] >= 0
      /\ Fresh(c) /\ smap[s] \in Elsewhere(c)
  BY BoundsType DEF ReliableInv, PromptInv, Inv, MapsWellFormed, OwnVersions, MapsHeld, Elsewhere
<1>2. /\ IsSet(set1) /\ IsSet(set2)
      /\ MapMerge(cmap[c], c, smap[s]).keys = Merge(set1, set2)
      /\ MapMerge(smap[s], s, cmap[c]).keys = Merge(set2, set1)
      /\ set1.versions[c] \in Int /\ set2.versions[s] \in Int
  BY <1>1, MapMergeWellFormed, WellFormedVersions DEF WellFormed, IsMap
<1>3. \A r \in Server : r \in Replica /\ r \notin Client
  BY KVAssumption
<1>4. ASSUME NEW e, e \in Contents(set1), \A r \in Replica : set1.elements[e][r] = set2.versions[r]
      PROVE  FALSE
  \* The server has a version of its own, which is no addition.
  <2>1. set1.elements[e][s] = Unseen
    BY <1>1, <1>3, <1>4 DEF TagsOfClients
  <2> QED BY <1>1, <1>2, <1>4, <2>1 DEF Unseen
<1>5. ASSUME NEW e, e \in Contents(set2), e \notin Contents(set1),
             \A r \in Replica : set2.elements[e][r] = set1.versions[r]
      PROVE  FALSE
  <2>1. Unheard(c)
    BY <1>1, <1>3, <1>5 DEF TagsOfClients, Unheard
  <2>2. set2.elements[e][c] # Unseen /\ set2.elements[e][c] >= 1
    BY <1>1, <1>2, <1>5 DEF TagsOfClients, Unseen
  <2>3. restarts[c] = 0
    BY <1>1, <1>5, <2>1, <2>2 DEF Fresh
  <2> QED BY <1>1, <1>5, <2>1, <2>2, <2>3 DEF Fresh, Contains
<1> HIDE DEF set1, set2
<1>6. \A e : e \in Contents(Merge(set1, set2)) <=> e \in Contents(Merge(set2, set1))
  BY <1>2, <1>4, <1>5, Disagreement
<1>7. Contents(Merge(set1, set2)) = Contents(Merge(set2, set1))
  BY <1>6 DEF Contents
<1> QED BY <1>2, <1>7

\* When servers do not crash and posts do not time out, a restarted client that finds a
\* server learns its version before it adds anything: no tag is used twice. Where the
\* load balancer may be unreachable, clients must not be restarted.
THEOREM RestartedOwnerAhead ==
  ASSUME IsFiniteSet(Server), MaxDown = 0, MaxLate = 0, Cardinality(Server) >= ExpectedResponses,
         LookupMayFail => \A c \in Client : MaxRestarts[c] = 0
  PROVE  Spec => []OwnerAhead
<1>1. Spec => []ReliableInv
  BY ReliableInvariant DEF Reliable, NoCrash, RestartsSync
<1> QED BY <1>1, ReliableOwnerAhead, PTL

\* Under the same conditions the keys do not depend on which of a client and a server
\* merges the other: a removal that orset.hh recognises on one side it does on the other.
THEOREM MergesCommute ==
  ASSUME IsFiniteSet(Server), MaxDown = 0, MaxLate = 0, Cardinality(Server) >= ExpectedResponses,
         LookupMayFail => \A c \in Client : MaxRestarts[c] = 0
  PROVE  Spec => []MergeKeysCommute
<1>1. Spec => []ReliableInv
  BY ReliableInvariant DEF Reliable, NoCrash, RestartsSync
<1> QED BY <1>1, ReliableMergesCommute, PTL

-----------------------------------------------------------------------------
\* What to_json writes, the constructors read.
LEMMA AsIntegerExact ==
  ASSUME NEW n \in Nat, n < IntLimit
  PROVE  AsInteger(n) = n
<1>1. IntLimit \in Nat /\ n < 2 * IntLimit
  BY JsonAssumption
<1>2. n % (2 * IntLimit) = n
  BY <1>1
<1> QED BY <1>2 DEF AsInteger

LEMMA TagsRoundTrip ==
  ASSUME NEW tags \in Versions, \A r \in Replica : tags[r] < IntLimit
  PROVE  /\ TagsFromJson(TagsToJson(tags)) = tags
         /\ (\E r \in Replica : tags[r] # Unseen) <=> DOMAIN TagsToJson(tags).fields # {}
<1> DEFINE j == TagsToJson(tags)
           some == {i \in Replica : tags[i] # Unseen}
<1>1. /\ DOMAIN j.fields = some
      /\ \A r \in some : j.fields[r].sequence_number = tags[r]
  BY DEF TagsToJson, JsonMap, TimestampToJson
<1>2. \A r \in some : AsInteger(tags[r]) = tags[r]
  BY AsIntegerExact DEF Versions
<1> HIDE DEF j
<1>3. TagsFromJson(j) = [r \in Replica |-> tags[r]]
  BY <1>1, <1>2 DEF TagsFromJson
<1> QED BY <1>1, <1>3 DEF Versions, j

LEMMA MapParses ==
  ASSUME NEW map, Tagged(map), NEW id
  PROVE  Parses(MapToJson(map, id))
<1> DEFINE j == MapToJson(map, id)
<1>1. /\ j.keys.versions = TagsToJson(map.keys.versions)
      /\ DOMAIN j.keys.elements.fields = Contents(map.keys)
      /\ \A k \in Contents(map.keys) :
           j.keys.elements.fields[k] = TagsToJson(map.keys.elements[k])
  BY DEF MapToJson, SetToJson, JsonMap
<1>2. ASSUME NEW tags, \E r \in Replica : tags[r] # Unseen
      PROVE  TagsToJson(tags).kind = "object"
  BY <1>2 DEF TagsToJson, JsonMap
<1> HIDE DEF j
<1>3. j.keys.versions.kind = "object"
  BY <1>1, <1>2 DEF Tagged
<1>4. \A k \in Contents(map.keys) : j.keys.elements.fields[k].kind = "object"
  BY <1>1, <1>2 DEF Tagged, KeysTagged
<1> QED BY <1>1, <1>3, <1>4 DEF Parses, j

LEMMA RegisterRoundTrip ==
  ASSUME NEW reg \in Register, reg.seq < IntLimit, NEW id
  PROVE  RegisterFromJson(RegisterToJson(reg, id)) = reg
<1>1. /\ reg = [seq |-> reg.seq, uid |-> reg.uid, val |-> reg.val]
      /\ reg.seq \in Nat /\ reg.uid \in Replica
  BY DEF Register
<1>2. reg.uid \in Nat /\ reg.uid < IntLimit
  BY <1>1, JsonAssumption, ReplicaAssumption
<1>3. AsInteger(reg.seq) = reg.seq /\ AsInteger(reg.uid) = reg.uid
  BY <1>1, <1>2, AsIntegerExact
<1>4. RegisterFromJson(RegisterToJson(reg, id))
        = [seq |-> AsInteger(reg.seq), uid |-> AsInteger(reg.uid), val |-> reg.val]
  BY DEF RegisterFromJson, RegisterToJson, TimestampToJson
<1> QED BY <1>1, <1>3, <1>4

LEMMA MapRoundTrip ==
  ASSUME NEW map, WellFormed(map), Tagged(map), SeqsFit(map), NEW id
  PROVE  MapFromJson(MapToJson(map, id)) = map
<1> DEFINE j == MapToJson(map, id)
<1>1. /\ map = [keys |-> map.keys, registers |-> map.registers]
      /\ map.keys = [elements |-> map.keys.elements, versions |-> map.keys.versions]
      /\ map.keys.elements \in [Contents(map.keys) -> Versions]
      /\ map.keys.versions \in Versions
      /\ map.registers \in [DOMAIN map.registers -> Register]
  BY DEF WellFormed, IsMap, IsSet, Contents
<1>2. /\ j.keys.versions = TagsToJson(map.keys.versions)
      /\ j.keys.elements.fields = [k \in Contents(map.keys) |-> TagsToJson(map.keys.elements[k])]
      /\ j.registers.fields = [k \in DOMAIN map.registers |-> RegisterToJson(map.registers[k], id)]
  BY DEF MapToJson, SetToJson, JsonMap
<1> HIDE DEF j
<1>3. TagsFromJson(j.keys.versions) = map.keys.versions
  BY <1>1, <1>2, TagsRoundTrip DEF SeqsFit
<1>4. \A k \in Contents(map.keys) :
        /\ TagsFromJson(j.keys.elements.fields[k]) = map.keys.elements[k]
        /\ DOMAIN j.keys.elements.fields[k].fields # {}
  BY <1>1, <1>2, TagsRoundTrip DEF SeqsFit, Tagged, KeysTagged
<1>5. {x \in DOMAIN j.keys.elements.fields : DOMAIN j.keys.elements.fields[x].fields # {}}
        = Contents(map.keys)
  BY <1>2, <1>4
<1>6. SetFromJson(j.keys) = map.keys
  BY <1>1, <1>3, <1>4, <1>5 DEF SetFromJson
<1>7. \A k \in DOMAIN map.registers : RegisterFromJson(j.registers.fields[k]) = map.registers[k]
  BY <1>1, <1>2, RegisterRoundTrip DEF SeqsFit
<1>8. [k \in DOMAIN j.registers.fields |-> RegisterFromJson(j.registers.fields[k])] = map.registers
  BY <1>1, <1>2, <1>7
<1> QED BY <1>1, <1>6, <1>8 DEF MapFromJson, j

-----------------------------------------------------------------------------
\* Every map that is held or under way can be sent and read back, and is what it
\* was unless a sequence number does not fit an int32_t.
THEOREM MapsSurviveTheWire == Spec => []SurvivesTheWire
<1>1. Spec => []TaggedInv
  BY TaggedInit, TaggedStep, PTL DEF Spec
<1>2. TaggedInv => SurvivesTheWire
  BY HeldWellFormed, MapParses, MapRoundTrip DEF TaggedInv, SurvivesTheWire
<1> QED BY <1>1, <1>2, PTL

-----------------------------------------------------------------------------
\* Two maps whose registers compare equal have the same registers.
LEMMA ComparedEqual ==
  ASSUME NEW map1, NEW map2, NEW id1, NEW id2, IsFiniteSet(DOMAIN map2.registers),
         CompareRegisters(MapToJson(map1, id1), MapToJson(map2, id2))
  PROVE  /\ DOMAIN map1.registers = DOMAIN map2.registers
         /\ \A k \in DOMAIN map1.registers : map1.registers[k].val = map2.registers[k].val
<1> DEFINE filtered(map) == [k \in DOMAIN map.registers |->
                               <<map.registers[k].seq, map.registers[k].uid, map.registers[k].val>>]
<1>1. CompareJSONObjects(filtered(map1), filtered(map2))
  BY DEF CompareRegisters, MapToJson, JsonMap, RegisterToJson, TimestampToJson
<1>2. /\ Cardinality(DOMAIN map1.registers) = Cardinality(DOMAIN map2.registers)
      /\ DOMAIN map1.registers \subseteq DOMAIN map2.registers
      /\ \A k \in DOMAIN map1.registers : map1.registers[k].val = map2.registers[k].val
  BY <1>1 DEF CompareJSONObjects
<1> QED BY <1>2, FS_Subset

\* Menu option 6 compares registers alone; a server that it reports as in sync has
\* the client's keys and values all the same.
THEOREM ReportsAreTruthful ==
  ASSUME IsFiniteSet(Key)
  PROVE  Spec => []ReportTruthful
<1>1. Spec => []Inv
  BY InvInit, InvStep, PTL DEF Spec
<1>2. Inv => ReportTruthful
  <2> SUFFICES ASSUME Inv, NEW c \in Client, NEW s \in Server, ReportedInSync(c, s)
               PROVE  /\ Contents(smap[s].keys) = Contents(cmap[c].keys)
                      /\ \A k \in Contents(cmap[c].keys) :
                           smap[s].registers[k].val = cmap[c].registers[k].val
    BY DEF ReportTruthful
  <2>1. WellFormed(smap[s]) /\ WellFormed(cmap[c])
    BY DEF Inv, MapsWellFormed
  <2>2. IsFiniteSet(DOMAIN cmap[c].registers)
    BY <2>1, FS_Subset DEF WellFormed, IsMap
  <2>3. /\ DOMAIN smap[s].registers = DOMAIN cmap[c].registers
        /\ \A k \in DOMAIN smap[s].registers : smap[s].registers[k].val = cmap[c].registers[k].val
    BY <2>2, ComparedEqual DEF ReportedInSync, State
  <2> QED BY <2>1, <2>3 DEF WellFormed, KeysMatch
<1> QED BY <1>1, <1>2, PTL
=============================================================================
