--------------------------- MODULE CRDTMapTheorems ---------------------------
(***************************************************************************)
(* What the operations of ORSet and CRDTMap preserve, for every set of     *)
(* keys, replicas and values.                                              *)
(***************************************************************************)
EXTENDS CRDTMap, TLAPS

\* The additions a set records are among those its versions have observed.
Covered(set) ==
  \A e \in Contents(set), r \in Replica : set.elements[e][r] <= set.versions[r]

\* The keys of a map are the keys that have a register.
KeysMatch(map) == Contents(map.keys) = DOMAIN map.registers

-----------------------------------------------------------------------------
LEMMA VersionsType ==
  ASSUME NEW v \in Versions, NEW r \in Replica
  PROVE  v[r] \in Int /\ v[r] >= -1
BY DEF Versions, Unseen

LEMMA NewSetType ==
  ASSUME NEW id \in Replica
  PROVE  IsSet(NewSet(id)) /\ Covered(NewSet(id)) /\ Contents(NewSet(id)) = {}
BY DEF NewSet, IsSet, Covered, Contents, Versions, NoTags

LEMMA AddType ==
  ASSUME NEW set, IsSet(set), NEW id \in Replica, NEW e \in Key
  PROVE  /\ IsSet(Add(set, id, e))
         /\ Contents(Add(set, id, e)) = Contents(set) \cup {e}
         /\ Covered(set) => Covered(Add(set, id, e))
<1> DEFINE tags == IF e \in Contents(set) THEN set.elements[e] ELSE NoTags
           version == set.versions[id] + 1
           added == [tags EXCEPT ![id] = version]
           versions == [set.versions EXCEPT ![id] = version]
<1>1. tags \in Versions
  BY DEF IsSet, Contents, NoTags, Versions
<1>2. version \in Nat
  BY VersionsType DEF IsSet
<1>3. added \in Versions /\ versions \in Versions
  BY <1>1, <1>2 DEF IsSet, Versions
<1>4. /\ Contents(Add(set, id, e)) = Contents(set) \cup {e}
      /\ Add(set, id, e).versions = versions
      /\ \A x \in Contents(set) \cup {e} :
           Add(set, id, e).elements[x] = IF x = e THEN added ELSE set.elements[x]
  BY DEF Add, Contents
<1>5. IsSet(Add(set, id, e))
  BY <1>3 DEF Add, IsSet, Contents
<1>6. ASSUME Covered(set) PROVE Covered(Add(set, id, e))
  <2> SUFFICES ASSUME NEW x \in Contents(set) \cup {e}, NEW r \in Replica
               PROVE  Add(set, id, e).elements[x][r] <= versions[r]
    BY <1>4 DEF Covered
  <2>1. set.versions[r] \in Int /\ set.versions[r] >= -1 /\ set.versions[r] <= versions[r]
    BY VersionsType DEF IsSet, Versions
  <2>2. CASE x = e
    <3>1. tags[r] <= set.versions[r]
      BY <2>1, <1>6 DEF Covered, NoTags, Unseen
    <3>2. added[r] <= versions[r]
      BY <3>1, <2>1, <1>1, <1>2, VersionsType DEF IsSet, Versions
    <3> QED BY <3>2, <2>2, <1>4
  <2>3. CASE x # e
    <3>1. set.elements[x][r] \in Int /\ set.elements[x][r] <= set.versions[r]
      BY <2>3, <1>6, VersionsType DEF Covered, IsSet, Contents
    <3>2. versions[r] \in Int
      BY <1>3, VersionsType
    <3> QED BY <3>1, <3>2, <2>1, <2>3, <1>4
  <2> QED BY <2>2, <2>3
<1> QED BY <1>4, <1>5, <1>6

LEMMA RemoveType ==
  ASSUME NEW set, IsSet(set), NEW e
  PROVE  /\ IsSet(Remove(set, e))
         /\ Contents(Remove(set, e)) = Contents(set) \ {e}
         /\ Remove(set, e).versions = set.versions
         /\ Covered(set) => Covered(Remove(set, e))
BY DEF Remove, IsSet, Contents, Covered

-----------------------------------------------------------------------------
\* The parts of Merge.

LEMMA ApplyRemoteRemovesType ==
  ASSUME NEW local, NEW remote, IsSet(local)
  PROVE  LET left == ApplyRemoteRemoves(local, remote) IN
         /\ DOMAIN left \subseteq Contents(local)
         /\ left \in [DOMAIN left -> Versions]
         /\ \A e \in DOMAIN left : left[e] = local.elements[e]
BY DEF ApplyRemoteRemoves, IsSet, Contents

LEMMA ApplyRemoteAddsType ==
  ASSUME NEW elements, NEW versions, NEW remote, IsSet(remote),
         DOMAIN elements \subseteq Key, elements \in [DOMAIN elements -> Versions]
  PROVE  LET applied == ApplyRemoteAdds(elements, versions, remote) IN
         /\ DOMAIN applied \subseteq Key
         /\ applied \in [DOMAIN applied -> Versions]
         /\ DOMAIN applied \subseteq DOMAIN elements \cup Contents(remote)
         /\ \A e \in DOMAIN applied, r \in Replica :
              \/ e \in DOMAIN elements /\ applied[e][r] = elements[e][r]
              \/ e \in Contents(remote) /\ applied[e][r] = remote.elements[e][r]
<1> DEFINE added == {e \in Contents(remote) \ DOMAIN elements :
                       Newer(versions, remote.elements[e]) # {}}
           updated(e) == [r \in Replica |->
                            IF r \in Newer(versions, remote.elements[e])
                            THEN remote.elements[e][r]
                            ELSE elements[e][r]]
           tags(e) == IF e \in added THEN remote.elements[e]
                      ELSE IF e \in Contents(remote) THEN updated(e)
                      ELSE elements[e]
           applied == ApplyRemoteAdds(elements, versions, remote)
<1>1. applied = [e \in DOMAIN elements \cup added |-> tags(e)]
  BY DEF ApplyRemoteAdds
<1>2. DOMAIN applied = DOMAIN elements \cup added
  BY <1>1
<1>3. ASSUME NEW e \in DOMAIN elements \cup added
      PROVE  tags(e) \in Versions
  <2>1. CASE e \in added
    BY <2>1 DEF IsSet, Contents
  <2>2. CASE e \in Contents(remote) /\ e \in DOMAIN elements
    <3>1. remote.elements[e] \in Versions /\ elements[e] \in Versions
      BY <2>2 DEF IsSet, Contents
    <3>2. updated(e) \in Versions
      BY <3>1 DEF Versions
    <3> QED BY <3>2, <2>2
  <2>3. CASE e \notin Contents(remote) /\ e \in DOMAIN elements
    BY <2>3 DEF Contents
  <2> QED BY <2>1, <2>2, <2>3
<1>4. applied \in [DOMAIN applied -> Versions]
  <2>1. [e \in DOMAIN elements \cup added |-> tags(e)]
          \in [DOMAIN elements \cup added -> Versions]
    BY <1>3
  <2> HIDE DEF added, tags, applied
  <2> QED BY <1>1, <1>2, <2>1
<1>5. ASSUME NEW e \in DOMAIN applied, NEW r \in Replica
      PROVE  \/ e \in DOMAIN elements /\ applied[e][r] = elements[e][r]
             \/ e \in Contents(remote) /\ applied[e][r] = remote.elements[e][r]
  <2>1. applied[e] = tags(e)
    <3> HIDE DEF applied, added, tags
    <3> QED BY <1>1, <1>2
  <2>2. CASE e \in added
    BY <2>1, <2>2
  <2>3. CASE e \in DOMAIN elements /\ e \in Contents(remote)
    <3>1. tags(e) = updated(e)
      BY <2>3
    <3> QED BY <2>1, <2>3, <3>1
  <2>4. CASE e \in DOMAIN elements /\ e \notin Contents(remote)
    <3>1. tags(e) = elements[e]
      BY <2>4
    <3> QED BY <2>1, <2>4, <3>1
  <2> QED BY <1>2, <2>2, <2>3, <2>4
<1>6. added \subseteq Contents(remote) /\ Contents(remote) \subseteq Key
  BY DEF IsSet, Contents
<1> HIDE DEF applied, added
<1>7. /\ DOMAIN applied \subseteq Key
      /\ DOMAIN applied \subseteq DOMAIN elements \cup Contents(remote)
  BY <1>2, <1>6
<1> QED BY <1>4, <1>5, <1>7 DEF applied

LEMMA MergeVersionsType ==
  ASSUME NEW v \in Versions, NEW w \in Versions
  PROVE  /\ MergeVersions(v, w) \in Versions
         /\ \A r \in Replica :
              /\ MergeVersions(v, w)[r] \in {v[r], w[r]}
              /\ v[r] <= MergeVersions(v, w)[r]
              /\ w[r] <= MergeVersions(v, w)[r]
BY DEF MergeVersions, Versions, Unseen

\* What a merge yields: keys of the two sets, each with tags of the two sets, and
\* the pointwise maximum of the versions.
LEMMA MergeType ==
  ASSUME NEW local, NEW remote, IsSet(local), IsSet(remote)
  PROVE  LET merged == Merge(local, remote) IN
         /\ IsSet(merged)
         /\ Contents(merged) \subseteq Contents(local) \cup Contents(remote)
         /\ \A e \in Contents(merged), r \in Replica :
              \/ e \in Contents(local) /\ merged.elements[e][r] = local.elements[e][r]
              \/ e \in Contents(remote) /\ merged.elements[e][r] = remote.elements[e][r]
         /\ \A r \in Replica :
              /\ merged.versions[r] \in {local.versions[r], remote.versions[r]}
              /\ local.versions[r] <= merged.versions[r]
              /\ remote.versions[r] <= merged.versions[r]
<1> DEFINE left == ApplyRemoteRemoves(local, remote)
           applied == ApplyRemoteAdds(left, local.versions, remote)
           versions == MergeVersions(local.versions, remote.versions)
<1>1. /\ DOMAIN left \subseteq Contents(local)
      /\ left \in [DOMAIN left -> Versions]
      /\ \A e \in DOMAIN left : left[e] = local.elements[e]
  BY ApplyRemoteRemovesType
<1>2. Contents(local) \subseteq Key
  BY DEF IsSet, Contents
<1> HIDE DEF left
<1>3. /\ DOMAIN applied \subseteq Key
      /\ applied \in [DOMAIN applied -> Versions]
      /\ DOMAIN applied \subseteq DOMAIN left \cup Contents(remote)
      /\ \A e \in DOMAIN applied, r \in Replica :
           \/ e \in DOMAIN left /\ applied[e][r] = left[e][r]
           \/ e \in Contents(remote) /\ applied[e][r] = remote.elements[e][r]
  BY <1>1, <1>2, ApplyRemoteAddsType
<1>4. /\ versions \in Versions
      /\ \A r \in Replica : /\ versions[r] \in {local.versions[r], remote.versions[r]}
                            /\ local.versions[r] <= versions[r]
                            /\ remote.versions[r] <= versions[r]
  BY MergeVersionsType DEF IsSet
<1> HIDE DEF applied, versions
<1>5. Merge(local, remote) = [elements |-> applied, versions |-> versions]
  BY DEF Merge, applied, left, versions
<1>6. Contents(Merge(local, remote)) = DOMAIN applied
  BY <1>5 DEF Contents
<1>7. IsSet(Merge(local, remote))
  BY <1>3, <1>4, <1>5 DEF IsSet
<1> QED BY <1>1, <1>3, <1>4, <1>5, <1>6, <1>7

LEMMA MergeCovered ==
  ASSUME NEW local, NEW remote, IsSet(local), IsSet(remote),
         Covered(local), Covered(remote)
  PROVE  Covered(Merge(local, remote))
<1> DEFINE merged == Merge(local, remote)
<1> SUFFICES ASSUME NEW e \in Contents(merged), NEW r \in Replica
             PROVE  merged.elements[e][r] <= merged.versions[r]
  BY DEF Covered
<1>1. /\ IsSet(merged)
      /\ \/ e \in Contents(local) /\ merged.elements[e][r] = local.elements[e][r]
         \/ e \in Contents(remote) /\ merged.elements[e][r] = remote.elements[e][r]
      /\ local.versions[r] <= merged.versions[r]
      /\ remote.versions[r] <= merged.versions[r]
  BY MergeType
<1> HIDE DEF merged
<1>2. \/ merged.elements[e][r] <= local.versions[r]
      \/ merged.elements[e][r] <= remote.versions[r]
  BY <1>1 DEF Covered
<1>3. /\ merged.elements[e][r] \in Int /\ merged.versions[r] \in Int
      /\ local.versions[r] \in Int /\ remote.versions[r] \in Int
  BY <1>1, VersionsType DEF IsSet, Contents
<1> QED BY <1>1, <1>2, <1>3

\* Which elements a merge keeps, with which tags: an element of both sets stays;
\* one of the local set goes if it was removed remotely; one of the remote set
\* comes if one of its tags is new here.
LEMMA MergeElements ==
  ASSUME NEW local, NEW remote, IsSet(local), IsSet(remote), NEW e
  PROVE  LET merged == Merge(local, remote)
             InLocal == e \in Contents(local)
             InRemote == e \in Contents(remote)
             InMerged == e \in Contents(merged)
         IN
         /\ InLocal /\ InRemote =>
              /\ InMerged
              /\ \A r \in Replica :
                   merged.elements[e][r] = IF local.versions[r] < remote.elements[e][r]
                                           THEN remote.elements[e][r]
                                           ELSE local.elements[e][r]
         /\ InLocal /\ ~InRemote =>
              /\ InMerged <=> ~RemovedRemotely(local.elements[e], remote.versions)
              /\ InMerged => merged.elements[e] = local.elements[e]
         /\ ~InLocal /\ InRemote =>
              /\ InMerged <=> \E r \in Replica : local.versions[r] < remote.elements[e][r]
              /\ InMerged => merged.elements[e] = remote.elements[e]
         /\ InMerged => InLocal \/ InRemote
<1> DEFINE left == ApplyRemoteRemoves(local, remote)
           applied == ApplyRemoteAdds(left, local.versions, remote)
           added == {x \in Contents(remote) \ DOMAIN left :
                       Newer(local.versions, remote.elements[x]) # {}}
           merged == Merge(local, remote)
<1>1. /\ DOMAIN left = {x \in Contents(local) :
                         \/ x \in Contents(remote)
                         \/ ~RemovedRemotely(local.elements[x], remote.versions)}
      /\ \A x \in DOMAIN left : left[x] = local.elements[x]
  BY DEF ApplyRemoteRemoves
<1>2. merged.elements = applied
  BY DEF Merge
<1>3. Contents(merged) = DOMAIN applied
  BY <1>2 DEF Contents
<1>4. DOMAIN applied = DOMAIN left \cup added
  BY DEF ApplyRemoteAdds
<1>5. ASSUME e \in added PROVE applied[e] = remote.elements[e]
  BY <1>5 DEF ApplyRemoteAdds
<1>6. ASSUME e \in DOMAIN left, e \notin Contents(remote)
      PROVE  applied[e] = left[e]
  BY <1>6 DEF ApplyRemoteAdds
<1>7. ASSUME e \in DOMAIN left, e \in Contents(remote), NEW r \in Replica
      PROVE  applied[e][r] = IF local.versions[r] < remote.elements[e][r]
                             THEN remote.elements[e][r]
                             ELSE left[e][r]
  BY <1>7 DEF ApplyRemoteAdds, Newer
<1>8. e \in added <=> /\ e \in Contents(remote) /\ e \notin DOMAIN left
                     /\ \E r \in Replica : local.versions[r] < remote.elements[e][r]
  BY DEF Newer
<1> HIDE DEF left, applied, added, merged
<1> QED BY <1>1, <1>2, <1>3, <1>4, <1>5, <1>6, <1>7, <1>8 DEF merged

-----------------------------------------------------------------------------
\* Add wins, stated of one set: of the given additions of e (pairs <<replica,
\* version>>), the set has observed only such as are purged or recorded (a later
\* addition by the same replica takes the place of an earlier one).
Accounted(set, e, additions, purge) ==
  \A t \in additions :
    t[2] <= set.versions[t[1]] =>
      t \in purge \/ (e \in Contents(set) /\ t[2] <= set.elements[e][t[1]])

LEMMA MergeAccounted ==
  ASSUME NEW local, NEW remote, IsSet(local), IsSet(remote),
         Covered(local), Covered(remote), NEW e,
         NEW additions \in SUBSET (Replica \X Nat), NEW purge,
         Accounted(local, e, additions, purge), Accounted(remote, e, additions, purge)
  PROVE  Accounted(Merge(local, remote), e, additions, purge)
<1> DEFINE merged == Merge(local, remote)
<1> SUFFICES ASSUME NEW t \in additions, t[2] <= merged.versions[t[1]], t \notin purge
             PROVE  e \in Contents(merged) /\ t[2] <= merged.elements[e][t[1]]
  BY DEF Accounted
<1> DEFINE x == t[1]
           n == t[2]
<1>1. x \in Replica /\ n \in Nat
  OBVIOUS
<1>2. n <= local.versions[x] \/ n <= remote.versions[x]
  BY <1>1, MergeType
<1>3. n <= local.versions[x] => e \in Contents(local) /\ n <= local.elements[e][x]
  BY DEF Accounted
<1>4. n <= remote.versions[x] => e \in Contents(remote) /\ n <= remote.elements[e][x]
  BY DEF Accounted
<1>5. local.versions[x] \in Int /\ remote.versions[x] \in Int
  BY <1>1, VersionsType DEF IsSet
<1>6. e \in Contents(local) =>
        local.elements[e][x] \in Int /\ local.elements[e][x] <= local.versions[x]
  BY <1>1, VersionsType DEF IsSet, Contents, Covered
<1>7. e \in Contents(remote) =>
        remote.elements[e][x] \in Int /\ remote.elements[e][x] <= remote.versions[x]
  BY <1>1, VersionsType DEF IsSet, Contents, Covered
<1> HIDE DEF merged, x, n
<1>8. CASE e \in Contents(local) /\ e \in Contents(remote)
  <2>1. /\ e \in Contents(merged)
        /\ merged.elements[e][x] = IF local.versions[x] < remote.elements[e][x]
                                   THEN remote.elements[e][x]
                                   ELSE local.elements[e][x]
    BY <1>1, <1>8, MergeElements DEF merged
  <2> QED BY <2>1, <1>1, <1>2, <1>3, <1>4, <1>5, <1>6, <1>7, <1>8 DEF x, n
<1>9. CASE e \in Contents(local) /\ e \notin Contents(remote)
  <2>1. ~(n <= remote.versions[x]) /\ n <= local.elements[e][x]
    BY <1>2, <1>3, <1>4, <1>9
  <2>2. ~(local.elements[e][x] <= remote.versions[x])
    BY <2>1, <1>1, <1>5, <1>6, <1>9
  <2>3. ~RemovedRemotely(local.elements[e], remote.versions)
    BY <2>2, <1>1 DEF RemovedRemotely
  <2>4. e \in Contents(merged) /\ merged.elements[e] = local.elements[e]
    BY <2>3, <1>9, MergeElements DEF merged
  <2> QED BY <2>1, <2>4 DEF x, n
<1>10. CASE e \notin Contents(local) /\ e \in Contents(remote)
  <2>1. ~(n <= local.versions[x]) /\ n <= remote.elements[e][x]
    BY <1>2, <1>3, <1>4, <1>10
  <2>2. local.versions[x] < remote.elements[e][x]
    BY <2>1, <1>1, <1>5, <1>7, <1>10
  <2>3. e \in Contents(merged) /\ merged.elements[e] = remote.elements[e]
    BY <2>2, <1>1, <1>10, MergeElements DEF merged
  <2> QED BY <2>1, <2>3 DEF x, n
<1> QED BY <1>2, <1>3, <1>4, <1>8, <1>9, <1>10

-----------------------------------------------------------------------------
\* Maps.  A well-formed map has the type of a map, matching keys and registers,
\* and a key set that covers its tags.
WellFormed(map) == IsMap(map) /\ KeysMatch(map) /\ Covered(map.keys)

LEMMA NewMapWellFormed ==
  ASSUME NEW id \in Replica
  PROVE  WellFormed(NewMap(id)) /\ NewMap(id).keys = NewSet(id)
<1>1. IsSet(NewSet(id)) /\ Covered(NewSet(id)) /\ Contents(NewSet(id)) = {}
  BY NewSetType
<1> QED BY <1>1 DEF NewMap, WellFormed, IsMap, KeysMatch

LEMMA MapPutType ==
  ASSUME NEW map, IsMap(map), NEW id \in Replica, NEW k \in Key, NEW v \in Value
  PROVE  /\ IsMap(MapPut(map, id, k, v))
         /\ MapPut(map, id, k, v).keys = Add(map.keys, id, k)
         /\ DOMAIN MapPut(map, id, k, v).registers = DOMAIN map.registers \cup {k}
<1> DEFINE keys == Add(map.keys, id, k)
           reg(x) == IF x # k THEN map.registers[x]
                     ELSE IF k \in DOMAIN map.registers
                          THEN Assign(map.registers[k], id, v)
                          ELSE FirstAssign(id, v)
           dom == DOMAIN map.registers \cup {k}
<1>1. IsSet(keys)
  BY AddType DEF IsMap
<1>2. ASSUME NEW x \in dom PROVE reg(x) \in Register
  BY DEF IsMap, Register, Assign, FirstAssign
<1>3. [x \in dom |-> reg(x)] \in [dom -> Register] /\ dom \subseteq Key
  BY <1>2 DEF IsMap
<1>4. MapPut(map, id, k, v) = [keys |-> keys, registers |-> [x \in dom |-> reg(x)]]
  BY DEF MapPut
<1> HIDE DEF keys, dom, reg
<1>5. IsMap(MapPut(map, id, k, v))
  BY <1>1, <1>3, <1>4 DEF IsMap
<1> QED BY <1>4, <1>5 DEF keys, dom

LEMMA MapPutWellFormed ==
  ASSUME NEW map, WellFormed(map), NEW id \in Replica, NEW k \in Key, NEW v \in Value
  PROVE  WellFormed(MapPut(map, id, k, v))
<1>1. /\ IsMap(MapPut(map, id, k, v))
      /\ MapPut(map, id, k, v).keys = Add(map.keys, id, k)
      /\ DOMAIN MapPut(map, id, k, v).registers = DOMAIN map.registers \cup {k}
  BY MapPutType DEF WellFormed
<1>2. /\ Contents(Add(map.keys, id, k)) = Contents(map.keys) \cup {k}
      /\ Covered(Add(map.keys, id, k))
  BY AddType DEF WellFormed, IsMap
<1> QED BY <1>1, <1>2 DEF WellFormed, KeysMatch

LEMMA MapRemoveType ==
  ASSUME NEW map, IsMap(map), NEW k
  PROVE  IsMap(MapRemove(map, k)) /\ MapRemove(map, k).keys = Remove(map.keys, k)
BY RemoveType DEF IsMap, MapRemove

LEMMA MapRemoveWellFormed ==
  ASSUME NEW map, WellFormed(map), NEW k
  PROVE  WellFormed(MapRemove(map, k)) /\ MapRemove(map, k).keys = Remove(map.keys, k)
<1>1. /\ IsSet(Remove(map.keys, k)) /\ Covered(Remove(map.keys, k))
      /\ Contents(Remove(map.keys, k)) = Contents(map.keys) \ {k}
  BY RemoveType DEF WellFormed, IsMap
<1> QED BY <1>1 DEF WellFormed, IsMap, KeysMatch, MapRemove

LEMMA RegisterMergeType ==
  ASSUME NEW local \in Register, NEW remote \in Register
  PROVE  RegisterMerge(local, remote) \in Register
BY DEF RegisterMerge

LEMMA AdoptType ==
  ASSUME NEW id \in Replica, NEW remote \in Register
  PROVE  Adopt(id, remote) \in Register
<1>1. FirstAssign(id, remote.val) \in Register
  BY DEF FirstAssign, Register
<1> QED BY <1>1, RegisterMergeType DEF Adopt

LEMMA MapMergeType ==
  ASSUME NEW map, NEW remote, NEW id \in Replica, IsMap(map), IsMap(remote)
  PROVE  /\ IsMap(MapMerge(map, id, remote))
         /\ MapMerge(map, id, remote).keys = Merge(map.keys, remote.keys)
<1> DEFINE merged  == Merge(map.keys, remote.keys)
           kept    == DOMAIN map.registers \ (Contents(map.keys) \ Contents(merged))
           adopted == (DOMAIN remote.registers \ kept) \cap Contents(merged)
           register(k) ==
             IF k \in adopted THEN Adopt(id, remote.registers[k])
             ELSE IF k \in DOMAIN remote.registers
                  THEN RegisterMerge(map.registers[k], remote.registers[k])
                  ELSE map.registers[k]
<1>1. MapMerge(map, id, remote)
        = [keys |-> merged, registers |-> [k \in kept \cup adopted |-> register(k)]]
  BY DEF MapMerge
<1>2. IsSet(merged)
  BY MergeType DEF IsMap
<1> HIDE DEF merged
<1>3. ASSUME NEW k \in kept \cup adopted PROVE register(k) \in Register
  <2>1. CASE k \in adopted
    BY <2>1, AdoptType DEF IsMap
  <2>2. CASE k \notin adopted /\ k \in DOMAIN remote.registers
    <3>1. map.registers[k] \in Register /\ remote.registers[k] \in Register
      BY <2>2 DEF IsMap
    <3> QED BY <2>2, <3>1, RegisterMergeType
  <2>3. CASE k \notin adopted /\ k \notin DOMAIN remote.registers
    BY <2>3 DEF IsMap
  <2> QED BY <2>1, <2>2, <2>3
<1>4. [k \in kept \cup adopted |-> register(k)] \in [kept \cup adopted -> Register]
  BY <1>3
<1>5. kept \cup adopted \subseteq Key
  BY <1>2 DEF IsMap, IsSet, Contents
<1> HIDE DEF kept, adopted, register
<1>6. IsMap(MapMerge(map, id, remote))
  BY <1>1, <1>2, <1>4, <1>5 DEF IsMap
<1> QED BY <1>1, <1>6 DEF merged

LEMMA MapMergeWellFormed ==
  ASSUME NEW map, NEW remote, NEW id \in Replica, WellFormed(map), WellFormed(remote)
  PROVE  /\ WellFormed(MapMerge(map, id, remote))
         /\ MapMerge(map, id, remote).keys = Merge(map.keys, remote.keys)
<1> DEFINE merged  == Merge(map.keys, remote.keys)
           kept    == DOMAIN map.registers \ (Contents(map.keys) \ Contents(merged))
           adopted == (DOMAIN remote.registers \ kept) \cap Contents(merged)
<1>1. IsMap(MapMerge(map, id, remote)) /\ MapMerge(map, id, remote).keys = merged
  BY MapMergeType DEF WellFormed
<1>2. Covered(merged) /\ Contents(merged) \subseteq Contents(map.keys) \cup Contents(remote.keys)
  BY MergeType, MergeCovered DEF WellFormed, IsMap
<1>3. DOMAIN MapMerge(map, id, remote).registers = kept \cup adopted
  BY DEF MapMerge
<1> HIDE DEF merged
<1>4. kept \cup adopted = Contents(merged)
  BY <1>2 DEF WellFormed, KeysMatch
<1> QED BY <1>1, <1>2, <1>3, <1>4 DEF WellFormed, KeysMatch, merged

-----------------------------------------------------------------------------
\* Every key of a map has a tag; every object of timestamps in it has a field.
KeysTagged(map) ==
  \A k \in Contents(map.keys) : \E r \in Replica : map.keys.elements[k][r] # Unseen

Tagged(map) == KeysTagged(map) /\ \E r \in Replica : map.keys.versions[r] # Unseen

LEMMA NewMapTagged ==
  ASSUME NEW id \in Replica
  PROVE  Tagged(NewMap(id))
BY DEF Tagged, KeysTagged, NewMap, NewSet, NoTags, Unseen, Contents

LEMMA PutKeysTagged ==
  ASSUME NEW map, IsMap(map), KeysTagged(map), NEW id \in Replica, NEW k \in Key, NEW v
  PROVE  Tagged(MapPut(map, id, k, v))
<1> DEFINE old == map.keys
           new == Add(old, id, k)
<1>1. MapPut(map, id, k, v).keys = new /\ IsSet(old)
  BY DEF MapPut, IsMap
<1>2. old.versions[id] + 1 # Unseen /\ old.versions \in Versions
  BY <1>1, VersionsType DEF IsSet, Unseen
<1>3. new.versions[id] # Unseen
  BY <1>2 DEF Add, Versions
<1>4. /\ Contents(new) = Contents(old) \cup {k}
      /\ \A e \in Contents(old) \ {k} : new.elements[e] = old.elements[e]
      /\ new.elements[k][id] = old.versions[id] + 1
  <2>1. k \in Contents(old) => old.elements[k] \in Versions
    BY <1>1 DEF IsSet, Contents
  <2> HIDE DEF old
  <2> QED BY <2>1 DEF Add, Contents, Versions, NoTags
<1> QED BY <1>1, <1>2, <1>3, <1>4 DEF Tagged, KeysTagged

LEMMA PutTagged ==
  ASSUME NEW map, WellFormed(map), Tagged(map), NEW id \in Replica, NEW k \in Key, NEW v
  PROVE  Tagged(MapPut(map, id, k, v))
BY PutKeysTagged DEF WellFormed, Tagged

LEMMA RemoveTagged ==
  ASSUME NEW map, NEW k
  PROVE  /\ KeysTagged(map) => KeysTagged(MapRemove(map, k))
         /\ Tagged(map) => Tagged(MapRemove(map, k))
BY DEF Tagged, KeysTagged, MapRemove, Remove, Contents

LEMMA MergeKeysTagged ==
  ASSUME NEW map, NEW remote, NEW id \in Replica, IsMap(map), IsMap(remote),
         KeysTagged(map), KeysTagged(remote)
  PROVE  KeysTagged(MapMerge(map, id, remote))
<1> DEFINE merged == Merge(map.keys, remote.keys)
<1>1. /\ MapMerge(map, id, remote).keys = merged
      /\ IsSet(map.keys) /\ IsSet(remote.keys)
  BY MapMergeType DEF IsMap
<1>2. ASSUME NEW k \in Contents(merged)
      PROVE  \E q \in Replica : merged.elements[k][q] # Unseen
  <2>1. CASE k \in Contents(map.keys) /\ k \in Contents(remote.keys)
    <3>1. PICK q \in Replica : map.keys.elements[k][q] # Unseen
      BY <2>1 DEF KeysTagged
    <3>2. merged.elements[k][q] = IF map.keys.versions[q] < remote.keys.elements[k][q]
                                  THEN remote.keys.elements[k][q]
                                  ELSE map.keys.elements[k][q]
      BY <1>1, <2>1, MergeElements
    <3>3. map.keys.versions[q] \in Int /\ map.keys.versions[q] >= -1
      BY <1>1, VersionsType DEF IsSet
    <3>4. remote.keys.elements[k][q] \in Int
      BY <1>1, <2>1, VersionsType DEF IsSet, Contents
    <3> QED BY <3>1, <3>2, <3>3, <3>4 DEF Unseen
  <2>2. CASE k \in Contents(map.keys) /\ k \notin Contents(remote.keys)
    BY <1>1, <1>2, <2>2, MergeElements DEF KeysTagged
  <2>3. CASE k \notin Contents(map.keys)
    BY <1>1, <1>2, <2>3, MergeElements DEF KeysTagged
  <2> QED BY <2>1, <2>2, <2>3
<1> QED BY <1>1, <1>2 DEF KeysTagged

LEMMA MergeTagged ==
  ASSUME NEW map, NEW remote, NEW id \in Replica, WellFormed(map), WellFormed(remote),
         Tagged(map), Tagged(remote)
  PROVE  Tagged(MapMerge(map, id, remote))
<1> DEFINE merged == Merge(map.keys, remote.keys)
<1>1. MapMerge(map, id, remote).keys = merged /\ KeysTagged(MapMerge(map, id, remote))
  BY MapMergeType, MergeKeysTagged DEF WellFormed, Tagged
<1>2. PICK r \in Replica : map.keys.versions[r] # Unseen
  BY DEF Tagged
<1>3. /\ map.keys.versions[r] \in Int /\ map.keys.versions[r] >= -1
      /\ map.keys.versions[r] <= merged.versions[r] /\ merged.versions[r] \in Int
  BY MergeType, VersionsType DEF WellFormed, IsMap, IsSet
<1> QED BY <1>1, <1>2, <1>3 DEF Tagged, Unseen

-----------------------------------------------------------------------------
\* Registers never get older timestamps.
LEMMA RegisterType ==
  ASSUME NEW reg \in Register
  PROVE  reg.seq \in Int /\ reg.uid \in Int
<1>1. reg.seq \in Nat /\ reg.uid \in Replica
  BY DEF Register
<1>2. \A r \in Replica : r \in Nat
  BY ReplicaAssumption
<1>3. \A n \in Nat : n \in Int
  OBVIOUS
<1> QED BY <1>1, <1>2, <1>3

LEMMA NotOlderThanItself ==
  ASSUME NEW reg \in Register
  PROVE  ~TimestampLess(reg, reg)
BY RegisterType DEF TimestampLess

LEMMA AssignAdvances ==
  ASSUME NEW reg \in Register, NEW id, NEW v
  PROVE  ~TimestampLess(Assign(reg, id, v), reg)
BY RegisterType DEF TimestampLess, Assign

LEMMA RegisterMergeAdvances ==
  ASSUME NEW local \in Register, NEW remote \in Register
  PROVE  ~TimestampLess(RegisterMerge(local, remote), local)
<1>1. /\ local.seq \in Int /\ local.uid \in Int /\ remote.seq \in Int /\ remote.uid \in Int
  BY RegisterType
<1> QED BY <1>1 DEF TimestampLess, RegisterMerge

-----------------------------------------------------------------------------
\* Add wins.  The invariant that NoLostPut needs, stated of one map: it has not
\* observed more of a client's additions than the client itself, and the
\* additions of a key it has observed are accounted for.
Safe(map, clients, additions, purges) ==
  /\ \A c \in DOMAIN clients : map.keys.versions[c] <= clients[c].keys.versions[c]
  /\ \A k \in Key : Accounted(map.keys, k, additions[k], purges[k])

Additions == [Key -> SUBSET (Replica \X Nat)]

\* The additions in the history are versions their clients have reached.
HistoryObserved(clients, additions) ==
  /\ \A c \in DOMAIN clients : clients[c].keys.versions[c] >= 0
  /\ \A k \in Key : \A t \in additions[k] :
       t[1] \in DOMAIN clients /\ 1 <= t[2] /\ t[2] <= clients[t[1]].keys.versions[t[1]]

LEMMA WellFormedVersions ==
  ASSUME NEW map, WellFormed(map), NEW r \in Replica
  PROVE  map.keys.versions[r] \in Int /\ map.keys.versions[r] >= -1
BY VersionsType DEF WellFormed, IsMap, IsSet

LEMMA AdditionsType ==
  ASSUME NEW additions \in Additions, NEW k \in Key
  PROVE  additions[k] \in SUBSET (Replica \X Nat)
BY DEF Additions

LEMMA SafeMerge ==
  ASSUME NEW map, NEW remote, NEW id \in Replica, NEW clients, DOMAIN clients \subseteq Replica,
         NEW additions \in Additions, NEW purges,
         WellFormed(map), WellFormed(remote),
         Safe(map, clients, additions, purges), Safe(remote, clients, additions, purges)
  PROVE  Safe(MapMerge(map, id, remote), clients, additions, purges)
<1>1. MapMerge(map, id, remote).keys = Merge(map.keys, remote.keys)
  BY MapMergeWellFormed
<1>2. /\ IsSet(map.keys) /\ IsSet(remote.keys)
      /\ Covered(map.keys) /\ Covered(remote.keys)
  BY DEF WellFormed, IsMap
<1>3. ASSUME NEW c \in DOMAIN clients
      PROVE  Merge(map.keys, remote.keys).versions[c] <= clients[c].keys.versions[c]
  <2>1. Merge(map.keys, remote.keys).versions[c]
          \in {map.keys.versions[c], remote.keys.versions[c]}
    BY <1>2, MergeType
  <2> QED BY <2>1 DEF Safe
<1>4. ASSUME NEW k \in Key
      PROVE  Accounted(Merge(map.keys, remote.keys), k, additions[k], purges[k])
  <2>1. /\ Accounted(map.keys, k, additions[k], purges[k])
        /\ Accounted(remote.keys, k, additions[k], purges[k])
    BY DEF Safe
  <2> QED BY <1>2, <2>1, AdditionsType, MergeAccounted
<1> QED BY <1>1, <1>3, <1>4 DEF Safe

\* A map stays safe when clients advance and more additions are purged.
LEMMA SafeStays ==
  ASSUME NEW map, NEW clients, NEW clients2,
         DOMAIN clients \subseteq Replica, DOMAIN clients2 = DOMAIN clients,
         NEW additions, NEW purges, NEW purges2,
         WellFormed(map),
         \A c \in DOMAIN clients : WellFormed(clients[c]) /\ WellFormed(clients2[c]),
         \A c \in DOMAIN clients : clients[c].keys.versions[c] <= clients2[c].keys.versions[c],
         \A k \in Key : purges[k] \subseteq purges2[k],
         Safe(map, clients, additions, purges)
  PROVE  Safe(map, clients2, additions, purges2)
<1>1. ASSUME NEW c \in DOMAIN clients PROVE map.keys.versions[c] <= clients2[c].keys.versions[c]
  <2>1. /\ map.keys.versions[c] \in Int
        /\ clients[c].keys.versions[c] \in Int
        /\ clients2[c].keys.versions[c] \in Int
    BY WellFormedVersions
  <2> QED BY <2>1 DEF Safe
<1>2. ASSUME NEW k \in Key PROVE Accounted(map.keys, k, additions[k], purges2[k])
  BY DEF Safe, Accounted
<1> QED BY <1>1, <1>2 DEF Safe

LEMMA NewMapSafe ==
  ASSUME NEW id \in Replica, NEW clients, DOMAIN clients \subseteq Replica,
         NEW additions \in Additions, NEW purges,
         \A c \in DOMAIN clients : WellFormed(clients[c]), HistoryObserved(clients, additions)
  PROVE  Safe(NewMap(id), clients, additions, purges)
<1>1. \A r \in Replica : NewMap(id).keys.versions[r] = IF r = id THEN 0 ELSE -1
  BY DEF NewMap, NewSet, NoTags, Unseen
<1>2. ASSUME NEW c \in DOMAIN clients
      PROVE  NewMap(id).keys.versions[c] <= clients[c].keys.versions[c]
  <2>1. clients[c].keys.versions[c] \in Int /\ clients[c].keys.versions[c] >= 0
    BY WellFormedVersions DEF HistoryObserved
  <2> QED BY <1>1, <2>1
<1>3. ASSUME NEW k \in Key PROVE Accounted(NewMap(id).keys, k, additions[k], purges[k])
  <2> SUFFICES ASSUME NEW t \in additions[k]
               PROVE  ~(t[2] <= NewMap(id).keys.versions[t[1]])
    BY DEF Accounted
  <2>1. t[1] \in Replica /\ t[2] \in Nat /\ 1 <= t[2]
    BY AdditionsType DEF HistoryObserved
  <2> QED BY <1>1, <2>1
<1> QED BY <1>2, <1>3 DEF Safe

\* A put: the map that was put into is safe in the new state, and every other safe
\* map stays so, because nobody has observed the new version.
LEMMA PutSafe ==
  ASSUME NEW clients, NEW clients2,
         DOMAIN clients \subseteq Replica, DOMAIN clients2 = DOMAIN clients,
         NEW c \in DOMAIN clients, NEW k \in Key, NEW v \in Value, NEW map, WellFormed(map),
         NEW additions \in Additions, NEW additions2, NEW purges,
         \A d \in DOMAIN clients : WellFormed(clients[d]),
         HistoryObserved(clients, additions),
         clients2[c] = MapPut(clients[c], c, k, v),
         \A d \in DOMAIN clients \ {c} : clients2[d] = clients[d],
         additions2[k] = additions[k] \cup {<<c, clients[c].keys.versions[c] + 1>>},
         \A k2 \in Key \ {k} : additions2[k2] = additions[k2],
         Safe(clients[c], clients, additions, purges),
         Safe(map, clients, additions, purges)
  PROVE  /\ HistoryObserved(clients2, additions2)
         /\ Safe(clients2[c], clients2, additions2, purges)
         /\ Safe(map, clients2, additions2, purges)
<1> DEFINE old == clients[c].keys
           new == clients2[c].keys
           n == old.versions[c] + 1
<1>1. IsSet(old) /\ c \in Replica /\ old.versions[c] \in Int /\ old.versions[c] >= 0
  BY WellFormedVersions DEF WellFormed, IsMap, HistoryObserved
<1>2. new = Add(old, c, k)
  BY DEF MapPut
<1>3. /\ new.versions[c] = n
      /\ \A r \in Replica \ {c} : new.versions[r] = old.versions[r]
      /\ Contents(new) = Contents(old) \cup {k}
      /\ \A e \in Contents(old) \ {k} : new.elements[e] = old.elements[e]
      /\ new.elements[k][c] = n
      /\ \A r \in Replica \ {c} : k \in Contents(old) =>
           new.elements[k][r] = old.elements[k][r]
  <2>1. old.versions \in Versions
    BY <1>1 DEF IsSet
  <2>2. k \in Contents(old) => old.elements[k] \in Versions
    BY <1>1 DEF IsSet, Contents
  <2>3. NoTags \in Versions
    BY DEF NoTags, Versions
  <2> HIDE DEF old, new
  <2> QED BY <1>1, <1>2, <2>1, <2>2, <2>3 DEF Add, Contents, Versions
<1>4. \A d \in DOMAIN clients : /\ clients[d].keys.versions[d] \in Int
                        /\ clients2[d].keys.versions[d] >= clients[d].keys.versions[d]
                        /\ clients2[d].keys.versions[d] \in Int
  <2> SUFFICES ASSUME NEW d \in DOMAIN clients
               PROVE  /\ clients[d].keys.versions[d] \in Int
                      /\ clients2[d].keys.versions[d] >= clients[d].keys.versions[d]
                      /\ clients2[d].keys.versions[d] \in Int
    OBVIOUS
  <2>1. clients[d].keys.versions[d] \in Int
    BY WellFormedVersions
  <2>2. CASE d = c
    BY <2>1, <2>2, <1>1, <1>3
  <2>3. CASE d # c
    BY <2>1, <2>3
  <2> QED BY <2>2, <2>3
<1>5. \A k2 \in Key : \A t \in additions[k2] :
        /\ t[1] \in DOMAIN clients /\ t[2] \in Nat /\ t = <<t[1], t[2]>>
        /\ 1 <= t[2] /\ t[2] <= clients[t[1]].keys.versions[t[1]]
  BY DEF HistoryObserved, Additions
<1>6. \A k2 \in Key : \A t \in additions2[k2] :
        t \in additions[k2] \/ (k2 = k /\ t[1] = c /\ t[2] = n)
  OBVIOUS
<1> HIDE DEF new, old, n
<1>7. HistoryObserved(clients2, additions2)
  <2>1. ASSUME NEW d \in DOMAIN clients PROVE clients2[d].keys.versions[d] >= 0
    BY <1>4 DEF HistoryObserved
  <2>2. ASSUME NEW k2 \in Key, NEW t \in additions2[k2]
        PROVE  1 <= t[2] /\ t[2] <= clients2[t[1]].keys.versions[t[1]]
    <3>1. CASE t \in additions[k2]
      BY <3>1, <1>4, <1>5
    <3>2. CASE t[1] = c /\ t[2] = n
      BY <3>2, <1>1, <1>3 DEF n, new
    <3> QED BY <1>6, <3>1, <3>2
  <2> QED BY <2>1, <2>2 DEF HistoryObserved
<1>8. Safe(clients2[c], clients2, additions2, purges)
  <2>1. ASSUME NEW d \in DOMAIN clients PROVE new.versions[d] <= clients2[d].keys.versions[d]
    <3>1. CASE d = c
      BY <3>1, <1>4 DEF new
    <3>2. CASE d # c
      BY <3>2, <1>3 DEF Safe, old
    <3> QED BY <3>1, <3>2
  <2>2. ASSUME NEW k2 \in Key, NEW t \in additions2[k2],
               t[2] <= new.versions[t[1]], t \notin purges[k2]
        PROVE  k2 \in Contents(new) /\ t[2] <= new.elements[k2][t[1]]
    <3>1. CASE k2 = k /\ t[1] = c
      <4>1. t[2] <= n
        BY <2>2, <3>1, <1>3
      <4> QED BY <4>1, <3>1, <1>3
    <3>2. CASE t \in additions[k2] /\ (k2 # k \/ t[1] # c)
      <4>1. t[2] <= old.versions[t[1]]
        BY <2>2, <3>2, <1>3, <1>5 DEF old
      <4>2. k2 \in Contents(old) /\ t[2] <= old.elements[k2][t[1]]
        BY <2>2, <3>2, <4>1 DEF Safe, Accounted, old
      <4> QED BY <3>2, <4>2, <1>3, <1>5
    <3> QED BY <1>6, <3>1, <3>2
  <2> QED BY <2>1, <2>2 DEF Safe, Accounted, new
<1>9. Safe(map, clients2, additions2, purges)
  <2>1. ASSUME NEW d \in DOMAIN clients PROVE map.keys.versions[d] <= clients2[d].keys.versions[d]
    <3>1. map.keys.versions[d] \in Int
      BY WellFormedVersions
    <3> QED BY <3>1, <1>4 DEF Safe
  <2>2. ASSUME NEW k2 \in Key PROVE Accounted(map.keys, k2, additions2[k2], purges[k2])
    <3>1. map.keys.versions[c] \in Int /\ map.keys.versions[c] <= old.versions[c]
      BY WellFormedVersions DEF Safe, old
    <3>2. ~(n <= map.keys.versions[c])
      BY <3>1, <1>1 DEF n
    <3>3. Accounted(map.keys, k2, additions[k2], purges[k2])
      BY DEF Safe
    <3> QED BY <1>6, <3>2, <3>3 DEF Accounted
  <2> QED BY <2>1, <2>2 DEF Safe
<1> QED BY <1>7, <1>8, <1>9

LEMMA RemoveSafe ==
  ASSUME NEW k \in Key, NEW map, WellFormed(map), NEW clients,
         NEW additions, NEW purges, NEW purges2,
         purges2[k] = purges[k] \cup {t \in additions[k] : t[2] <= map.keys.versions[t[1]]},
         \A k2 \in Key \ {k} : purges2[k2] = purges[k2],
         Safe(map, clients, additions, purges)
  PROVE  Safe(MapRemove(map, k), clients, additions, purges2)
<1>1. /\ Contents(MapRemove(map, k).keys) = Contents(map.keys) \ {k}
      /\ MapRemove(map, k).keys.versions = map.keys.versions
      /\ \A e \in Contents(map.keys) \ {k} :
           MapRemove(map, k).keys.elements[e] = map.keys.elements[e]
  BY DEF MapRemove, Remove, Contents
<1>2. ASSUME NEW k2 \in Key
      PROVE  Accounted(MapRemove(map, k).keys, k2, additions[k2], purges2[k2])
  <2>1. CASE k2 = k
    BY <1>1, <2>1 DEF Accounted
  <2>2. CASE k2 # k
    BY <1>1, <2>2 DEF Accounted, Safe
  <2> QED BY <2>1, <2>2
<1> QED BY <1>1, <1>2 DEF Safe

-----------------------------------------------------------------------------
\* Every tag that a map records for a key is an addition of that key.
Genuine(map, additions) ==
  \A k \in Contents(map.keys), r \in Replica :
    map.keys.elements[k][r] # Unseen => <<r, map.keys.elements[k][r]>> \in additions[k]

LEMMA MergeGenuine ==
  ASSUME NEW map, NEW remote, NEW id \in Replica, NEW additions,
         IsMap(map), IsMap(remote),
         Genuine(map, additions), Genuine(remote, additions)
  PROVE  Genuine(MapMerge(map, id, remote), additions)
<1>1. /\ MapMerge(map, id, remote).keys = Merge(map.keys, remote.keys)
      /\ IsSet(map.keys) /\ IsSet(remote.keys)
  BY MapMergeType DEF IsMap
<1>2. \A k \in Contents(Merge(map.keys, remote.keys)), r \in Replica :
        \/ /\ k \in Contents(map.keys)
           /\ Merge(map.keys, remote.keys).elements[k][r] = map.keys.elements[k][r]
        \/ /\ k \in Contents(remote.keys)
           /\ Merge(map.keys, remote.keys).elements[k][r] = remote.keys.elements[k][r]
  BY <1>1, MergeType
<1> QED BY <1>1, <1>2 DEF Genuine

LEMMA PutGenuine ==
  ASSUME NEW map, IsMap(map), NEW id \in Replica, NEW k \in Key, NEW v,
         NEW additions, NEW additions2, Genuine(map, additions),
         additions2[k] = additions[k] \cup {<<id, map.keys.versions[id] + 1>>},
         \A k2 \in Key \ {k} : additions2[k2] = additions[k2]
  PROVE  Genuine(MapPut(map, id, k, v), additions2)
<1> DEFINE old == map.keys
           new == Add(old, id, k)
<1>1. IsSet(old) /\ old.versions \in Versions /\ Contents(old) \subseteq Key
  BY DEF IsMap, IsSet, Contents
<1>2. MapPut(map, id, k, v).keys = new
  BY DEF MapPut
<1>3. /\ Contents(new) = Contents(old) \cup {k}
      /\ \A e \in Contents(old) \ {k} : new.elements[e] = old.elements[e]
      /\ new.elements[k][id] = old.versions[id] + 1
      /\ \A r \in Replica \ {id} :
           new.elements[k][r] = IF k \in Contents(old) THEN old.elements[k][r] ELSE Unseen
  <2>1. k \in Contents(old) => old.elements[k] \in Versions
    BY <1>1 DEF IsSet, Contents
  <2> HIDE DEF old
  <2> QED BY <1>1, <2>1 DEF Add, Contents, Versions, NoTags
<1> HIDE DEF old, new
<1>4. ASSUME NEW e \in Contents(new), NEW r \in Replica, new.elements[e][r] # Unseen
      PROVE  <<r, new.elements[e][r]>> \in additions2[e]
  <2>1. CASE e # k
    <3>1. /\ e \in Contents(old) /\ new.elements[e] = old.elements[e]
          /\ additions2[e] = additions[e]
      BY <1>1, <1>3, <2>1
    <3> QED BY <1>4, <3>1 DEF Genuine, old
  <2>2. CASE e = k /\ r = id
    BY <1>3, <2>2 DEF old
  <2>3. CASE e = k /\ r # id
    <3>1. k \in Contents(old) /\ new.elements[k][r] = old.elements[k][r]
      BY <1>3, <1>4, <2>3
    <3> QED BY <1>4, <2>3, <3>1 DEF Genuine, old
  <2> QED BY <2>1, <2>2, <2>3
<1> QED BY <1>2, <1>4 DEF Genuine

=============================================================================
