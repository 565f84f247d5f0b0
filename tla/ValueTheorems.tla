---------------------------- MODULE ValueTheorems ----------------------------
(***************************************************************************)
(* The values of the store are those of the newest puts as long as nobody  *)
(* removes a key and no client is restarted: both give a key that has been *)
(* put before a register whose sequence numbers start over.  Servers may   *)
(* crash.  Their identifiers are below those of the clients, as the        *)
(* repository assigns them, so that no register a server creates in a      *)
(* merge is newer than the one it merges.                                  *)
(***************************************************************************)
EXTENDS AddWinsTheorems

OnlyPuts ==
  /\ \A c \in Client : MaxRestarts[c] = 0
  /\ Removable = {}
  /\ \A s \in Server, c \in Client : s < c

\* The client that stamped a register of k and the one whose value it has have a
\* register of k that is not behind it.
Ahead(map, clients) ==
  \A k \in DOMAIN map.registers :
    LET reg == map.registers[k] IN
    /\ reg.seq >= 1
    /\ reg.val = <<reg.val[1], reg.val[2]>> /\ reg.val[2] \in Nat
    /\ \A u \in {reg.uid, reg.val[1]} :
         /\ u \in Client
         /\ k \in DOMAIN clients[u].registers
         /\ reg.seq <= clients[u].registers[k].seq

\* Two maps agree on a value with the same timestamp; the one that has recorded a
\* later addition by the writer of the other's value has a newer register.
Agree(m1, m2) ==
  \A k \in DOMAIN m1.registers \cap DOMAIN m2.registers :
    LET reg1 == m1.registers[k]
        reg2 == m2.registers[k]
    IN /\ TimestampEqual(reg1, reg2) => reg1.val = reg2.val
       /\ m1.keys.elements[k][reg2.val[1]] > reg2.val[2] => reg2.seq < reg1.seq

\* A client's additions are its puts.
CountedPuts(map, counts) == \A c \in Client : map.keys.versions[c] <= counts[c]

Sound(map) == WellFormed(map) /\ Tagged(map) /\ Ahead(map, cmap) /\ CountedPuts(map, puts)

ValueInv ==
  /\ ImplInv /\ TaggedInv
  /\ \A k \in Key : purged[k] = {}
  /\ \A m \in MapsHeld : Sound(m)
  /\ \A m1 \in MapsHeld, m2 \in MapsHeld : Agree(m1, m2)

-----------------------------------------------------------------------------
\* What a merge makes of a register.
LEMMA MergedRegister ==
  ASSUME NEW map, NEW remote, NEW id \in Replica, WellFormed(map), WellFormed(remote),
         \A k \in DOMAIN remote.registers : remote.registers[k].seq >= 1,
         NEW k \in DOMAIN MapMerge(map, id, remote).registers,
         k \in Contents(map.keys) => k \in Contents(MapMerge(map, id, remote).keys)
  PROVE  LET new == MapMerge(map, id, remote).registers[k]
             mine == map.registers[k]
             theirs == remote.registers[k]
         IN
         /\ new \in Register
         /\ k \in DOMAIN map.registers =>
              /\ mine \in Register /\ mine.seq <= new.seq
              /\ new = mine \/ (k \in DOMAIN remote.registers /\ new = theirs)
         /\ k \in DOMAIN remote.registers => theirs \in Register /\ theirs.seq <= new.seq
         /\ k \notin DOMAIN map.registers =>
              /\ k \in DOMAIN remote.registers
              /\ \/ new = theirs
                 \/ /\ new = FirstAssign(id, theirs.val) /\ theirs.seq = 1
                    /\ theirs.uid <= id
<1> DEFINE merged  == Merge(map.keys, remote.keys)
           kept    == DOMAIN map.registers \ (Contents(map.keys) \ Contents(merged))
           adopted == (DOMAIN remote.registers \ kept) \cap Contents(merged)
           result  == MapMerge(map, id, remote)
           new     == result.registers[k]
<1>1. /\ WellFormed(result) /\ result.keys = merged
      /\ \A x \in DOMAIN map.registers : map.registers[x] \in Register
      /\ \A x \in DOMAIN remote.registers : remote.registers[x] \in Register
      /\ new \in Register
      /\ DOMAIN map.registers = Contents(map.keys)
  BY MapMergeWellFormed DEF WellFormed, IsMap, KeysMatch
<1>2. k \in kept \cup adopted
  BY DEF MapMerge
<1>3. new = IF k \in adopted THEN Adopt(id, remote.registers[k])
            ELSE IF k \in DOMAIN remote.registers
                 THEN RegisterMerge(map.registers[k], remote.registers[k])
                 ELSE map.registers[k]
  BY <1>2 DEF MapMerge
<1>4. k \in DOMAIN map.registers <=> k \in kept
  BY <1>1, <1>2
<1> HIDE DEF new, merged, kept, result
<1>5. CASE k \in DOMAIN map.registers
  <2>1. new = IF k \in DOMAIN remote.registers
              THEN RegisterMerge(map.registers[k], remote.registers[k])
              ELSE map.registers[k]
    BY <1>3, <1>4, <1>5
  <2>2. map.registers[k].seq \in Int
    BY <1>1, <1>5, RegisterType
  <2>3. CASE k \notin DOMAIN remote.registers
    BY <1>1, <1>5, <2>1, <2>2, <2>3 DEF new, result
  <2>4. CASE k \in DOMAIN remote.registers
    <3>1. remote.registers[k].seq \in Int
      BY <1>1, <2>4, RegisterType
    <3> QED BY <1>1, <1>5, <2>1, <2>2, <2>4, <3>1
            DEF RegisterMerge, TimestampLess, new, result
  <2> QED BY <2>3, <2>4
<1>6. CASE k \notin DOMAIN map.registers
  <2>1. k \in DOMAIN remote.registers /\ new = Adopt(id, remote.registers[k])
    BY <1>2, <1>3, <1>4, <1>6
  <2>2. /\ remote.registers[k].seq \in Int /\ remote.registers[k].uid \in Int
        /\ remote.registers[k].seq >= 1 /\ id \in Int
    BY <1>1, <2>1, RegisterType, ReplicaAssumption
  <2> QED BY <1>1, <1>6, <2>1, <2>2
          DEF Adopt, RegisterMerge, TimestampLess, FirstAssign, new, result
<1> QED BY <1>5, <1>6

\* No merge removes a key when nobody has removed it.
LEMMA KeysKept ==
  ASSUME ValueInv, NEW m \in MapsHeld, NEW remote \in MapsHeld, NEW id \in Replica,
         NEW k \in Contents(m.keys)
  PROVE  k \in Contents(MapMerge(m, id, remote).keys)
<1> DEFINE merged == MapMerge(m, id, remote)
<1>1. /\ \A x \in MapsHeld : WellFormed(x) /\ Genuine(x, added)
      /\ added \in Additions /\ Tagged(m) /\ purged[k] = {} /\ k \in Key
  BY HeldMaps DEF ValueInv, TaggedInv, WellFormed, IsMap, IsSet, Contents
<1>2. \A x \in MapsHeld : Safe(x, cmap, added, purged)
  BY DEF ValueInv, ImplInv, AddWinsInv, MapsSafe, MapsHeld
<1>3. Safe(merged, cmap, added, purged)
  BY <1>1, <1>2, HistoryType, SafeMerge DEF ValueInv, ImplInv, AddWinsInv
<1>4. PICK r \in Replica : m.keys.elements[k][r] # Unseen
  BY <1>1 DEF Tagged, KeysTagged
<1> DEFINE n == m.keys.elements[k][r]
<1>5. <<r, n>> \in added[k]
  BY <1>1, <1>4 DEF Genuine
<1>6. n <= merged.keys.versions[r]
  <2>1. IsSet(m.keys) /\ IsSet(remote.keys) /\ merged.keys = Merge(m.keys, remote.keys)
        /\ Covered(m.keys)
    BY <1>1, MapMergeWellFormed DEF WellFormed, IsMap
  <2>2. n <= m.keys.versions[r] /\ m.keys.versions[r] <= merged.keys.versions[r]
    BY <2>1, MergeType DEF Covered
  <2>3. n \in Int /\ m.keys.versions[r] \in Int /\ merged.keys.versions[r] \in Int
    BY <2>1, MergeType, VersionsType DEF IsSet, Contents
  <2> HIDE DEF n, merged
  <2> QED BY <2>2, <2>3
<1>7. Accounted(merged.keys, k, added[k], purged[k])
  BY <1>1, <1>3 DEF Safe
<1> HIDE DEF merged, n
<1> QED BY <1>1, <1>5, <1>6, <1>7 DEF Accounted, merged

LEMMA AheadStays ==
  ASSUME NEW map, WellFormed(map), NEW clients, NEW clients2, Ahead(map, clients),
         \A c \in Client : WellFormed(clients[c]) /\ WellFormed(clients2[c]),
         \A c \in Client : \A k \in DOMAIN clients[c].registers :
           /\ k \in DOMAIN clients2[c].registers
           /\ clients[c].registers[k].seq <= clients2[c].registers[k].seq
  PROVE  Ahead(map, clients2)
<1>1. ASSUME NEW k \in DOMAIN map.registers, NEW u \in Client,
             k \in DOMAIN clients[u].registers,
             map.registers[k].seq <= clients[u].registers[k].seq
      PROVE  /\ k \in DOMAIN clients2[u].registers
             /\ map.registers[k].seq <= clients2[u].registers[k].seq
  <2>1. /\ map.registers[k] \in Register /\ clients[u].registers[k] \in Register
        /\ k \in DOMAIN clients2[u].registers
        /\ clients2[u].registers[k] \in Register
    BY <1>1 DEF WellFormed, IsMap
  <2>2. /\ map.registers[k].seq \in Int /\ clients[u].registers[k].seq \in Int
        /\ clients2[u].registers[k].seq \in Int
    BY <2>1, RegisterType
  <2> QED BY <1>1, <2>1, <2>2
<1> QED BY <1>1 DEF Ahead

\* A map that Agree relates to all that are held, itself included, given how its
\* registers and tags come about.
LEMMA MergeAgrees ==
  ASSUME ValueInv, NEW m \in MapsHeld, NEW remote \in MapsHeld, NEW id \in Replica,
         id \in Client => m = cmap[id],
         \A s \in Server, c \in Client : s < c
  PROVE  LET new == MapMerge(m, id, remote) IN
         /\ \A m2 \in MapsHeld : Agree(new, m2) /\ Agree(m2, new)
         /\ Agree(new, new)
         /\ CountedPuts(new, puts)
<1> DEFINE new == MapMerge(m, id, remote)
<1>1. /\ \A x \in MapsHeld : Sound(x) /\ WellFormed(x) /\ Ahead(x, cmap)
      /\ \A x \in MapsHeld, y \in MapsHeld : Agree(x, y)
      /\ Client \subseteq Replica /\ Replica = Client \cup Server
  BY KVAssumption DEF ValueInv, Sound
<1>2. \A x \in MapsHeld : \A k \in DOMAIN x.registers :
        /\ x.registers[k].seq \in Int /\ x.registers[k].seq >= 1
        /\ x.registers[k].uid \in Client /\ x.registers[k].uid \in Int
        /\ x.registers[k].val[2] \in Nat
        /\ x.registers[k].val[1] \in Replica
  <2> SUFFICES ASSUME NEW x \in MapsHeld, NEW k \in DOMAIN x.registers
               PROVE  /\ x.registers[k].seq \in Int /\ x.registers[k].seq >= 1
                      /\ x.registers[k].uid \in Client /\ x.registers[k].uid \in Int
                      /\ x.registers[k].val[2] \in Nat
                      /\ x.registers[k].val[1] \in Replica
    OBVIOUS
  <2>1. x.registers[k] \in Register
    BY <1>1 DEF WellFormed, IsMap
  <2> QED BY <1>1, <2>1, RegisterType DEF Ahead
\* What is new of a register of the merged map.
<1>3. ASSUME NEW k \in DOMAIN new.registers
      PROVE  LET reg == new.registers[k] IN
             /\ reg.seq \in Int
             /\ \A x \in {m, remote} : k \in DOMAIN x.registers => x.registers[k].seq <= reg.seq
             /\ \/ \E x \in {m, remote} : k \in DOMAIN x.registers /\ reg = x.registers[k]
                \/ /\ id \in Client /\ k \notin DOMAIN m.registers
                   /\ k \in DOMAIN remote.registers
                   /\ reg = FirstAssign(id, remote.registers[k].val)
                   /\ remote.registers[k].seq = 1
  <2>1. k \in Contents(m.keys) => k \in Contents(new.keys)
    BY KeysKept
  <2>2. id \in Server => \A c \in Client : ~(c <= id)
    <3>1. \A c \in Client : c \in Int /\ c \in Nat
      BY <1>1, ReplicaAssumption
    <3> QED BY <1>1, <3>1, ReplicaAssumption
  <2>3. \A x \in DOMAIN remote.registers : remote.registers[x].seq >= 1
    BY <1>2
  <2>4. new.registers[k] \in Register
    BY <1>1, <2>1, <2>3, MergedRegister
  <2> QED BY <1>1, <1>2, <2>1, <2>2, <2>3, <2>4, MergedRegister, RegisterType
<1> HIDE DEF new
\* The code takes one of the two registers, or stamps the other one's value anew.
<1>4. ASSUME NEW k \in DOMAIN new.registers
      PROVE  /\ \/ \E x \in {m, remote} : k \in DOMAIN x.registers /\ new.registers[k] = x.registers[k]
                \/ id \in Client /\ k \notin DOMAIN m.registers /\ new.registers[k].uid = id
             /\ \E x \in {m, remote} : /\ k \in DOMAIN x.registers
                                       /\ new.registers[k].seq = x.registers[k].seq
                                       /\ new.registers[k].val = x.registers[k].val
  <2>1. CASE \E x \in {m, remote} : k \in DOMAIN x.registers /\ new.registers[k] = x.registers[k]
    BY <2>1
  <2>2. CASE /\ id \in Client /\ k \notin DOMAIN m.registers
             /\ k \in DOMAIN remote.registers
             /\ new.registers[k] = FirstAssign(id, remote.registers[k].val)
             /\ remote.registers[k].seq = 1
    <3>1. /\ new.registers[k].uid = id /\ new.registers[k].seq = 1
          /\ new.registers[k].val = remote.registers[k].val
      BY <2>2 DEF FirstAssign
    <3> QED BY <2>2, <3>1
  <2> QED BY <1>3, <2>1, <2>2
<1> USE DEF new
<1>5. ASSUME NEW k \in DOMAIN new.registers, NEW w \in Replica
      PROVE  \E x \in {m, remote} : /\ k \in DOMAIN x.registers
                                    /\ new.keys.elements[k][w] = x.keys.elements[k][w]
  <2>1. /\ IsSet(m.keys) /\ IsSet(remote.keys) /\ new.keys = Merge(m.keys, remote.keys)
        /\ Contents(m.keys) = DOMAIN m.registers
        /\ Contents(remote.keys) = DOMAIN remote.registers
        /\ Contents(new.keys) = DOMAIN new.registers
    BY <1>1, MapMergeWellFormed DEF WellFormed, IsMap, KeysMatch
  <2> QED BY <2>1, MergeType
<1> HIDE DEF new
<1>6. ASSUME NEW m2 \in MapsHeld PROVE Agree(new, m2)
  <2> SUFFICES ASSUME NEW k \in DOMAIN new.registers, k \in DOMAIN m2.registers
               PROVE  LET reg == new.registers[k]
                          reg2 == m2.registers[k]
                      IN /\ TimestampEqual(reg, reg2) => reg.val = reg2.val
                         /\ new.keys.elements[k][reg2.val[1]] > reg2.val[2] => reg2.seq < reg.seq
    BY DEF Agree
  <2> DEFINE reg == new.registers[k]
             reg2 == m2.registers[k]
  <2>1. ASSUME TimestampEqual(reg, reg2) PROVE reg.val = reg2.val
    <3>1. CASE \E x \in {m, remote} : k \in DOMAIN x.registers /\ reg = x.registers[k]
      BY <1>1, <2>1, <3>1 DEF Agree
    <3>2. CASE id \in Client /\ k \notin DOMAIN m.registers /\ reg.uid = id
      <4>1. reg2.uid = id /\ k \in DOMAIN cmap[id].registers
        BY <1>1, <2>1, <3>2 DEF TimestampEqual, Ahead
      <4> QED BY <3>2, <4>1
    <3> QED BY <1>4, <3>1, <3>2
  <2>2. ASSUME new.keys.elements[k][reg2.val[1]] > reg2.val[2] PROVE reg2.seq < reg.seq
    <3>1. PICK x \in {m, remote} :
            /\ k \in DOMAIN x.registers
            /\ new.keys.elements[k][reg2.val[1]] = x.keys.elements[k][reg2.val[1]]
      BY <1>2, <1>5
    <3>2. reg2.seq < x.registers[k].seq
      BY <1>1, <2>2, <3>1 DEF Agree
    <3>3. /\ x.registers[k].seq <= reg.seq /\ reg.seq \in Int
          /\ x.registers[k].seq \in Int /\ reg2.seq \in Int
      BY <1>2, <1>3, <3>1
    <3> QED BY <3>2, <3>3
  <2> QED BY <2>1, <2>2
<1>7. ASSUME NEW m2 \in MapsHeld PROVE Agree(m2, new)
  <2> SUFFICES ASSUME NEW k \in DOMAIN new.registers, k \in DOMAIN m2.registers
               PROVE  LET reg == new.registers[k]
                          reg2 == m2.registers[k]
                      IN /\ TimestampEqual(reg2, reg) => reg2.val = reg.val
                         /\ m2.keys.elements[k][reg.val[1]] > reg.val[2] => reg.seq < reg2.seq
    BY DEF Agree
  <2> DEFINE reg == new.registers[k]
             reg2 == m2.registers[k]
  <2>1. TimestampEqual(reg2, reg) => reg2.val = reg.val
    BY <1>6 DEF Agree, TimestampEqual
  <2>2. PICK x \in {m, remote} :
          k \in DOMAIN x.registers /\ reg.seq = x.registers[k].seq /\ reg.val = x.registers[k].val
    BY <1>4
  <2> QED BY <1>1, <2>1, <2>2 DEF Agree
<1>8. Agree(new, new)
  <2> SUFFICES ASSUME NEW k \in DOMAIN new.registers
               PROVE  new.keys.elements[k][new.registers[k].val[1]] > new.registers[k].val[2]
                        => new.registers[k].seq < new.registers[k].seq
    BY DEF Agree
  <2> DEFINE reg == new.registers[k]
  <2>1. PICK x \in {m, remote} :
          k \in DOMAIN x.registers /\ reg.seq = x.registers[k].seq /\ reg.val = x.registers[k].val
    BY <1>4
  <2>2. Agree(new, x)
    BY <1>6
  <2> QED BY <2>1, <2>2 DEF Agree
<1>9. CountedPuts(new, puts)
  <2>1. /\ IsSet(m.keys) /\ IsSet(remote.keys)
        /\ new.keys.versions = MergeVersions(m.keys.versions, remote.keys.versions)
    <3>1. IsSet(m.keys) /\ IsSet(remote.keys)
      BY <1>1 DEF WellFormed, IsMap
    <3> QED BY <3>1 DEF new, MapMerge, Merge
  <2>2. \A c \in Client : new.keys.versions[c] \in {m.keys.versions[c], remote.keys.versions[c]}
    BY <1>1, <2>1, MergeVersionsType DEF IsSet
  <2> QED BY <1>1, <2>2 DEF CountedPuts, Sound
<1> QED BY <1>6, <1>7, <1>8, <1>9 DEF new

LEMMA PutAgrees ==
  ASSUME ValueInv, NEW c \in Client, NEW k \in Key
  PROVE  LET new == MapPut(cmap[c], c, k, <<c, puts[c] + 1>>) IN
         /\ \A m2 \in MapsHeld : Agree(new, m2) /\ Agree(m2, new)
         /\ Agree(new, new)
         /\ \A d \in Client : new.keys.versions[d] <= IF d = c THEN puts[c] + 1 ELSE puts[d]
         /\ \A x \in DOMAIN cmap[c].registers :
              x \in DOMAIN new.registers /\ cmap[c].registers[x].seq <= new.registers[x].seq
         /\ new.registers[k].uid = c /\ new.registers[k].val = <<c, puts[c] + 1>>
         /\ new.registers[k].seq >= 1
         /\ \A x \in DOMAIN new.registers \ {k} :
              x \in DOMAIN cmap[c].registers /\ new.registers[x] = cmap[c].registers[x]
         /\ k \in DOMAIN new.registers
<1> DEFINE old == cmap[c]
           new == MapPut(old, c, k, <<c, puts[c] + 1>>)
           reg == new.registers[k]
<1>1. /\ old \in MapsHeld /\ c \in Replica /\ puts[c] \in Nat
      /\ \A x \in MapsHeld : Sound(x) /\ WellFormed(x) /\ Ahead(x, cmap)
      /\ \A x \in MapsHeld, y \in MapsHeld : Agree(x, y)
      /\ Client \subseteq Replica
      /\ Inv
  BY KVAssumption DEF ValueInv, Sound, MapsHeld, TaggedInv, Inv, Control
<1>2. \A m \in MapsHeld : \A x \in DOMAIN m.registers :
        /\ m.registers[x].seq \in Int /\ m.registers[x].seq >= 1
        /\ m.registers[x].val[2] \in Nat /\ m.registers[x].val[1] \in Client
  <2> SUFFICES ASSUME NEW m \in MapsHeld, NEW x \in DOMAIN m.registers
               PROVE  /\ m.registers[x].seq \in Int /\ m.registers[x].seq >= 1
                      /\ m.registers[x].val[2] \in Nat /\ m.registers[x].val[1] \in Client
    OBVIOUS
  <2>1. m.registers[x] \in Register
    BY <1>1 DEF WellFormed, IsMap
  <2> QED BY <1>1, <2>1, RegisterType DEF Ahead
<1>3. /\ DOMAIN new.registers = DOMAIN old.registers \cup {k}
      /\ \A x \in DOMAIN old.registers \ {k} : new.registers[x] = old.registers[x]
      /\ reg.uid = c /\ reg.val = <<c, puts[c] + 1>>
      /\ k \in DOMAIN old.registers => reg.seq = old.registers[k].seq + 1
      /\ k \notin DOMAIN old.registers => reg.seq = 1
  BY DEF MapPut, Assign, FirstAssign
<1>4. /\ IsSet(old.keys) /\ old.keys.versions \in Versions
      /\ Contents(old.keys) = DOMAIN old.registers
      /\ Covered(old.keys)
  BY <1>1 DEF WellFormed, IsMap, IsSet, KeysMatch
<1> DEFINE n == old.keys.versions[c]
<1>5. n \in Int /\ n <= puts[c]
  BY <1>1, <1>4, VersionsType DEF Sound, CountedPuts
<1>6. new.keys.versions = [old.keys.versions EXCEPT ![c] = n + 1]
  BY DEF MapPut, Add
<1>7. /\ \A e \in Contents(old.keys) \ {k} : new.keys.elements[e] = old.keys.elements[e]
      /\ new.keys.elements[k][c] = n + 1
      /\ \A r \in Replica \ {c} :
           new.keys.elements[k][r] = IF k \in Contents(old.keys) THEN old.keys.elements[k][r]
                                                                 ELSE -1
  <2>1. k \in Contents(old.keys) => old.keys.elements[k] \in Versions
    BY <1>4 DEF IsSet, Contents
  <2>2. new.keys = Add(old.keys, c, k)
    BY DEF MapPut
  <2> HIDE DEF old, new
  <2> QED BY <1>1, <2>1, <2>2 DEF Add, Contents, Versions, NoTags, Unseen, n
<1> HIDE DEF new, n
<1>8. reg.seq \in Int /\ reg.seq >= 1
  BY <1>1, <1>2, <1>3
<1>9. \A x \in DOMAIN old.registers :
        x \in DOMAIN new.registers /\ old.registers[x].seq <= new.registers[x].seq
  BY <1>1, <1>2, <1>3
\* The register that is put is newer than those of the client's stamps and values.
<1>10. ASSUME NEW m2 \in MapsHeld, k \in DOMAIN m2.registers,
              c \in {m2.registers[k].uid, m2.registers[k].val[1]}
       PROVE  m2.registers[k].seq < reg.seq
  <2>1. k \in DOMAIN old.registers /\ m2.registers[k].seq <= old.registers[k].seq
    BY <1>1, <1>10 DEF Ahead
  <2>2. reg.seq = old.registers[k].seq + 1
    BY <1>3, <2>1
  <2>3. m2.registers[k].seq \in Int /\ old.registers[k].seq \in Int
    BY <1>1, <1>2, <1>10, <2>1
  <2> QED BY <2>1, <2>2, <2>3
<1>11. ASSUME NEW m2 \in MapsHeld PROVE Agree(new, m2)
  <2> SUFFICES ASSUME NEW x \in DOMAIN new.registers, x \in DOMAIN m2.registers
               PROVE  LET reg1 == new.registers[x]
                          reg2 == m2.registers[x]
                      IN /\ TimestampEqual(reg1, reg2) => reg1.val = reg2.val
                         /\ new.keys.elements[x][reg2.val[1]] > reg2.val[2]
                              => reg2.seq < reg1.seq
    BY DEF Agree
  <2>1. CASE x # k
    <3>1. /\ x \in DOMAIN old.registers /\ new.registers[x] = old.registers[x]
          /\ new.keys.elements[x] = old.keys.elements[x]
      BY <1>3, <1>4, <1>7, <2>1
    <3> QED BY <1>1, <3>1 DEF Agree
  <2>2. CASE x = k
    <3> DEFINE reg2 == m2.registers[k]
    <3>1. reg2.seq \in Int /\ reg2.val[2] \in Nat /\ reg2.val[1] \in Client
      BY <1>2, <2>2
    <3>2. ~TimestampEqual(reg, reg2)
      <4>1. ASSUME TimestampEqual(reg, reg2) PROVE FALSE
        <5>1. reg2.uid = c /\ reg2.seq = reg.seq
          BY <1>3, <4>1 DEF TimestampEqual
        <5> QED BY <1>8, <1>10, <2>2, <5>1
      <4> QED BY <4>1
    <3>3. ASSUME new.keys.elements[k][reg2.val[1]] > reg2.val[2] PROVE reg2.seq < reg.seq
      <4>1. CASE reg2.val[1] = c
        BY <1>10, <2>2, <4>1
      <4>2. CASE reg2.val[1] # c
        <5>1. new.keys.elements[k][reg2.val[1]] = IF k \in Contents(old.keys)
                                                  THEN old.keys.elements[k][reg2.val[1]] ELSE -1
          BY <1>1, <1>7, <3>1, <4>2
        <5>2. k \in Contents(old.keys)
          BY <3>1, <3>3, <5>1
        <5>3. reg2.seq < old.registers[k].seq
          BY <1>1, <1>4, <2>2, <3>3, <5>1, <5>2 DEF Agree
        <5>4. reg.seq = old.registers[k].seq + 1 /\ old.registers[k].seq \in Int
          BY <1>1, <1>2, <1>3, <1>4, <5>2
        <5> QED BY <3>1, <5>3, <5>4
      <4> QED BY <4>1, <4>2
    <3> QED BY <2>2, <3>2, <3>3
  <2> QED BY <2>1, <2>2
\* Nobody has recorded an addition that is later than this put.
<1>12. ASSUME NEW m2 \in MapsHeld, k \in DOMAIN m2.registers
       PROVE  ~(m2.keys.elements[k][c] > puts[c] + 1)
  <2>1. /\ IsSet(m2.keys) /\ k \in Contents(m2.keys)
        /\ m2.keys.elements[k][c] <= m2.keys.versions[c]
        /\ m2.keys.versions[c] <= puts[c]
    BY <1>1, <1>12 DEF WellFormed, IsMap, KeysMatch, Covered, Sound, CountedPuts
  <2>2. m2.keys.elements[k][c] \in Int /\ m2.keys.versions[c] \in Int
    BY <1>1, <2>1, VersionsType DEF IsSet, Contents
  <2> QED BY <1>1, <2>1, <2>2
<1>13. ASSUME NEW m2 \in MapsHeld PROVE Agree(m2, new)
  <2> SUFFICES ASSUME NEW x \in DOMAIN new.registers, x \in DOMAIN m2.registers
               PROVE  LET reg1 == new.registers[x]
                          reg2 == m2.registers[x]
                      IN /\ TimestampEqual(reg2, reg1) => reg2.val = reg1.val
                         /\ m2.keys.elements[x][reg1.val[1]] > reg1.val[2]
                              => reg1.seq < reg2.seq
    BY DEF Agree
  <2>1. TimestampEqual(m2.registers[x], new.registers[x])
          => m2.registers[x].val = new.registers[x].val
    BY <1>11 DEF Agree, TimestampEqual
  <2>2. CASE x # k
    BY <1>1, <1>3, <2>1, <2>2 DEF Agree
  <2>3. CASE x = k
    BY <1>3, <1>12, <2>1, <2>3
  <2> QED BY <2>2, <2>3
<1>14. Agree(new, new)
  <2> SUFFICES ASSUME NEW x \in DOMAIN new.registers
               PROVE  new.keys.elements[x][new.registers[x].val[1]] > new.registers[x].val[2]
                        => new.registers[x].seq < new.registers[x].seq
    BY DEF Agree
  <2>1. CASE x # k
    <3>1. Agree(new, old)
      BY <1>1, <1>11
    <3> QED BY <1>3, <2>1, <3>1 DEF Agree
  <2>2. CASE x = k
    BY <1>1, <1>3, <1>5, <1>7, <2>2
  <2> QED BY <2>1, <2>2
<1>15. \A d \in Client : new.keys.versions[d] <= IF d = c THEN puts[c] + 1 ELSE puts[d]
  BY <1>1, <1>4, <1>5, <1>6 DEF Versions, Sound, CountedPuts
<1> QED BY <1>3, <1>8, <1>9, <1>11, <1>13, <1>14, <1>15 DEF new

-----------------------------------------------------------------------------
LEMMA NewMapSound ==
  ASSUME NEW id \in Replica, NEW m2, NEW clients
  PROVE  /\ Agree(NewMap(id), m2) /\ Agree(m2, NewMap(id)) /\ Ahead(NewMap(id), clients)
BY DEF Agree, Ahead, NewMap

LEMMA NewMapCounted ==
  ASSUME NEW id \in Replica, NEW counts, \A c \in Client : counts[c] \in Nat
  PROVE  CountedPuts(NewMap(id), counts)
<1>1. \A c \in Client : NewMap(id).keys.versions[c] \in {-1, 0}
  BY BoundsType DEF NewMap, NewSet, NoTags, Unseen
<1> QED BY <1>1 DEF CountedPuts

LEMMA PutsGrow ==
  ASSUME Inv, [Next]_vars
  PROVE  /\ \A c \in Client : puts[c] \in Nat /\ puts'[c] \in Nat /\ puts[c] <= puts'[c]
<1>1. Inv'
  BY InvStep
<1>2. \A c \in Client : puts[c] \in Nat /\ puts'[c] \in Nat
  BY <1>1 DEF Inv, Control
<1>3. CASE \E c \in Client, k \in Key : Put(c, k)
  BY <1>2, <1>3 DEF Put, Inv, Control
<1>4. CASE puts' = puts
  BY <1>2, <1>4
<1>5. (\E c \in Client, k \in Key : Put(c, k)) \/ puts' = puts
  BY DEF Next, ClientStep, ServerStep, vars, RemoveKey, ClientRestart, StartSync, history,
         LookupFails, PostFails, Connect, HandlePost, Broadcast, SyncSucceeds, SyncFails,
         EndOfSync, ClientTimesOut, DeliverPost, PostRefused, PostTimesOut, DeliverLate,
         Crash, Restart
<1> QED BY <1>3, <1>4, <1>5

\* A step that makes one map, new, keeps the invariant if new is sound.
LEMMA OneNewMap ==
  ASSUME ValueInv, ImplInv', TaggedInv', [Next]_vars,
         \A k \in Key : purged'[k] = {},
         NEW new, new \in MapsHeld' => Ahead(new, cmap') /\ CountedPuts(new, puts'),
         \A m \in MapsHeld : Agree(new, m) /\ Agree(m, new), Agree(new, new),
         \A m \in MapsHeld' : m \in MapsHeld \/ m = new \/ \E id \in Replica : m = NewMap(id),
         \A c \in Client : \A k \in DOMAIN cmap[c].registers :
           /\ k \in DOMAIN cmap'[c].registers
           /\ cmap[c].registers[k].seq <= cmap'[c].registers[k].seq
  PROVE  ValueInv'
<1>1. /\ \A m \in MapsHeld : Sound(m) /\ WellFormed(m)
      /\ \A m \in MapsHeld' : WellFormed(m) /\ Tagged(m)
      /\ \A c \in Client : WellFormed(cmap[c]) /\ WellFormed(cmap'[c])
      /\ Inv /\ Inv' /\ Client \subseteq Replica
  <2>1. Inv /\ Inv'
    BY DEF ImplInv, ValueInv, TaggedInv
  <2>2. (\A m \in MapsHeld : WellFormed(m))'
    BY <2>1, HeldWellFormed, PTL
  <2> QED BY <2>1, <2>2, BoundsType
          DEF ValueInv, Sound, TaggedInv, Inv, MapsWellFormed
<1>2. ASSUME NEW m \in MapsHeld' PROVE Ahead(m, cmap') /\ CountedPuts(m, puts')
  <2>1. CASE m \in MapsHeld
    <3>1. Ahead(m, cmap')
      BY <1>1, <2>1, AheadStays DEF Sound
    <3>2. \A c \in Client : /\ m.keys.versions[c] \in Int /\ m.keys.versions[c] <= puts[c]
      BY <1>1, <2>1, WellFormedVersions DEF Sound, CountedPuts
    <3>3. CountedPuts(m, puts')
      BY <1>1, <3>2, PutsGrow DEF CountedPuts
    <3> QED BY <3>1, <3>3
  <2>2. ASSUME NEW id \in Replica, m = NewMap(id) PROVE CountedPuts(m, puts')
    BY <1>1, <2>2, NewMapCounted, PutsGrow
  <2> QED BY <2>1, <2>2, NewMapSound
<1>3. \A m \in MapsHeld' : Sound(m)'
  BY <1>1, <1>2 DEF Sound
<1>4. ASSUME NEW m1 \in MapsHeld', NEW m2 \in MapsHeld' PROVE Agree(m1, m2)
  BY NewMapSound DEF ValueInv
<1> QED BY <1>3, <1>4 DEF ValueInv

LEMMA HeldAfter ==
  ASSUME Posts, NEW new, \A q \in Process : MapOf(q)' \in MapsHeld \cup {new}
  PROVE  \A m \in MapsHeld' : m \in MapsHeld \/ m = new \/ \E id \in Replica : m = NewMap(id)
<1>1. \A c \in Client : cmap'[c] \in MapsHeld \cup {new}
  BY MapOfType
<1>2. \A s \in Server : smap'[s] \in MapsHeld \cup {new}
  BY MapOfType
<1>3. \A c \in Client : body'[c] \in MapsHeld \/ \E id \in Replica : body'[c] = NewMap(id)
  BY BoundsType DEF Posts, MapsHeld
<1>4. \A p \in late' : p.body \in MapsHeld
  BY DEF Posts, MapsHeld
<1> QED BY <1>1, <1>2, <1>3, <1>4 DEF MapsHeld

LEMMA ValueInit == OnlyPuts /\ Init => ValueInv
<1> SUFFICES ASSUME OnlyPuts, Init PROVE ValueInv
  OBVIOUS
<1>1. ImplInv /\ TaggedInv
  BY ImplInit, TaggedInit
<1>2. \A m \in MapsHeld : \E id \in Replica : m = NewMap(id)
  BY BoundsType DEF Init, MapsHeld
<1>3. ASSUME NEW id \in Replica PROVE CountedPuts(NewMap(id), puts)
  BY <1>3, NewMapCounted DEF Init
<1>4. \A m \in MapsHeld : Sound(m)
  BY <1>1, <1>2, <1>3, HeldWellFormed, NewMapSound DEF Sound, TaggedInv
<1>5. \A k \in Key : purged[k] = {}
  BY DEF Init
<1> QED BY <1>1, <1>2, <1>4, <1>5, NewMapSound DEF ValueInv

LEMMA ValueStep ==
  ASSUME OnlyPuts, ValueInv, [Next]_vars
  PROVE  ValueInv'
<1>1. /\ ImplInv /\ ImplInv' /\ TaggedInv /\ TaggedInv' /\ Inv /\ Control
      /\ \A c \in Client : MaxRestarts[c] = 0
      /\ \A s \in Server, c \in Client : s < c
  BY ImplStep, TaggedStep DEF OnlyPuts, ValueInv, ImplInv, AddWinsInv, Inv
<1>2. /\ \A m \in MapsHeld : Sound(m) /\ WellFormed(m)
      /\ \A m \in MapsHeld : \A k \in DOMAIN m.registers : m.registers[k].seq >= 1
      /\ \A m \in MapsHeld : \A k \in DOMAIN m.registers : m.registers[k].seq \in Int
      /\ \A c \in Client : cmap[c] \in MapsHeld
  <2>1. \A m \in MapsHeld : Sound(m) /\ WellFormed(m)
    BY DEF ValueInv, Sound
  <2>2. \A m \in MapsHeld : \A k \in DOMAIN m.registers : m.registers[k] \in Register
    BY <2>1 DEF WellFormed, IsMap
  <2> QED BY <2>1, <2>2, RegisterType DEF MapsHeld, Sound, Ahead
<1>3. ASSUME NEW c \in Client, NEW k \in Key, RemoveKey(c, k) PROVE FALSE
  BY <1>3 DEF RemoveKey, OnlyPuts
<1>4. ASSUME NEW c \in Client, NEW k \in Key, Put(c, k) PROVE ValueInv'
  <2> DEFINE new == MapPut(cmap[c], c, k, <<c, puts[c] + 1>>)
  <2>1. /\ cmap' = [cmap EXCEPT ![c] = new] /\ cmap'[c] = new
        /\ \A d \in Client \ {c} : cmap'[d] = cmap[d]
        /\ puts' = [puts EXCEPT ![c] = puts[c] + 1] /\ puts'[c] = puts[c] + 1
        /\ \A d \in Client \ {c} : puts'[d] = puts[d]
        /\ UNCHANGED <<smap, body, late, purged>>
    BY <1>1, <1>4 DEF Put, sync, Control
  <2> HIDE DEF new
  <2>2. /\ \A m2 \in MapsHeld : Agree(new, m2) /\ Agree(m2, new)
        /\ Agree(new, new)
        /\ \A d \in Client : new.keys.versions[d] <= IF d = c THEN puts[c] + 1 ELSE puts[d]
        /\ \A x \in DOMAIN cmap[c].registers :
             x \in DOMAIN new.registers /\ cmap[c].registers[x].seq <= new.registers[x].seq
        /\ new.registers[k].uid = c /\ new.registers[k].val = <<c, puts[c] + 1>>
        /\ new.registers[k].seq >= 1
        /\ \A x \in DOMAIN new.registers \ {k} :
             x \in DOMAIN cmap[c].registers /\ new.registers[x] = cmap[c].registers[x]
        /\ k \in DOMAIN new.registers
    BY PutAgrees DEF new
  <2>3. \A m \in MapsHeld' : m \in MapsHeld \/ m = new
    BY <2>1 DEF MapsHeld
  <2>4. CountedPuts(new, puts')
    BY <2>1, <2>2 DEF CountedPuts
  <2>5. \A d \in Client : \A x \in DOMAIN cmap[d].registers :
          /\ x \in DOMAIN cmap'[d].registers
          /\ cmap[d].registers[x].seq <= cmap'[d].registers[x].seq
    BY <1>2, <2>1, <2>2
  <2>6. Ahead(new, cmap')
    <3>1. Ahead(cmap[c], cmap')
      <4>1. \A d \in Client : WellFormed(cmap[d]) /\ WellFormed(cmap'[d])
        BY <1>1 DEF TaggedInv, Inv, MapsWellFormed
      <4>2. Ahead(cmap[c], cmap)
        BY <1>2 DEF Sound
      <4> QED BY <2>5, <4>1, <4>2, AheadStays
    <3>2. puts[c] + 1 \in Nat
      BY <1>1 DEF Control
    <3>3. new.registers[k].seq \in Int
      <4>1. WellFormed(cmap'[c])
        BY <1>1 DEF TaggedInv, Inv, MapsWellFormed
      <4>2. new.registers[k] \in Register
        BY <2>1, <2>2, <4>1 DEF WellFormed, IsMap
      <4> QED BY <4>2, RegisterType
    <3> SUFFICES ASSUME NEW x \in DOMAIN new.registers
                 PROVE  LET reg == new.registers[x] IN
                        /\ reg.seq >= 1
                        /\ reg.val = <<reg.val[1], reg.val[2]>> /\ reg.val[2] \in Nat
                        /\ \A u \in {reg.uid, reg.val[1]} :
                             /\ u \in Client
                             /\ x \in DOMAIN cmap'[u].registers
                             /\ reg.seq <= cmap'[u].registers[x].seq
      BY DEF Ahead
    <3>4. CASE x = k
      BY <2>1, <2>2, <3>2, <3>3, <3>4
    <3>5. CASE x # k
      <4>1. x \in DOMAIN cmap[c].registers /\ new.registers[x] = cmap[c].registers[x]
        BY <2>2, <3>5
      <4> QED BY <3>1, <4>1 DEF Ahead
    <3> QED BY <3>4, <3>5
  <2>7. \A x \in Key : purged'[x] = {}
    BY <2>1 DEF ValueInv
  <2> QED BY <1>1, <2>2, <2>3, <2>4, <2>5, <2>6, <2>7, OneNewMap
<1>5. ASSUME UNCHANGED <<added, purged>>, Posts, NEW new,
             \A q \in Process : MapOf(q)' \in MapsHeld \cup {new},
             new \in MapsHeld' => Ahead(new, cmap') /\ CountedPuts(new, puts'),
             \A m \in MapsHeld : Agree(new, m) /\ Agree(m, new), Agree(new, new),
             \A c \in Client : \A k \in DOMAIN cmap[c].registers :
               /\ k \in DOMAIN cmap'[c].registers
               /\ cmap[c].registers[k].seq <= cmap'[c].registers[k].seq
      PROVE  ValueInv'
  <2>1. \A m \in MapsHeld' : m \in MapsHeld \/ m = new \/ \E id \in Replica : m = NewMap(id)
    BY <1>5, HeldAfter
  <2>2. \A k \in Key : purged'[k] = {}
    BY <1>5 DEF ValueInv
  <2> QED BY <1>1, <1>5, <2>1, <2>2, OneNewMap
<1>6. CASE UNCHANGED <<added, purged>> /\ Posts /\ UNCHANGED store
  <2>1. PICK id \in Replica : id \in Server
    BY NoCoordType, BoundsType
  <2>2. /\ \A q \in Process : MapOf(q)' \in MapsHeld
        /\ cmap' = cmap
    BY <1>1, <1>6, HeldMaps DEF store, MapOf
  <2>3. ASSUME NewMap(id) \in MapsHeld' PROVE CountedPuts(NewMap(id), puts')
    BY <1>1, <2>1, PutsGrow, NewMapCounted
  <2> QED BY <1>2, <1>5, <1>6, <2>2, <2>3, NewMapSound
<1>7. ASSUME UNCHANGED <<added, purged>>, Posts,
             NEW p \in Process, NEW m \in MapsHeld, Merges(p, m)
      PROVE  ValueInv'
  <2> DEFINE old == MapOf(p)
             new == MapMerge(old, p, m)
  <2>1. /\ old \in MapsHeld /\ p \in Replica
        /\ p \in Client => old = cmap[p]
        /\ WellFormed(old) /\ WellFormed(m)
        /\ \A q \in Process : MapOf(q)' = IF q = p THEN new ELSE MapOf(q)
        /\ MapOf(p)' = new
        /\ \A c \in Client : cmap'[c] = IF c = p THEN new ELSE cmap[c]
    BY <1>1, <1>2, <1>7, HeldMaps, MapOfType DEF Merges
  <2>2. /\ \A x \in MapsHeld : Agree(new, x) /\ Agree(x, new)
        /\ Agree(new, new) /\ CountedPuts(new, puts)
    BY <1>1, <2>1, MergeAgrees
  <2>3. WellFormed(new)
    BY <2>1, MapMergeWellFormed
  <2> HIDE DEF new, old
  <2>4. CountedPuts(new, puts')
    <3>1. \A c \in Client : new.keys.versions[c] \in Int /\ new.keys.versions[c] <= puts[c]
      BY <2>2, <2>3, WellFormedVersions, BoundsType DEF CountedPuts
    <3> QED BY <1>1, <3>1, PutsGrow DEF CountedPuts
  <2>5. ASSUME NEW k \in DOMAIN new.registers
        PROVE  LET reg == new.registers[k]
                   mine == old.registers[k]
                   theirs == m.registers[k]
               IN
               /\ reg \in Register
               /\ k \in DOMAIN old.registers =>
                    /\ mine \in Register /\ mine.seq <= reg.seq
                    /\ reg = mine \/ (k \in DOMAIN m.registers /\ reg = theirs)
               /\ k \in DOMAIN m.registers => theirs \in Register /\ theirs.seq <= reg.seq
               /\ k \notin DOMAIN old.registers =>
                    /\ k \in DOMAIN m.registers
                    /\ \/ reg = theirs
                       \/ /\ reg = FirstAssign(p, theirs.val) /\ theirs.seq = 1
                          /\ theirs.uid <= p
    <3>1. k \in Contents(old.keys) => k \in Contents(new.keys)
      BY <2>1, KeysKept DEF new
    <3> QED BY <1>2, <2>1, <2>5, <3>1, MergedRegister DEF new
  <2>6. ASSUME NEW k \in DOMAIN old.registers PROVE k \in DOMAIN new.registers
    <3>1. k \in Contents(new.keys)
      BY <2>1, KeysKept DEF new, WellFormed, KeysMatch
    <3> QED BY <2>3, <3>1 DEF WellFormed, KeysMatch
  <2>7. \A c \in Client : \A k \in DOMAIN cmap[c].registers :
          /\ k \in DOMAIN cmap'[c].registers
          /\ cmap[c].registers[k].seq <= cmap'[c].registers[k].seq
    BY <1>2, <2>1, <2>5, <2>6
  <2>8. Ahead(new, cmap')
    <3>1. \A d \in Client : WellFormed(cmap[d]) /\ WellFormed(cmap'[d])
      BY <1>1 DEF TaggedInv, Inv, MapsWellFormed
    <3>2. Ahead(old, cmap') /\ Ahead(m, cmap')
      <4>1. Ahead(old, cmap) /\ Ahead(m, cmap)
        BY <1>2, <2>1 DEF Sound
      <4>2. \A x : WellFormed(x) /\ Ahead(x, cmap) => Ahead(x, cmap')
        BY <2>7, <3>1, AheadStays
      <4> QED BY <2>1, <4>1, <4>2
    <3> SUFFICES ASSUME NEW k \in DOMAIN new.registers
                 PROVE  LET reg == new.registers[k] IN
                        /\ reg.seq >= 1
                        /\ reg.val = <<reg.val[1], reg.val[2]>> /\ reg.val[2] \in Nat
                        /\ \A u \in {reg.uid, reg.val[1]} :
                             /\ u \in Client
                             /\ k \in DOMAIN cmap'[u].registers
                             /\ reg.seq <= cmap'[u].registers[k].seq
      BY DEF Ahead
    <3> DEFINE reg == new.registers[k]
               theirs == m.registers[k]
    <3>3. CASE k \in DOMAIN old.registers /\ reg = old.registers[k]
      BY <3>2, <3>3 DEF Ahead
    <3>4. CASE k \in DOMAIN m.registers /\ reg = theirs
      BY <3>2, <3>4 DEF Ahead
    <3>5. CASE /\ k \notin DOMAIN old.registers /\ k \in DOMAIN m.registers
               /\ reg = FirstAssign(p, theirs.val) /\ theirs.seq = 1 /\ theirs.uid <= p
      <4>1. reg.seq = 1 /\ reg.uid = p /\ reg.val = theirs.val
        BY <3>5 DEF FirstAssign
      <4>2. p \in Client
        <5>1. theirs.uid \in Client /\ theirs.uid \in Nat
          BY <3>1, <3>2, <3>5, BoundsType, ReplicaAssumption DEF Ahead
        <5>2. p \in Nat
          BY <2>1, ReplicaAssumption
        <5>3. p \notin Server
          BY <1>1, <3>5, <5>1, <5>2
        <5> QED BY <5>3 DEF Process
      <4>3. cmap'[p] = new
        BY <2>1, <4>2
      <4> QED BY <3>2, <3>5, <4>1, <4>2, <4>3 DEF Ahead
    <3> QED BY <2>5, <3>3, <3>4, <3>5
  <2>9. \A q \in Process : MapOf(q)' \in MapsHeld \cup {new}
    BY <1>1, <2>1, HeldMaps
  <2> QED BY <1>5, <1>7, <2>2, <2>4, <2>7, <2>8, <2>9
<1>8. ASSUME UNCHANGED <<added, purged>>, Posts, NEW s \in Server, StartsOver(s)
      PROVE  ValueInv'
  <2>1. \A q \in Process : MapOf(q)' \in MapsHeld \cup {NewMap(s)}
    BY <1>1, <1>8, HeldMaps DEF StartsOver
  <2>2. s \in Replica /\ \A c \in Client : cmap'[c] = cmap[c]
    BY <1>8, MapOfType, BoundsType DEF StartsOver
  <2>3. CountedPuts(NewMap(s), puts')
    BY <1>1, <2>2, PutsGrow, NewMapCounted
  <2> QED BY <1>2, <1>5, <1>8, <2>1, <2>2, <2>3, NewMapSound
<1> QED BY <1>1, <1>3, <1>4, <1>6, <1>7, <1>8, StepKinds

-----------------------------------------------------------------------------
\* Two registers of a key with the same timestamp have the same value.
THEOREM TimestampsAreUnique ==
  ASSUME OnlyPuts
  PROVE  Spec => []UniqueTimestamps
<1>1. Spec => []ValueInv
  BY ValueInit, ValueStep, PTL DEF Spec
<1>2. ValueInv => UniqueTimestamps
  BY DEF ValueInv, Agree, UniqueTimestamps
<1> QED BY <1>1, <1>2, PTL

\* The value of a key is never older than the last addition that is recorded for the
\* client that wrote it, although keys and registers are merged by different rules.
THEOREM ValuesAreNewest ==
  ASSUME OnlyPuts
  PROVE  Spec => []NewestOfItsWriter
<1>1. Spec => []ValueInv
  BY ValueInit, ValueStep, PTL DEF Spec
<1>2. ValueInv => NewestOfItsWriter
  <2> SUFFICES ASSUME ValueInv, NEW m \in MapsHeld, NEW k \in DOMAIN m.registers
               PROVE  m.keys.elements[k][m.registers[k].val[1]] <= m.registers[k].val[2]
    BY DEF NewestOfItsWriter
  <2> DEFINE written == m.registers[k].val
             n == m.keys.elements[k][written[1]]
  <2>1. /\ WellFormed(m) /\ Ahead(m, cmap) /\ Agree(m, m)
        /\ m.registers[k] \in Register
    BY DEF ValueInv, Sound, WellFormed, IsMap
  <2>2. written[1] \in Replica /\ written[2] \in Nat
    BY <2>1, BoundsType DEF Ahead
  <2>3. n \in Int
    <3>1. k \in Contents(m.keys) /\ IsSet(m.keys)
      BY <2>1 DEF WellFormed, IsMap, KeysMatch
    <3> QED BY <2>2, <3>1, VersionsType DEF IsSet, Contents
  <2>4. ~(n > written[2])
    <3>1. m.registers[k].seq \in Int
      BY <2>1, RegisterType
    <3> QED BY <2>1, <3>1 DEF Agree
  <2> HIDE DEF n, written
  <2>5. n <= written[2]
    BY <2>2, <2>3, <2>4
  <2> QED BY <2>5 DEF n, written
<1> QED BY <1>1, <1>2, PTL
=============================================================================
