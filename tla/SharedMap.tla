------------------------------ MODULE SharedMap ------------------------------
(***************************************************************************)
(* One server's map and the request handlers that share it (handler::m,    *)
(* src/handler.cpp): nothing locks it, and each handler runs on a thread   *)
(* of its own.  KVStore takes Map::merge and Map::to_json as single steps; *)
(* here each loop of theirs is a step, so that the steps of two handlers   *)
(* interleave. The loops that compare an entry with the remote one and     *)
(* then write it take a step for each reading and for each writing.        *)
(*                                                                         *)
(* Each client has at most one sync under way, and the handlers that work  *)
(* for it at this server run one after another:                            *)
(*   request  "client"   handle_post merges the client's map and           *)
(*                       serializes the result, which is posted to every   *)
(*                       replica;                                          *)
(*            "replica"  the handler of the server's post to itself merges *)
(*                       that serialized map; the other replica, Peer,     *)
(*                       merges it in one step, at any time;               *)
(*            "reply"    both have answered: the map is serialized again,  *)
(*                       for the client.                                   *)
(***************************************************************************)
EXTENDS CRDTMap

CONSTANTS
  Client,     \* client identifiers
  Here,       \* the identifier of the server
  Peer,       \* the identifier of the other replica
  Removable,  \* the pairs <<client, key>> of the removals users ask for
  MaxPuts     \* bound: MaxPuts[c] is the number of puts of client c

ASSUME SharedMapAssumption ==
  /\ Replica = Client \cup {Here, Peer} /\ Here # Peer
  /\ {Here, Peer} \cap Client = {}
  /\ Removable \subseteq Client \X Key
  /\ MaxPuts \in [Client -> Nat]
  /\ \A c \in Client : {c} \X (1..MaxPuts[c]) \subseteq Value

VARIABLES
  cmap,       \* Client::m of each client
  m,          \* handler::m of the server, shared by all handlers
  peer,       \* handler::m of the other replica
  request,    \* the request that is being handled for each client
  pc,         \* where its handler is in merge() or to_json()
  arg,        \* the argument of that merge()
  keys_copy,  \* merge()'s local variable: the elements of its copy of the keys
  todo,       \* the entries that its running loop has not come to yet
  entry,      \* the entry the loop is at: a replica in the version vector, or a key
  version,    \* the version it has read and not written yet
  json,       \* the result of that to_json(), as far as it has come
  delivered,  \* whether the other replica has merged the broadcast
  overlapped, \* history: whether a handler has used m in the midst of another's
              \* merge() or to_json()
  puts,       \* history: number of puts of each client
  added,      \* history: the additions <<client, version>> of each key
  purged      \* history: those that a client had observed when it removed the key

loop    == <<todo, entry, version>>
handler == <<request, pc, arg, keys_copy, loop, json, delivered>>
history == <<puts, added, purged>>
vars    == <<cmap, m, peer, handler, overlapped, history>>

\* The steps of merge() and of to_json(), in their order.
MergeSteps  == {"copy", "removes", "adds", "versions", "write_version", "erase",
                "registers", "compare", "write_value", "write_timestamp"}
ToJsonSteps == {"write_elements", "write_versions", "write_registers"}

\* A handler at one of these has begun a merge() or a to_json() and not ended it.
Midway == (MergeSteps \cup ToJsonSteps) \ {"copy", "write_elements"}

\* A client whose first sync could not reach the load balancer may put before it posts.
Init ==
  /\ cmap = [c \in Client |-> NewMap(c)]
  /\ m = NewMap(Here)
  /\ peer = NewMap(Peer)
  /\ request = [c \in Client |-> "none"]
  /\ pc = [c \in Client |-> "ready"]
  /\ arg = [c \in Client |-> NewMap(c)]
  /\ keys_copy = [c \in Client |-> {}]
  /\ todo = [c \in Client |-> {}]
  /\ entry = [c \in Client |-> Here]
  /\ version = [c \in Client |-> Unseen]
  /\ json = [c \in Client |-> NewMap(c)]
  /\ delivered = [c \in Client |-> FALSE]
  /\ overlapped = FALSE
  /\ puts = [c \in Client |-> 0]
  /\ added = [k \in Key |-> {}]
  /\ purged = [k \in Key |-> {}]

-----------------------------------------------------------------------------
\* The clients: single-threaded, as in KVStore.

Put(c, k) ==
  /\ request[c] = "none"
  /\ puts[c] < MaxPuts[c]
  /\ puts' = [puts EXCEPT ![c] = @ + 1]
  /\ cmap' = [cmap EXCEPT ![c] = MapPut(@, c, k, <<c, puts[c] + 1>>)]
  /\ added' = [added EXCEPT ![k] = @ \cup {<<c, cmap[c].keys.versions[c] + 1>>}]
  /\ UNCHANGED <<m, peer, handler, overlapped, purged>>

RemoveKey(c, k) ==
  /\ request[c] = "none"
  /\ <<c, k>> \in Removable
  /\ cmap' = [cmap EXCEPT ![c] = MapRemove(@, k)]
  /\ purged' = [purged EXCEPT ![k] =
                  @ \cup {t \in added[k] : t[2] <= cmap[c].keys.versions[t[1]]}]
  /\ UNCHANGED <<m, peer, handler, overlapped, puts, added>>

\* Client::sync posts the client's map.
Post(c) ==
  /\ request[c] = "none"
  /\ request' = [request EXCEPT ![c] = "client"]
  /\ pc' = [pc EXCEPT ![c] = "copy"]
  /\ arg' = [arg EXCEPT ![c] = cmap[c]]
  /\ UNCHANGED <<cmap, m, peer, keys_copy, loop, json, delivered, overlapped, history>>

-----------------------------------------------------------------------------
\* The steps of the handlers on m.

\* The handler that works for c uses m, between two points of its program.
Step(c, from, to) ==
  /\ pc[c] = from
  /\ pc' = [pc EXCEPT ![c] = to]
  /\ overlapped' = (overlapped \/ \E d \in Client \ {c} : pc[d] \in Midway)

\* Map::merge first copies the keys.
CopyKeys(c) ==
  /\ Step(c, "copy", "removes")
  /\ keys_copy' = [keys_copy EXCEPT ![c] = Contents(m.keys)]
  /\ UNCHANGED <<cmap, m, peer, request, arg, loop, json, delivered, history>>

RemotelyRemoved(c) ==
  /\ Step(c, "removes", "adds")
  /\ m' = [m EXCEPT !.keys.elements = ApplyRemoteRemoves(m.keys, arg[c].keys)]
  /\ UNCHANGED <<cmap, peer, request, arg, keys_copy, loop, json, delivered, history>>

\* Mutated: the remote versions are recorded, not the remote additions.
RemotelyAddedByVersion(c) ==
  LET remote == arg[c].keys
      adds   == [elements |-> [e \in Contents(remote) |-> remote.versions],
                 versions |-> remote.versions]
  IN /\ Step(c, "adds", "versions")
     /\ m' = [m EXCEPT !.keys.elements =
                ApplyRemoteAdds(m.keys.elements, m.keys.versions, adds)]
     /\ todo' = [todo EXCEPT ![c] = {r \in Replica : remote.versions[r] # Unseen}]
     /\ UNCHANGED <<cmap, peer, request, arg, keys_copy, entry, version, json, delivered, history>>

\* The versions are those of now: another handler may have merged its own. The
\* loop over the remote versions comes next.
RemotelyAdded(c) ==
  /\ Step(c, "adds", "versions")
  /\ m' = [m EXCEPT !.keys.elements =
             ApplyRemoteAdds(m.keys.elements, m.keys.versions, arg[c].keys)]
  /\ todo' = [todo EXCEPT ![c] = {r \in Replica : arg[c].keys.versions[r] # Unseen}]
  /\ UNCHANGED <<cmap, peer, request, arg, keys_copy, entry, version, json, delivered, history>>

\* _merge_versions() reads an entry of the local vector and takes the maximum ...
ReadVersion(c) ==
  /\ Step(c, "versions", "write_version")
  /\ \E r \in todo[c] :
       /\ todo' = [todo EXCEPT ![c] = @ \ {r}]
       /\ entry' = [entry EXCEPT ![c] = r]
       /\ version' = [version EXCEPT ![c] =
                        MergeVersions(m.keys.versions, arg[c].keys.versions)[r]]
  /\ UNCHANGED <<cmap, m, peer, request, arg, keys_copy, json, delivered, history>>

\* ... and writes it, whatever the entry has become meanwhile.
WriteVersion(c) ==
  /\ Step(c, "write_version", IF todo[c] = {} THEN "erase" ELSE "versions")
  /\ m' = [m EXCEPT !.keys.versions[entry[c]] = version[c]]
  /\ entry' = [entry EXCEPT ![c] = Here]
  /\ version' = [version EXCEPT ![c] = Unseen]
  /\ UNCHANGED <<cmap, peer, request, arg, keys_copy, todo, json, delivered, history>>

\* A step of merge() to the loop over the remote registers in left, or past it:
\* then a client's post is broadcast, a replica's answered.
RegistersLeft(c, from, left) ==
  /\ Step(c, from, IF left # {} THEN "registers"
                   ELSE IF request[c] = "client" THEN "write_elements" ELSE "ready")
  /\ todo' = [todo EXCEPT ![c] = left]

\* Mutated: the registers of removed keys stay.
RegistersKept(c) ==
  /\ RegistersLeft(c, "erase", DOMAIN arg[c].registers)
  /\ UNCHANGED <<cmap, m, peer, request, arg, keys_copy, entry, version, json, delivered, history>>

\* The registers of the copied keys that are keys no more.
RegistersErased(c) ==
  LET erased == keys_copy[c] \ Contents(m.keys)
  IN /\ RegistersLeft(c, "erase", DOMAIN arg[c].registers)
     /\ m' = [m EXCEPT !.registers = [k \in DOMAIN m.registers \ erased |-> m.registers[k]]]
     /\ UNCHANGED <<cmap, peer, request, arg, keys_copy, entry, version, json, delivered, history>>

\* The loop comes to the register of a key that is not here: it is created and
\* assigned the remote value.
CreateRegister(c) ==
  /\ Step(c, "registers", "compare")
  /\ \E k \in (todo[c] \cap Contents(m.keys)) \ DOMAIN m.registers :
       /\ m' = [m EXCEPT !.registers = [x \in DOMAIN @ \cup {k} |->
                  IF x = k THEN FirstAssign(Here, arg[c].registers[k].val) ELSE @[x]]]
       /\ todo' = [todo EXCEPT ![c] = @ \ {k}]
       /\ entry' = [entry EXCEPT ![c] = k]
  /\ UNCHANGED <<cmap, peer, request, arg, keys_copy, version, json, delivered, history>>

\* The loop comes to a register that is here.
FindRegister(c) ==
  /\ Step(c, "registers", "compare")
  /\ \E k \in todo[c] \cap DOMAIN m.registers :
       /\ todo' = [todo EXCEPT ![c] = @ \ {k}]
       /\ entry' = [entry EXCEPT ![c] = k]
  /\ UNCHANGED <<cmap, m, peer, request, arg, keys_copy, version, json, delivered, history>>

\* The key of the remote register is no key here.
PassRegister(c) ==
  /\ \E k \in todo[c] \ (DOMAIN m.registers \cup Contents(m.keys)) :
       RegistersLeft(c, "registers", todo[c] \ {k})
  /\ UNCHANGED <<cmap, m, peer, request, arg, keys_copy, entry, version, json, delivered, history>>

\* LWWRegister::merge compares the timestamps ...
OlderHere(c) ==
  /\ entry[c] \in DOMAIN m.registers
  /\ TimestampLess(m.registers[entry[c]], arg[c].registers[entry[c]])

KeepRegister(c) ==
  /\ ~OlderHere(c)
  /\ RegistersLeft(c, "compare", todo[c])
  /\ entry' = [entry EXCEPT ![c] = Here]
  /\ UNCHANGED <<cmap, m, peer, request, arg, keys_copy, version, json, delivered, history>>

ReplaceRegister(c) ==
  /\ OlderHere(c)
  /\ Step(c, "compare", "write_value")
  /\ UNCHANGED <<cmap, m, peer, request, arg, keys_copy, loop, json, delivered, history>>

\* ... and takes the value, then the timestamp.
WriteValue(c) ==
  /\ Step(c, "write_value", "write_timestamp")
  /\ m' = IF entry[c] \in DOMAIN m.registers
          THEN [m EXCEPT !.registers[entry[c]] =
                      [@ EXCEPT !.val = arg[c].registers[entry[c]].val]] ELSE m
  /\ UNCHANGED <<cmap, peer, request, arg, keys_copy, loop, json, delivered, history>>

WriteTimestamp(c) ==
  LET remote == arg[c].registers[entry[c]]
  IN /\ RegistersLeft(c, "write_timestamp", todo[c])
     /\ m' = IF entry[c] \in DOMAIN m.registers
             THEN [m EXCEPT !.registers[entry[c]] =
                              [@ EXCEPT !.seq = remote.seq, !.uid = remote.uid]] ELSE m
     /\ entry' = [entry EXCEPT ![c] = Here]
     /\ UNCHANGED <<cmap, peer, request, arg, keys_copy, version, json, delivered, history>>

\* Map::to_json writes the elements, the versions, then the registers.
WriteElements(c) ==
  /\ Step(c, "write_elements", "write_versions")
  /\ json' = [json EXCEPT ![c].keys.elements = m.keys.elements]
  /\ UNCHANGED <<cmap, m, peer, request, arg, keys_copy, loop, delivered, history>>

WriteVersions(c) ==
  /\ Step(c, "write_versions", "write_registers")
  /\ json' = [json EXCEPT ![c].keys.versions = m.keys.versions]
  /\ UNCHANGED <<cmap, m, peer, request, arg, keys_copy, loop, delivered, history>>

\* The serialized map is complete. Of a client's post: it is posted to this
\* server, whose handler begins, and to the other replica.
Broadcast(c) ==
  LET map == [json[c] EXCEPT !.registers = m.registers]
  IN /\ request[c] = "client"
     /\ Step(c, "write_registers", "copy")
     /\ request' = [request EXCEPT ![c] = "replica"]
     /\ json' = [json EXCEPT ![c] = map]
     /\ arg' = [arg EXCEPT ![c] = map]
     /\ delivered' = [delivered EXCEPT ![c] = FALSE]
     /\ UNCHANGED <<cmap, m, peer, keys_copy, loop, history>>

\* Of the reply: the client merges it.
Reply(c) ==
  LET map == [json[c] EXCEPT !.registers = m.registers]
  IN /\ request[c] = "reply"
     /\ Step(c, "write_registers", "ready")
     /\ cmap' = [cmap EXCEPT ![c] = MapMerge(@, c, map)]
     /\ request' = [request EXCEPT ![c] = "none"]
     /\ arg' = [arg EXCEPT ![c] = NewMap(c)]
     /\ json' = [json EXCEPT ![c] = NewMap(c)]
     /\ keys_copy' = [keys_copy EXCEPT ![c] = {}]
     /\ UNCHANGED <<m, peer, loop, delivered, history>>

\* The other replica merges the broadcast.
Deliver(c) ==
  /\ request[c] = "replica"
  /\ ~delivered[c]
  /\ peer' = MapMerge(peer, Peer, json[c])
  /\ delivered' = [delivered EXCEPT ![c] = TRUE]
  /\ UNCHANGED <<cmap, m, request, pc, arg, keys_copy, loop, json, overlapped, history>>

\* Both have answered.
Answered(c) ==
  /\ request[c] = "replica"
  /\ pc[c] = "ready"
  /\ delivered[c]
  /\ request' = [request EXCEPT ![c] = "reply"]
  /\ pc' = [pc EXCEPT ![c] = "write_elements"]
  /\ UNCHANGED <<cmap, m, peer, arg, keys_copy, loop, json, delivered, overlapped, history>>

-----------------------------------------------------------------------------
ClientStep(c) == Post(c) \/ \E k \in Key : Put(c, k) \/ RemoveKey(c, k)

MergeStep(c) ==
  \/ CopyKeys(c) \/ RemotelyRemoved(c) \/ RemotelyAdded(c)
  \/ ReadVersion(c) \/ WriteVersion(c)
  \/ RegistersErased(c) \/ CreateRegister(c) \/ FindRegister(c) \/ PassRegister(c)
  \/ KeepRegister(c) \/ ReplaceRegister(c) \/ WriteValue(c) \/ WriteTimestamp(c)

ToJsonStep(c) == WriteElements(c) \/ WriteVersions(c) \/ Broadcast(c) \/ Reply(c)

Next ==
  \E c \in Client :
    ClientStep(c) \/ MergeStep(c) \/ ToJsonStep(c) \/ Deliver(c) \/ Answered(c)

Spec == Init /\ [][Next]_vars

-----------------------------------------------------------------------------
\* The maps that are not in the midst of a change.
MapsAtRest ==
  {cmap[c] : c \in Client} \cup {peer}
    \cup (IF \E c \in Client : pc[c] \in Midway THEN {} ELSE {m})

\* Add wins (map.hh): a map without a key has observed only those additions of it
\* that some client had observed when it removed the key.
NoLostPut ==
  \A map \in MapsAtRest, k \in Key :
    ~Contains(map, k) =>
      {t \in added[k] : t[2] <= map.keys.versions[t[1]]} \subseteq purged[k]

\* As long as no two handlers have overlapped, step by step merges and
\* serializations are as good as atomic ones (KVStore): no addition is lost, and
\* the keys of every map are those that have a register.
SafeUnlessOverlapped ==
  ~overlapped =>
    /\ NoLostPut
    /\ \A map \in MapsAtRest : Contents(map.keys) = DOMAIN map.registers

\* Overlapping handlers may lose an addition but never make one up: whatever
\* handler::m and the maps written from it record for a key, also in the midst of a
\* merge, is an addition of that key by that client.
NoPhantom ==
  \A map \in {m, peer} \cup {cmap[c] : c \in Client} \cup {json[c] : c \in Client} :
    \A k \in Contents(map.keys), r \in Replica :
      map.keys.elements[k][r] # Unseen => <<r, map.keys.elements[k][r]>> \in added[k]

\* A client's own version stays ahead of everybody's, however the handlers
\* interleave: its next addition gets a tag of its own (timestamp.hh).
OwnerAhead ==
  \A map \in {m, peer} \cup {json[c] : c \in Client} \cup {arg[c] : c \in Client} :
    \A c \in Client : map.keys.versions[c] <= cmap[c].keys.versions[c]
=============================================================================
