------------------------------- MODULE KVStore -------------------------------
(***************************************************************************)
(* The distributed key-value store: clients (src/client.cpp and the menu   *)
(* of main.cpp) that work on a local map and synchronise it with a server  *)
(* replica, and server replicas (src/handler.cpp) that merge what they     *)
(* receive and broadcast their merged state to every replica.              *)
(*                                                                         *)
(* A client is single-threaded: from the start of a sync to its end it     *)
(* does nothing else, so its map is the body of its POST.  At a server the *)
(* request handlers interleave; each call of Map::merge and Map::to_json   *)
(* is one step here.                                                       *)
(*                                                                         *)
(*   lookup --Connect--> posting --HandlePost--> merged --Broadcast-->     *)
(*   waiting --SyncSucceeds or SyncFails--> idle --StartSync--> lookup     *)
(*                                                                         *)
(* The load balancer may answer with any replica.  A value is written as   *)
(* the pair <<client, number of its put>>, so every put writes a value of  *)
(* its own: the code never looks into a value.                             *)
(***************************************************************************)
EXTENDS CRDTMap, FiniteSets

CONSTANTS
  Client,       \* client identifiers
  Server,       \* server replica identifiers
  Removable,    \* the pairs <<client, key>> of the removals users ask for
  MaxPuts,      \* bound: MaxPuts[c] is the number of puts of client c
  MaxRestarts,  \* bound: MaxRestarts[c] times client c exits and is started again
  MaxDown,      \* bound: servers that are down at the same time
  MaxLate,      \* bound: replica posts in flight that nobody waits for
  LookupMayFail \* whether the load balancer may be unreachable

ASSUME KVAssumption ==
  /\ Replica = Client \cup Server
  /\ Client \cap Server = {} /\ Server # {}
  /\ Removable \subseteq Client \X Key
  /\ MaxPuts \in [Client -> Nat]
  /\ \A c \in Client : {c} \X (1..MaxPuts[c]) \subseteq Value
  /\ MaxRestarts \in [Client -> Nat] /\ MaxDown \in Nat /\ MaxLate \in Nat
  /\ LookupMayFail \in BOOLEAN

VARIABLES
  cmap,      \* Client::m of each client
  smap,      \* handler::m of each server
  up,        \* whether the server process runs
  phase,     \* where each client is in Client::sync
  coord,     \* Client::myReplicaConfig: the replica that coordinates the sync
  body,      \* requestBody of the coordinator's broadcast
  waiting,   \* the replicas whose answer to the broadcast is outstanding
  oks,       \* successfulResponses of the broadcast
  late,      \* replica posts in flight whose sender gave up or crashed
  puts,      \* history: number of puts of each client
  restarts,  \* history: number of restarts of each client
  added,     \* history: the additions <<client, version>> of each key
  purged     \* history: those that a client had observed when it removed the key

store   == <<cmap, smap>>
sync    == <<phase, coord, body, waiting, oks>>
history == <<puts, restarts, added, purged>>
vars    == <<store, up, sync, late, history>>

\* handler.cpp:276: the coordinator's argument expectedResponses.
ExpectedResponses == 2

\* The value of coord[c] when no sync of c is under way: it is read only after
\* Connect has overwritten it.
NoCoord == CHOOSE s \in Server : TRUE

Phases == {"idle", "lookup", "posting", "merged", "waiting"}

\* Every map in the system: those of the clients, those of the servers and
\* those in the bodies of posts.
MapsHeld ==
  {cmap[c] : c \in Client} \cup {smap[s] : s \in Server}
    \cup {body[c] : c \in Client} \cup {p.body : p \in late}

TypeOK ==
  /\ cmap = [c \in Client |-> cmap[c]]
  /\ smap = [s \in Server |-> smap[s]]
  /\ body = [c \in Client |-> body[c]]
  /\ \A p \in late : p = [to |-> p.to, body |-> p.body] /\ p.to \in Server
  /\ \A m \in MapsHeld : IsMap(m)
  /\ up \in [Server -> BOOLEAN]
  /\ phase \in [Client -> Phases]
  /\ coord \in [Client -> Server]
  /\ waiting \in [Client -> SUBSET Server]
  /\ oks \in [Client -> 0..ExpectedResponses]
  /\ puts \in [Client -> Nat] /\ \A c \in Client : puts[c] <= MaxPuts[c]
  /\ restarts \in [Client -> Nat] /\ \A c \in Client : restarts[c] <= MaxRestarts[c]
  /\ added \in [Key -> SUBSET (Client \X Nat)]
  /\ purged \in [Key -> SUBSET (Client \X Nat)]

\* Every client is in its constructor's sync: its menu comes after that.
Init ==
  /\ cmap = [c \in Client |-> NewMap(c)]
  /\ smap = [s \in Server |-> NewMap(s)]
  /\ up = [s \in Server |-> TRUE]
  /\ phase = [c \in Client |-> "lookup"]
  /\ coord = [c \in Client |-> NoCoord]
  /\ body = [c \in Client |-> NewMap(c)]
  /\ waiting = [c \in Client |-> {}]
  /\ oks = [c \in Client |-> 0]
  /\ late = {}
  /\ puts = [c \in Client |-> 0]
  /\ restarts = [c \in Client |-> 0]
  /\ added = [k \in Key |-> {}]
  /\ purged = [k \in Key |-> {}]

-----------------------------------------------------------------------------
\* The client's local operations.

\* Menu option 1, put_kv_in_map.
Put(c, k) ==
  /\ phase[c] = "idle"
  /\ puts[c] < MaxPuts[c]
  /\ puts' = [puts EXCEPT ![c] = @ + 1]
  /\ cmap' = [cmap EXCEPT ![c] = MapPut(@, c, k, <<c, puts[c] + 1>>)]
  /\ added' = [added EXCEPT ![k] = @ \cup {<<c, cmap[c].keys.versions[c] + 1>>}]
  /\ UNCHANGED <<smap, up, sync, late, restarts, purged>>

\* Menu option 3, remove_key_from_map; nothing changes if the key is absent.
RemoveKey(c, k) ==
  /\ phase[c] = "idle"
  /\ <<c, k>> \in Removable
  /\ cmap' = [cmap EXCEPT ![c] = MapRemove(@, k)]
  /\ purged' = [purged EXCEPT ![k] =
                  @ \cup {t \in added[k] : t[2] <= cmap[c].keys.versions[t[1]]}]
  /\ UNCHANGED <<smap, up, sync, late, puts, restarts, added>>

\* Mutated: the constructor does not sync.
ClientRestartUnsynced(c) ==
  /\ phase[c] = "idle"
  /\ restarts[c] < MaxRestarts[c]
  /\ restarts' = [restarts EXCEPT ![c] = @ + 1]
  /\ cmap' = [cmap EXCEPT ![c] = NewMap(c)]
  /\ UNCHANGED <<smap, up, sync, late, puts, added, purged>>

\* Menu option 7 and a new start under the same id: the map is in memory only;
\* the constructor syncs before the menu is shown.
ClientRestart(c) ==
  /\ phase[c] = "idle"
  /\ restarts[c] < MaxRestarts[c]
  /\ restarts' = [restarts EXCEPT ![c] = @ + 1]
  /\ cmap' = [cmap EXCEPT ![c] = NewMap(c)]
  /\ phase' = [phase EXCEPT ![c] = "lookup"]
  /\ UNCHANGED <<smap, up, coord, body, waiting, oks, late, puts, added, purged>>

-----------------------------------------------------------------------------
\* Client::sync up to the POST.

\* Menu option 5.
StartSync(c) ==
  /\ phase[c] = "idle"
  /\ phase' = [phase EXCEPT ![c] = "lookup"]
  /\ UNCHANGED <<store, up, coord, body, waiting, oks, late, history>>

\* An iteration of the loop on can_connect_to_replica that ends it: the load
\* balancer names a replica and the GET to it succeeds.
Connect(c, s) ==
  /\ phase[c] = "lookup"
  /\ up[s]
  /\ coord' = [coord EXCEPT ![c] = s]
  /\ phase' = [phase EXCEPT ![c] = "posting"]
  /\ UNCHANGED <<store, up, body, waiting, oks, late, history>>

\* The syncs of the given clients are over, and so are their broadcasts.
EndOfSyncs(clients) ==
  /\ phase' = [c \in Client |-> IF c \in clients THEN "idle" ELSE phase[c]]
  /\ body' = [c \in Client |-> IF c \in clients THEN NewMap(c) ELSE body[c]]
  /\ waiting' = [c \in Client |-> IF c \in clients THEN {} ELSE waiting[c]]
  /\ oks' = [c \in Client |-> IF c \in clients THEN 0 ELSE oks[c]]
  /\ coord' = [c \in Client |-> IF c \in clients THEN NoCoord ELSE coord[c]]

\* The request to the load balancer throws and sync catches it.
LookupFails(c) ==
  /\ LookupMayFail
  /\ phase[c] = "lookup"
  /\ phase' = [phase EXCEPT ![c] = "idle"]
  /\ UNCHANGED <<store, up, coord, body, waiting, oks, late, history>>

\* The replica crashed after it answered the GET: the POST throws.
PostFails(c) ==
  /\ phase[c] = "posting"
  /\ ~up[coord[c]]
  /\ EndOfSyncs({c})
  /\ UNCHANGED <<store, up, late, history>>

-----------------------------------------------------------------------------
\* The coordinator: handle_post for a client's map.

\* Mutated: the broadcast is sent before the client's map is merged.
HandlePostUnmerged(c) ==
  /\ phase[c] = "posting"
  /\ up[coord[c]]
  /\ phase' = [phase EXCEPT ![c] = "merged"]
  /\ UNCHANGED <<store, up, coord, body, waiting, oks, late, history>>

\* The client's map is merged into the coordinator's.
HandlePost(c) ==
  /\ phase[c] = "posting"
  /\ up[coord[c]]
  /\ smap' = [smap EXCEPT ![coord[c]] = MapMerge(@, coord[c], cmap[c])]
  /\ phase' = [phase EXCEPT ![c] = "merged"]
  /\ UNCHANGED <<cmap, up, coord, body, waiting, oks, late, history>>

\* The coordinator's map is serialized and posted to every configured replica,
\* itself included, each from a thread of its own.
Broadcast(c) ==
  /\ phase[c] = "merged"
  /\ body' = [body EXCEPT ![c] = smap[coord[c]]]
  /\ waiting' = [waiting EXCEPT ![c] = Server]
  /\ oks' = [oks EXCEPT ![c] = 0]
  /\ phase' = [phase EXCEPT ![c] = "waiting"]
  /\ UNCHANGED <<store, up, coord, late, history>>

\* Mutated: every OK is counted.
DeliverPostUncapped(c, s) ==
  /\ s \in waiting[c]
  /\ up[s]
  /\ smap' = [smap EXCEPT ![s] = MapMerge(@, s, body[c])]
  /\ waiting' = [waiting EXCEPT ![c] = @ \ {s}]
  /\ oks' = [oks EXCEPT ![c] = @ + 1]
  /\ UNCHANGED <<cmap, up, phase, coord, body, late, history>>

\* A replica merges the broadcast (handle_post with from_replica) and its OK
\* is counted, up to the expected number.
DeliverPost(c, s) ==
  /\ s \in waiting[c]
  /\ up[s]
  /\ smap' = [smap EXCEPT ![s] = MapMerge(@, s, body[c])]
  /\ waiting' = [waiting EXCEPT ![c] = @ \ {s}]
  /\ oks' = [oks EXCEPT ![c] = IF @ < ExpectedResponses THEN @ + 1 ELSE @]
  /\ UNCHANGED <<cmap, up, phase, coord, body, late, history>>

\* Mutated: the failed request is never given up.
PostNeverRefused(c, s) == s \in waiting[c] /\ ~up[s] /\ UNCHANGED vars

\* The replica is down: the request throws and its future is ready.
PostRefused(c, s) ==
  /\ s \in waiting[c]
  /\ ~up[s]
  /\ waiting' = [waiting EXCEPT ![c] = @ \ {s}]
  /\ UNCHANGED <<store, up, phase, coord, body, oks, late, history>>

\* Mutated: a post without an answer is counted as an OK.
PostTimesOutCounted(c, s) ==
  /\ s \in waiting[c]
  /\ Cardinality(late) < MaxLate
  /\ late' = late \cup {[to |-> s, body |-> body[c]]}
  /\ waiting' = [waiting EXCEPT ![c] = @ \ {s}]
  /\ oks' = [oks EXCEPT ![c] = IF @ < ExpectedResponses THEN @ + 1 ELSE @]
  /\ UNCHANGED <<store, up, phase, coord, body, history>>

\* The request times out at the sender; the replica may still process it.
PostTimesOut(c, s) ==
  /\ s \in waiting[c]
  /\ Cardinality(late) < MaxLate
  /\ late' = late \cup {[to |-> s, body |-> body[c]]}
  /\ waiting' = [waiting EXCEPT ![c] = @ \ {s}]
  /\ UNCHANGED <<store, up, phase, coord, body, oks, history>>

\* The client's own POST times out (it was sent before the posts it waits for):
\* sync catches the exception. The coordinator goes on, for nobody.
ClientTimesOut(c) ==
  LET sent == {[to |-> s, body |-> body[c]] : s \in waiting[c]}
  IN /\ phase[c] = "waiting"
     /\ waiting[c] # {}
     /\ Cardinality(late \cup sent) <= MaxLate
     /\ late' = late \cup sent
     /\ EndOfSyncs({c})
     /\ UNCHANGED <<store, up, history>>

\* A replica merges a post nobody waits for any more.
DeliverLate(p) ==
  /\ p \in late
  /\ up[p.to]
  /\ smap' = [smap EXCEPT ![p.to] = MapMerge(@, p.to, p.body)]
  /\ late' = late \ {p}
  /\ UNCHANGED <<cmap, up, sync, history>>

\* Leaving broadcast_and_wait_async waits for every thread (the destructors of
\* the futures block); then the coordinator answers.
EndOfSync(c) ==
  /\ phase[c] = "waiting"
  /\ waiting[c] = {}
  /\ EndOfSyncs({c})
  /\ UNCHANGED <<smap, up, late, history>>

\* Mutated: the client does not merge the answer.
SyncSucceedsUnmerged(c) ==
  /\ oks[c] >= ExpectedResponses
  /\ EndOfSync(c)
  /\ UNCHANGED cmap

\* 200 with the coordinator's map as it is now, which the client merges.
SyncSucceeds(c) ==
  /\ oks[c] >= ExpectedResponses
  /\ EndOfSync(c)
  /\ cmap' = [cmap EXCEPT ![c] = MapMerge(@, c, smap[coord[c]])]

\* 500: the client only prints it.
SyncFails(c) ==
  /\ oks[c] < ExpectedResponses
  /\ EndOfSync(c)
  /\ UNCHANGED cmap

-----------------------------------------------------------------------------
\* run-stop.sh kills server processes and starts them again.

\* The map is lost, and so are the syncs the server coordinates; posts it has
\* already sent may still arrive.
Crash(s) ==
  LET mine == {c \in Client : coord[c] = s /\ phase[c] \in {"merged", "waiting"}}
      sent == UNION {{[to |-> r, body |-> body[c]] : r \in waiting[c] \ {s}} : c \in mine}
  IN /\ up[s]
     /\ Cardinality({r \in Server : ~up[r]}) < MaxDown
     /\ up' = [up EXCEPT ![s] = FALSE]
     /\ smap' = [smap EXCEPT ![s] = NewMap(s)]
     /\ \E arriving \in SUBSET sent :
          /\ Cardinality(late \cup arriving) <= MaxLate
          /\ late' = late \cup arriving
     /\ EndOfSyncs(mine)
     /\ UNCHANGED <<cmap, history>>

Restart(s) ==
  /\ ~up[s]
  /\ up' = [up EXCEPT ![s] = TRUE]
  /\ UNCHANGED <<store, sync, late, history>>

-----------------------------------------------------------------------------
ClientStep(c) ==
  \/ \E k \in Key : Put(c, k) \/ RemoveKey(c, k)
  \/ ClientRestart(c)
  \/ StartSync(c) \/ LookupFails(c) \/ PostFails(c)
  \/ \E s \in Server : Connect(c, s)

ServerStep(c) ==
  \/ HandlePost(c) \/ Broadcast(c)
  \/ SyncSucceeds(c) \/ SyncFails(c) \/ ClientTimesOut(c)
  \/ \E s \in Server : DeliverPost(c, s) \/ PostRefused(c, s) \/ PostTimesOut(c, s)

Next ==
  \/ \E c \in Client : ClientStep(c) \/ ServerStep(c)
  \/ \E p \in late : DeliverLate(p)
  \/ \E s \in Server : Crash(s) \/ Restart(s)

Spec == Init /\ [][Next]_vars

\* The steps of c's sync, from its start to its end. Each takes the sync further,
\* so that it ends if they are taken as long as there is one.
SyncStep(c) ==
  \/ StartSync(c) \/ HandlePost(c) \/ PostFails(c) \/ Broadcast(c)
  \/ SyncSucceeds(c) \/ SyncFails(c)
  \/ \E s \in Server : Connect(c, s) \/ PostRefused(c, s) \/ DeliverPost(c, s)

\* Every process that runs makes progress and every answer or failure of a
\* request arrives eventually; a crashed server is started again (run-stop.sh
\* restarts what it kills); and the users keep syncing. Nothing is assumed of
\* puts, removals, client restarts, crashes or timeouts.
Fairness ==
  /\ \A c \in Client : WF_vars(SyncStep(c))
  /\ \A s \in Server : WF_vars(Restart(s))

LiveSpec == Spec /\ Fairness

-----------------------------------------------------------------------------
\* Safety.

\* In every map a key has a register exactly when the key set contains it,
\* through every sequence of puts, removals and merges (map.hh keeps the two
\* containers in step by hand).
KeysMatchRegisters ==
  \A m \in MapsHeld : Contents(m.keys) = DOMAIN m.registers

\* A map has observed every addition that it records for a key: what the
\* remote-remove and remote-add rules of orset.hh take for granted.
TagsCovered ==
  \A m \in MapsHeld : \A k \in Contents(m.keys), r \in Replica :
    m.keys.elements[k][r] <= m.keys.versions[r]

\* Nobody has observed an addition of a client that the client itself has not,
\* whenever it can add: its next version is then new to the whole system, so
\* that a tag is unique (timestamp.hh).  A restarted client has to learn its own
\* version from a server first.
OwnerAhead ==
  \A c \in Client : restarts[c] = 0 \/ phase[c] = "idle" =>
    \A m \in MapsHeld : m.keys.versions[c] <= cmap[c].keys.versions[c]

\* Add wins: a map without a key has observed only those additions of it that
\* some client had observed when it removed the key.  No merge, in whatever
\* order the syncs interleave, loses an addition nobody removed.
NoLostPut ==
  \A m \in MapsHeld, k \in Key :
    ~Contains(m, k) =>
      {t \in added[k] : t[2] <= m.keys.versions[t[1]]} \subseteq purged[k]

\* Two registers of a key that have the same timestamp have the same value:
\* otherwise no merge ever reconciles them.
UniqueTimestamps ==
  \A m1, m2 \in MapsHeld : \A k \in DOMAIN m1.registers \cap DOMAIN m2.registers :
    TimestampEqual(m1.registers[k], m2.registers[k])
      => m1.registers[k].val = m2.registers[k].val

\* The value of a key is not older than the last addition that the key set
\* records for the client that wrote the value: keys and registers are merged
\* by different rules, and the register does not lag behind.
NewestOfItsWriter ==
  \A m \in MapsHeld : \A k \in DOMAIN m.registers :
    LET written == m.registers[k].val
    IN m.keys.elements[k][written[1]] <= written[2]

\* m1 has observed every addition that m2 has.
Covers(m1, m2) == \A r \in Replica : m2.keys.versions[r] <= m1.keys.versions[r]

\* Every counted OK is a replica that holds what the client posted, also when
\* other syncs change the coordinator and the replicas meanwhile: a 200 means
\* that ExpectedResponses replicas do (as long as servers do not crash).
AcksCounted ==
  \A c \in Client : phase[c] = "waiting" =>
    oks[c] <= Cardinality({s \in Server \ waiting[c] : Covers(smap[s], cmap[c])})

\* Whichever of a client and a server merges the other, the resulting keys are
\* the same.
MergeKeysCommute ==
  \A c \in Client, s \in Server :
    Contents(MapMerge(cmap[c], c, smap[s]).keys)
      = Contents(MapMerge(smap[s], s, cmap[c]).keys)

\* A removal that has observed every addition which another map records for the key
\* is applied by whoever merges the two, if the map without the key has heard of some
\* server: the servers' versions are the evidence that orset.hh asks for, since only
\* clients add and no map records an addition by a server. (A client whose syncs have
\* all failed has no such evidence.)
RemovalsApplied ==
  \A m1, m2 \in MapsHeld :
    (\E s \in Server : m2.keys.versions[s] # Unseen) =>
      \A k \in Contents(m1.keys) \ Contents(m2.keys) :
        (\A r \in Replica : m1.keys.elements[k][r] <= m2.keys.versions[r])
          => k \notin Contents(Merge(m1.keys, m2.keys))

-----------------------------------------------------------------------------
\* The abstract specification.

\* The additions of k that a map has observed.
Observed(map, k) == {t \in added[k] : t[2] <= map.keys.versions[t[1]]}

MapOf(p) == IF p \in Client THEN cmap[p] ELSE smap[p]

Keys == INSTANCE AddWins WITH
  Process <- Client \cup Server,
  seen    <- [p \in Client \cup Server |-> [k \in Key |-> Observed(MapOf(p), k)]],
  visible <- [p \in Client \cup Server |-> Contents(MapOf(p).keys)]

\* Whatever is lost, late, or interleaved, every step of the store is one that the
\* add-wins policy allows: additions get tags of their own; no process loses a key
\* of which it has observed an addition nobody removed; none that it has lost or
\* removed comes back to it without an addition that is new to it.
ImplementsAddWins == Keys!Spec

-----------------------------------------------------------------------------
\* What a step may never do.

\* No step takes a map back: unless the process that holds it restarts, it
\* forgets no version, and no register of a key it keeps gets an older timestamp.
Advances(old, new) ==
  /\ Covers(new, old)
  /\ \A k \in DOMAIN old.registers \cap DOMAIN new.registers :
       ~TimestampLess(new.registers[k], old.registers[k])

NeverBack ==
  [][/\ \A c \in Client : restarts'[c] = restarts[c] => Advances(cmap[c], cmap'[c])
     /\ \A s \in Server : up'[s] = up[s] => Advances(smap[s], smap'[s])]_vars

-----------------------------------------------------------------------------
\* Liveness.

MapsKept == {cmap[c] : c \in Client} \cup {smap[s] : s \in Server}

\* A sync that has connected ends, whatever fails meanwhile: sync and handle_post
\* wait for answers only, never for each other.
SyncReturns == \A c \in Client : phase[c] = "posting" ~> phase[c] = "idle"

SameKeys ==
  \A m1, m2 \in MapsKept : Contents(m1.keys) = Contents(m2.keys)

SameValues ==
  \A m1, m2 \in MapsKept : \A k \in DOMAIN m1.registers \cap DOMAIN m2.registers :
    m1.registers[k].val = m2.registers[k].val

\* No server crashes any more, and no post is in flight that nobody waits for.
Calm == late = {} /\ \A s \in Server : up[s]

\* Eventual consistency (README.md), of the keys: when the failures have ended and
\* the users go on syncing, all clients and servers eventually have the same keys
\* for good, although a crash forgets what it forgets and a post that arrives late
\* brings back an old state.
KeysConverge == <>[]Calm => <>[]SameKeys

\* Eventual consistency of the values.
ValuesConverge == <>[]Calm => <>[]SameValues
=============================================================================
