# A TLA+ verification of the CRDT key-value store

TLA+ modules of the store, TLC configurations that model-check them, and theorems
that TLAPS proves for every number of clients, servers, keys and values. Paths
without a directory mean the file of that name in the repository.

- [1. The system](#1-the-system)
- [2. Modules, and how they correspond to the code](#2-modules-and-how-they-correspond-to-the-code)
- [3. Runs](#3-runs)
- [4. Bounds and fairness](#4-bounds-and-fairness)
- [5. Proofs](#5-proofs)
- [6. Where the code and its documents disagree](#6-where-the-code-and-its-documents-disagree)
- [7. What is not modelled](#7-what-is-not-modelled)
- [8. Plan](#8-plan)

## 1. The system

A client keeps the whole key-value map in memory, lets its user change it, and
synchronises it with a server when the user asks. A server merges what it is
sent and posts its merged map to every server. A load balancer tells a client
which server to use. Nothing is persistent.

```
   user -> Client --GET--> LoadBalancer              (which replica?)
             |   --GET--> Server s                   (is it up?)
             |   --POST map--> Server s: merge, serialize,
             |                     --POST map--> every Server, s too: merge, answer
             |   <--200 map or 500-- Server s        (2 OKs or not)
             merge
```

| Component | State | Operations | Modelled by |
|---|---|---|---|
| Timestamp (`core/timestamp.*`) | sequence number, uid, replica id | `<`, `==`, `update`, `copy`, JSON | `Timestamp`, `Json` |
| Register (`statebased/lwwregister.hh`) | value, timestamp | `assign`, `merge`, `replica_id`, JSON | `LWWRegister`, `Json` |
| Observed-remove set (`statebased/orset.hh`) | per element the last addition of each replica; the version vector | `add`, `remove`, `merge`, JSON | `ORSet`, `Json` |
| Map (`statebased/map.hh`) | an OR-set of keys; a register per key | `put`, `get`, `remove`, `merge`, JSON | `CRDTMap`, `SharedMap`, `Json` |
| Client (`client.cpp`, menu in `main.cpp`) | its map `m`, the server chosen | put, remove, sync, exit; the search for a server | `KVStore`, `LoadBalancer` |
| Server (`handler.cpp`) | its map `m`, shared by all its request handlers; per request the OK counter and the futures; a pool of threads | `handle_post` from a client and from a replica, `broadcast_and_wait_async`, `handle_get` | `KVStore`, `SharedMap`, `ServerPool`, `Report` |
| Load balancer (`load_balancer.cpp`) | a counter of lookups | `get_replica_information`: round robin | `LoadBalancer` |
| Comparison (`compareRegisters`, menu option 6) | none | compares registers of client and servers | `Json`, `Report` |
| Configuration (`config/`, `request_utilities.cpp`, `main.cpp`) | the addresses of the servers | read at start-up | `LoadBalancer`, as far as its readers must agree |
| Scripts (`run-stop.sh`) | process ids | kills and restarts up to two servers | `Crash`, `Restart` of `KVStore` and `LoadBalancer` |
| Counter (`statebased/gcounter.hh`), `Dbms`, stubs | | unused | no (section 7) |

**Interactions.** Clients and servers share nothing; they exchange whole maps by
HTTP, as JSON. Within a server all request handlers share `m`, without a lock, and the
threads of one pool; the lookups of all clients share the load balancer's counter, without a lock too. A client blocks in `sync`, a
coordinator blocks in `broadcast_and_wait_async` until every replica has
answered or failed: it stops counting at two OKs, but the destructors of its
futures wait for the rest.

**What is hard.** Syncs interleave at a server between its merge, its
serialization, its broadcast and its reply; merges arrive in any order and with
stale maps; a server that restarts is empty and meets replicas that know its past; a
post that timed out is still merged later; a client whose sync "failed" has been
merged by some servers; a removal leaves no tombstone and must be inferred from
version vectors; a register restarts its sequence number when its key is
removed; handlers on several threads change one map loop by loop and entry by entry; handlers wait for each
other on a bounded pool of threads; lookups race for a counter that wraps. `PROJECT.json` lists these hazards with their lines.

**What makes each component correct.**

- OR-set: an addition that nobody removed survives every merge (*add wins*); a
  removal that has seen every addition takes effect, given evidence of it; the result does not depend on
  the side or order of merges.
- Register: the order of timestamps is total on the writes that can meet: two
  different writes never have the same timestamp.
- Map: its two containers have the same keys, and a key's value does not lag
  behind its additions.
- Client: its next tag is new to the system.
- Server: an OK means that the replica has the data; a sync ends; servers never go
  back unless they crash.
- JSON: a map that is sent is the map that is received.
- Thread pool: there is always a thread for what others wait for.
- Load balancer: the replica that a sync goes on with runs; a client finds one if there is one.
- Comparison: a server that is reported in sync is in sync.
- Store: eventual consistency of keys and values; its keys behave as the abstract add-wins policy says.

## 2. Modules, and how they correspond to the code

```
Timestamp <- LWWRegister <-+                +- SharedMap <- MCSharedMap
                           +- CRDTMap <-----+- Json <-----------+
                   ORSet <-+                |                   |
                                            +- KVStore <------- Report <---+
                                                 |  ^                      |
                          AddWins <- (INSTANCE) -+  +- MCKVStore <--------MCReport

ServerPool        Discovery <- (INSTANCE) - LoadBalancer <- MCLoadBalancer

proofs: CRDTMapTheorems <-+- KVStoreTheorems <-+- SyncTheorems
                          |                    +- AddWinsTheorems <- ValueTheorems
                          +- SharedMapTheorems
        LoadBalancerTheorems        ServerPoolTheorems
```

- **`Timestamp`** has `operator<` (sequence numbers, then uids) and `operator==`.
  A timestamp is a record `[seq, uid]`. The third field of the code,
  `_replica_id`, is what `update()` copies to `_uid`: it is the identifier of the map
  that holds the register, so operators take it as a parameter.
- **`LWWRegister`**: `assign` and `merge`, and `FirstAssign` for construction,
  `replica_id(id)` and the first `assign` in one.
- **`ORSet`**: `add`, `remove` and the three phases of `merge` in their order. The
  nested maps of the code become functions to version numbers with `Unseen` (-1)
  for a missing entry, which is below all versions exactly as the code's
  "no entry or a smaller one". `RemovedRemotely` keeps the code's *evidence* clause:
  the remote versions must exceed a recorded one somewhere (`orset.hh:67`).
- **`CRDTMap`**: `put`, `remove`, `merge`. `Adopt` is the branch of `merge` that
  creates a register for a remote one: it is assigned the value first, and so
  stamped as a write of the adopting replica, then merged (`map.hh:99-105`).
- **`KVStore`** is the whole system.

  | Action | Code |
  |---|---|
  | `Put`, `RemoveKey` | menu options 1 and 3 |
  | `Init` | every client is in its constructor's sync (`client.cpp:18-21`), which comes before the menu |
  | `StartSync`, `ClientRestart` | menu option 5; exit and new start, whose constructor syncs |
  | `Connect`, `LookupFails` | the loop on `can_connect_to_replica`; the load balancer unreachable |
  | `HandlePost` | `m.merge` in the coordinator's `handle_post` |
  | `Broadcast` | `m.to_json` and the start of one thread per replica, the coordinator's own included |
  | `DeliverPost` | the replica's `handle_post` (`from_replica` branch) and the count of its OK |
  | `PostRefused`, `PostTimesOut` | the request throws: the replica is down; the answer is late |
  | `DeliverLate` | the replica's `handle_post` for a post nobody waits for |
  | `SyncSucceeds`, `SyncFails` | 200 with the map as it is *then*, merged by the client; 500 |
  | `PostFails`, `ClientTimesOut` | the client's POST throws: server gone; timeout |
  | `Crash`, `Restart` | `run-stop.sh`: a server is killed, its map and its syncs are gone; it is started, empty |

  `phase` is the program counter of a client's sync and of the coordinator's
  handler for it (a client has at most one). `late` holds the posts in flight whose sender gave
  up or crashed. `puts`, `restarts`, `added` and `purged` are history:
  `added[k]` is every addition `<<client, version>>` of the key, `purged[k]` those that some
  client had observed when it removed the key.

- **`AddWins`** is what the keys promise, without versions, messages or merges: processes observe
  additions; a process may be without a key only if each addition of it that it has observed was observed by
  somebody who removed the key; a key comes back only with an addition that is new to the process. `KVStore` instantiates
  it with `seen` = the additions that a map's version vector covers and `visible` = its keys; `ImplementsAddWins` is the
  refinement.
- **`Json`** has every `to_json` and every constructor from a `json::value`. A JSON object that is filled in a
  loop is null until its first field is set, and `as_object()` throws for a null: `JsonMap` keeps that
  difference, `Parses` says when the constructors throw. `AsInteger` is `as_integer()`: the low 32 bits with
  the sign extended to 64. `CompareRegisters` and `CompareJSONObjects` are the functions of
  `request_utilities.cpp`; they see a register's sequence number, uid and value but not its `replica_id`.
- **`Report`** puts them to work on the store: what `handle_get` answers and what menu option 6 then prints for a
  server.
- **`SharedMap`** is one server's map and the handlers that use it at the same time, with each loop of
  `Map::merge` and `Map::to_json` a step. The two loops of `merge` that compare an entry with the remote one and then write it, over the versions and
  over the registers, go entry by entry, with the reading a step and the writing another: `entry` is where the loop is, `todo` what it has not come
  to yet, in any order, as in an `unordered_map`, and `version` what `_merge_versions` has read and not yet written.

  | Action | Code |
  |---|---|
  | `CopyKeys` | `keys_copy` in `Map::merge` (`map.hh:80`) |
  | `RemotelyRemoved`, `RemotelyAdded` | the first two loops of `ORSet::merge` |
  | `ReadVersion`, `WriteVersion` | `_merge_versions` at one entry (`orset.hh:28`): the maximum is taken; it is assigned |
  | `RegistersErased` | the loop over the copied keys (`map.hh:85-90`) |
  | `CreateRegister`, `FindRegister`, `PassRegister` | the loop over the remote registers at one key (`map.hh:92-106`): it is adopted; it is here; it is no key here |
  | `KeepRegister`, `ReplaceRegister`, `WriteValue`, `WriteTimestamp` | `LWWRegister::merge` (`lwwregister.hh:61-66`): the comparison, either way; the value; the timestamp |
  | `WriteElements`, `WriteVersions`, `Broadcast`, `Reply` | the loops of `to_json`; with the last one the text is posted, or is the answer |
  | `Deliver`, `Answered` | the other replica merges the broadcast; both replicas have answered |

  For each client one handler at a time works at the server: first that of its post, then that of the server's
  post to itself, then the first one again for the reply. `overlapped` records whether a handler has ever used `m` in the midst of
  another's `merge` or `to_json`.
- **`ServerPool`** has the threads of each server's pool, and for each post which of them it keeps: `handle_post`
  keeps one while it waits for its continuation (`handler.cpp:290`), the continuation of a client's post keeps another
  while it broadcasts, and the post to the server itself wants a third.
- **`LoadBalancer`** has a lookup in three steps (`Name`: line 27; `Load` and `Store`: the increment of line 28), the GET
  that tells whether the replica runs, and the loop of `sync` around both. `replicaConfigs` is computed from the words of the configuration file
  by `RetrieveReplicaConfigs`, and `Listening` is what `main()` makes of the same file.
- **`Discovery`** is what `KVStore` assumes of that search: the one step `Connect`. `FindsRunning` is the
  refinement; `coord` of `Discovery` is the server at the address that `sync` has copied.

**Abstractions.** A value is the pair `<<client, number of its put>>`: the code never
looks into values, and distinct values make lost writes visible. In `KVStore` `Map::merge` and
`Map::to_json` are one step each: `SharedMap` shows what that leaves out, and that it is right while handlers do not
overlap. The load balancer may answer with any replica, which includes every order of round robin. A client's
map does not change between `StartSync` and the end of the sync, so `HandlePost`
reads `cmap[c]` for the request's body. Numbers are unbounded except in `Json` and in the load balancer's counter. `coord` is reset when a sync ends
because the code overwrites it before it reads it again. A client's timeout is modelled
while its coordinator waits for posts, the only place where it waits for long. A
broadcast body that a crash leaves behind reaches any subset of its replicas.
`SharedMap` has no crashes and no timeouts, which `KVStore` has. Two accesses at once *inside* one container are undefined behaviour (a rehash under an
iterator may do anything) and are not modelled. Three things are coarser than the code: the other loops of `merge` and those of `to_json` are one step each, a
timestamp's fields are written in one step, and a register is created and first assigned in one. A write to a register that another handler has
erased (undefined too) has no effect. For the violation found this is enough: its trace is one of the code whatever the grain. `NoPhantom` and
`OwnerAhead` hold because every single assignment of these loops keeps them, whatever map it finds, so they do not rest on the
grain either. Nothing is claimed of what overlapping handlers do to
each other's versions and registers: the one that compared first and writes last takes the other's entry back. `ServerPool` has no timeouts: a blocked pool would come
free after half a minute, and the question is whether it blocks. Its pool is that of the HTTP library: handlers, continuations and completions of
outgoing requests run on it, threads started with `std::async` do not.

Operators commented *Mutated* are seeded faults: each replaces the definition after
it in one run of `PROJECT.json` (`mutants`) and makes one property fail there,
which shows that the property depends on that line of the code.

## 3. Runs

| Run | Instance | Checks | Shows |
|---|---|---|---|
| `add_wins` | clients 5, 6; servers 0, 1; one put each; both remove any time; lookups may fail | `NoLostPut`, `MergeKeysCommute`, `AcksCounted`, `KeysMatchRegisters` | no interleaving of syncs loses an unremoved addition; whichever side merges, the keys are the same; a 200 means two replicas cover what was posted |
| `values_converge` | clients 5 (two puts) and 6 (one put) on one key, no removals | `UniqueTimestamps`, `NewestOfItsWriter`, `ReportsConverge` | without removals equal timestamps mean equal values and a register does not lag behind the key set, although the two are merged by different rules; menu option 6 ends up reporting every server in sync, to both clients |
| `failures` | client 5, two puts, removals; servers 0, 1 crash and restart for ever, one at a time; timeouts; a late post | `NoLostPut`, `TagsCovered`, `ReportTruthful`, `RemovalsApplied`, `NeverBack`, `ImplementsAddWins`, `SyncReturns`, `KeysConverge` | every step is one of the add-wins policy; nothing goes back; reports are true; a removal that has observed every addition recorded for the key is applied, once its map has heard of a server; a sync that has connected ends; once failures have ended, all have the same keys for good |
| `three_replicas` | client 5, one put, removals; servers 0, 1, 2; timeouts; a late post | `TypeOK`, `AcksCounted` | of three OKs two are counted, and each one counted, whichever comes first, is held by its replica. Only here can the cap of `handler.cpp:195` be reached with an answer still to come |
| `keys_converge` | client 5 puts, exits and is started again; client 6 removes; servers 0, 1 | `OwnerAhead`, `SurvivesTheWire`, `KeysConverge` | the constructor's sync gives a restarted client its version back before it can put; maps survive JSON; all end with the same keys |
| `shared_map` | client 5 puts once, client 6 removes; their handlers at server 0 interleave step by step; server 1 merges broadcasts at any time | `SafeUnlessOverlapped`, `NoPhantom`, `OwnerAhead` | atomic merges (`KVStore`) are right while handlers do not overlap; overlapping ones can lose (below) but never make up an addition or get ahead of a client in its own version |
| `find_replica` | clients 5, 6; servers 0, 1, 2, two of them down at a time; a counter of 2 bits | `FindsRunning`, `LoneClientConnects` | a sync goes on with a server that ran when the client was connected; a client that nobody interferes with finds a server that keeps running, although 4 is no multiple of 3 |
| `threads` | clients 5, 6; servers 0, 1, 2 with 7 threads each | `TypeOK`, `ThreadFree`, `PostAnswered` | coordinators wait for each other and for themselves, and every post is answered |
| `diverged_values` | client 5: put, sync, remove, put, sync for ever | `ValuesConverge` is **violated** | section 6 |
| `reused_tag` | client 5 restarts while the load balancer is unreachable | `OwnerAhead` is **violated** | section 6 |
| `torn_snapshot` | as `shared_map` | `NoLostPut` (of `SharedMap`) is **violated** | section 6 |
| `starved` | clients 5, 6; servers 0, 1, one of them down | `SomeoneConnects` is **violated** | section 6 |

All are complete searches of the state space; the passing ones have between 116 000
(`three_replicas`) and 2.8 million (`shared_map`) distinct states. Each property is stated in a comment where it is defined. For each property of each
passing run `PROJECT.json` has a seeded fault (`mutants`) that makes it fail in that run.

## 4. Bounds and fairness

- `KVStore`: `MaxPuts` (0 to 2 per client), `MaxRestarts` (0 or 1), `MaxDown` (0 or 1 servers down at
  once), `MaxLate` (0 or 1 posts in flight without a sender): guards of `Put`, `ClientRestart`, `Crash`,
  and of the timeouts. Syncs, removals, crashes and restarts of servers are unbounded in
  number. Every rule of the OR-set compares two replicas' knowledge of
  one element and its versions, so one key and two concurrent adders reach every
  branch. The version vector is shared by all keys; what two keys do to each other is covered by the theorems, which
  hold for every set of keys. Two servers are a coordinator and another replica, and both OKs are needed for a 200;
  `three_replicas` and `reused_tag` have three, where the expected two OKs can leave one out.
- `SharedMap`: one server's map and two handlers on it, the smallest number that can overlap. `MaxPuts` is 1 for client 5
  and 0 for client 6, which removes: an addition, and a removal that has observed it or not, of one key.
- `LoadBalancer`: `MaxDown` as above; `CounterBits` is 2 in place of 32, so that the counter wraps, at a number that is no
  multiple of the three servers.
- `ServerPool`: `Threads` is 7, the least that `ThreadFree` promises anything for with two clients; with 6 a
  server can block for good: two posts and their continuations keep four threads, and each of the two posts to the server
  itself keeps one and waits for a continuation. The library's pool has 40 threads, so 14 clients at one server are the first that could block it.
- `Json`: `IntLimit` and `WordRange` are 7 and 32 in place of 2^31 and 2^64; identifiers stay below 7.
- No symmetry is used: identifiers break the ties of timestamps. They are those of the repository
  (servers from 0, clients from 5).
- Deadlock is checked in every run.

`KVStore`'s `LiveSpec` assumes weak fairness of

- `SyncStep`, for each client: users go on syncing, without which nothing can converge; a running process
  goes on; and each request of a broadcast is answered or fails, as the HTTP client guarantees. Every step takes the sync
  further, so one fairness condition for all steps of a client's sync carries it to its end;
- `Restart`: `run-stop.sh` starts every server that it kills.

Nothing is assumed of puts, removals, client restarts, crashes, timeouts or late posts.
`KeysConverge`, `ValuesConverge` and `ReportsConverge` are promised only for behaviours in which all servers eventually stay up
and no post is late any more (`Calm`): a client
that is always sent to a server that crashes need never see an answer. That a client which looks for a replica takes `Connect` is what the round robin gives when all
servers are up, as every lookup is then named one that runs; while one is down it is an assumption, which `starved` shows to fail
for clients that keep asking at the same time. The liveness properties are not affected: `SyncReturns` starts after `Connect`, the others after `Calm`.

`LoadBalancer`'s `LiveSpec` assumes that the steps of each lookup, of the loop around it and the end of a sync are taken;
nothing of users, crashes or restarts, nor of the order in which lookups are served. `ServerPool`'s assumes that the pool runs what is
queued when it has a thread; nothing of clients.

## 5. Proofs

All theorems hold for every instance that satisfies the assumptions named in the modules (`KVAssumption`,
`ReplicaAssumption`, `SharedMapAssumption`, `JsonAssumption`, `LBAssumption`, `PoolAssumption`: disjoint sets of natural identifiers, at least
one server, and so on). Servers may crash and restart, and posts may time out and arrive late, where nothing else is said.

| Theorem | States | Further assumptions |
|---|---|---|
| `TypeCorrect`, `KeysAlwaysMatch`, `TagsAlwaysCovered` | `TypeOK`, `KeysMatchRegisters`, `TagsCovered` are invariants | |
| `NoMapGoesBack` | `NeverBack` | |
| `NoPutIsLost`, `OwnerAlwaysAhead` | `NoLostPut`, `OwnerAhead` are invariants | no client is restarted |
| `StoreImplementsAddWins` | `ImplementsAddWins`: the store implements `AddWins` | no client is restarted |
| `MapsSurviveTheWire` | `SurvivesTheWire` is an invariant | |
| `ReportsAreTruthful` | `ReportTruthful` is an invariant | finitely many keys |
| `OksAreHeld` | `AcksCounted` is an invariant | finitely many servers, none crashes |
| `ObservedRemovalsApplied` | `RemovalsApplied` is an invariant | |
| `RestartedOwnerAhead` | `OwnerAhead` is an invariant, *also when clients are restarted* | *reliable* (below) |
| `MergesCommute` | `MergeKeysCommute` is an invariant | *reliable* (below) |
| `TimestampsAreUnique`, `ValuesAreNewest` | `UniqueTimestamps`, `NewestOfItsWriter` are invariants | no removals, no client is restarted, server identifiers below client identifiers |
| `NothingMadeUp`, `OwnerStaysAhead` | `NoPhantom`, `OwnerAhead` of `SharedMap` are invariants | |
| `AtomicUnlessOverlapped` | `SafeUnlessOverlapped` is an invariant | |
| `PoolTypeCorrect`, `PoolNeverExhausted` | `TypeOK` and `ThreadFree` of `ServerPool` are invariants | |
| `SearchFindsRunning` | `FindsRunning`: the search implements `Discovery` | |

*Reliable* means: finitely many servers, at least the two whose OKs a 200 needs; none crashes; no post times out; the
load balancer can be reached whenever clients are restarted. The constants that say so are bounds of the model, and each of these
assumptions is needed: `reused_tag` has the client that is restarted and reaches nobody; a client all of whose posts timed out has heard of no server, so
that nobody takes over its removals, and merges need not commute with it; and a server that crashes loses what only it knew of the client that is started
again.

*The first three.* `Inv` says that the control state is typed and that every map held or in a message
is `WellFormed`: typed, `KeysMatch` and `Covered`. `KeysMatch` is
inductive: `MapMergeWellFormed` is the one place where the registers are compared with the keys
(the registers erased are those of the keys that the set merge removed, the ones adopted those of
the keys that it added). `Covered` (a set has observed what it records) is inductive too, because a merge
takes each tag from one of the two sets and its versions are at least those of both (`MergeCovered`).

*No map goes back.* Each operation of the code only advances the map it changes, and every action of `KVStore` changes the map of a
process by at most one of them (`MapsAdvanceStep`).

*Add wins.* `NoLostPut` speaks of keys that a map lacks and is not inductive: a merge can erase a
key whose additions *other* maps observed. `AddWinsInv` strengthens it to all keys:
`Accounted` says that each observed addition of a key is purged or is recorded, by
itself or by a later addition of the same client, in the tags of the key. The core is
`MergeAccounted`. Take an addition that one of the sets has observed and that is not purged. If the remote set
lacks the key, its own accounting says that it has not observed the addition; so the tag that records it
locally is beyond the remote versions, `RemovedRemotely` is false and the key stays. If the local
set lacks the key, the remote tag is beyond the local versions and the key is added. If both have it, the
later tag is kept, for which `Covered` is needed.
`HistoryObserved` and the first conjunct of `Safe` (nobody is ahead of a client) are needed for `Put`: the
new addition must be unknown to every other map, or those that lack the key would be unaccounted at once.
This is where restarts of clients must be excluded, and `reused_tag` shows that
it cannot be done without. `RemoveKey` purges exactly what the client has observed, which
includes everything that could become unaccounted.

*The refinement.* `ImplInv` adds to `AddWinsInv` that every tag a map records is an addition of that key (`MapsGenuine`). A merge
is then `Hear`: it forgets nothing, what it drops is purged (`NoLostPut`), and a key that it brings back has a tag
beyond the local versions, which by `MapsGenuine` is an addition of that key that the process had not observed. `Put` is `AddKey` because
`OwnerAhead` makes the addition new; a crash is `Forget`; everything else leaves `seen` and `visible` as they are.

*Observed removals.* The rule of `orset.hh:67` asks for a remote version beyond a recorded tag. Every map that has heard of a server has one: the
server's version is at least 0 (`OwnVersions`), and no map ever records an addition by a server (`TagsOfClients`). If it has also observed the
tags that are recorded for a key it lacks, the rule applies, whoever merges.

*JSON.* The constructor drops an element without timestamps, and `as_object()` throws for the null that such an element is sent as. So
the invariant `TaggedInv` is needed: every element of every map has a tag, and every map has a version. `AllMade` (in every state a step leads to, all
maps are those of before or what one operation makes of them) gives it from one lemma for each operation.

*Reports.* `CompareRegisters` compares registers. With `KeysMatch` from `Inv` equal registers mean equal keys; with finitely many keys equal
cardinalities and one inclusion mean equal sets, which is how `compareJSONObjects` goes about it.

*OKs.* `AckInv` follows one sync: after the merge the coordinator covers the client's map, so does the body of the broadcast, and each
replica that has merged the body. No map goes back (`NeverBack`'s argument, without crashes), so each counted OK
stays a holder; the client changes nothing meanwhile.

*Restarted clients.* `OwnerAhead` says nothing of a restarted client before its first sync has ended, so it is not
inductive. `Known(c)` says where the highest version of `c` is at each stage of `c`'s sync: at every server between syncs, at the
coordinator after the merge, then in the body of the broadcast and at those that have merged it. The constructor's sync ends with the coordinator's
map, which has it. What other processes do in the meantime cannot move it, because the versions and tags of `c` that a step leaves
anywhere but at `c` were there before (`Elsewhere`, `Derived`); only `Put` by `c` makes new ones. `Prompt` says that a sync that has reached
a server succeeds: each answer is an OK, so that the sync ends with 200.

*Merges commute.* `Disagreement` shows which of the code's rules decides for each key that only one of two maps has. The two
merges can differ only if a map has observed all tags of a key that it lacks and the rule of `orset.hh:67` finds no evidence of it, that is no
remote version beyond a recorded tag. Between a client and a server there always is: the version that the server has of itself is at least 0 and no
tag is ever recorded for a server (`OwnVersions`, `TagsOfClients`), so one sync gives the client evidence for good, and the server has its own.
What remains is a client that has not heard of any server (`Unheard`): `Fresh` says that nobody else has a tag of it, except what it is
posting and has not removed; and that it is not idle if it has been restarted, so that it adds and removes nothing before it has heard.

*Values.* `UniqueTimestamps` is not inductive: two maps that disagree on nothing may make a third that does. `ValueInv` relates every two
maps (`Agree`) and each map to its clients (`Ahead`): a register is never ahead of that of the client that stamped it, nor of that of
the client whose value it has. Then a client's next put has a timestamp of its own. The delicate step is `Adopt`: a replica that takes over a register first
stamps the value as a first write of its own. For a server the stamp is below the remote timestamp as its
identifier is below all clients'. For a client it can stay, with the value of another: that client has then
never put the key, and `Agree` holds because no other register with its stamp exists.

*Overlapping handlers.* Within the loops of a merge the map need not even have the same keys in its two containers, so
nothing of `WellFormed` survives but what is true of each container by itself. `Sound` collects that: each tag is an
addition of that key, no version is ahead of its client. `LoopSound` says the same of what a handler has read and not yet written: the
version is not ahead of its client, and the entry is one of the remote map's. Every step preserves both *whatever map
it finds*, which is why they hold however handlers overlap; `NothingMadeUp` and `OwnerStaysAhead` follow.

*Handlers that do not overlap.* `WholeInv` adds what an atomic merge needs and keeps (`Good`: `WellFormed`, `Accounted` and
`HistoryObserved`, those of `KVStore`) for all maps at rest, as long as `overlapped` is false. For the one handler that may be in the midst of its
loops, `MergedUpTo` names the map of before and the part of `MapMerge` that is done: the elements; all version entries but those in `todo` and the one read
and not written; the registers of all keys but those in `todo` and the one at hand. After the last entry the keys are
exactly those of the atomic merge and match the registers (`MergedGood`), by `MergeAccounted`; in `to_json` the part that is written is that of the
map (`Serialized`). A step of another handler at that moment sets `overlapped`, and steps of users and of the other replica do not touch the map.

*Threads.* `busy[s]` counts the jobs that keep a thread of `s` (`Inv`), of which each client has at most three. So with more than
`3 * Cardinality(Client)` threads one is free.

*The search.* `TypeInv` says that `coord` and `replica` are addresses of servers that `main()` started, whatever the race does to
the counter; `Connected` is then a step `Connect` of `Discovery`, everything before it a stutter.

*Only model-checked.* The liveness properties, as they need ENABLED: `KeysConverge`, `ReportsConverge`, `SyncReturns`,
`LoneClientConnects` and `PostAnswered`. Every invariant, action property and refinement that a passing run checks is a
theorem. `NoLostPut`, `ImplementsAddWins`, `UniqueTimestamps` and `NewestOfItsWriter` are neither proved nor checked for clients that are
restarted. `MergeKeysCommute` is not claimed where posts time out: the rule of `orset.hh:60-69` wants a remote version
beyond a recorded tag, and a client none of whose posts was answered may have none. `RemovalsApplied` is claimed of the maps that have heard of a server.

## 6. Where the code and its documents disagree

- `diverged_values`: `Map::remove` erases the register, so a put after it starts at sequence number 1
  again (`map.hh:51-56`). A client that puts, syncs, removes, puts another value and syncs
  has a register with the timestamp of the old value at the servers; neither side takes the other's. They
  keep different values for ever. With two puts before the first sync the new timestamp is even below the old one, and the client's own sync brings an
  older value back. `statebased/README.md:17-20` promises unique timestamps, `README.md:3`
  eventual consistency.
- `reused_tag`: a client that is started again and cannot reach the load balancer goes on with
  version 0 under its old identifier and reuses tags that `core/timestamp.hh:8-9` calls unique.
- `torn_snapshot`: `handler::m` is merged and serialized by several threads without a lock (`handler.cpp:270, 274, 275, 294`). A handler
  that writes the elements before and the versions after another one's merge sends a map that has observed an addition which it
  does not record: a removal that nobody asked for, to whoever merges it. `map.hh:11` promises "add wins". A lock around each
  `merge` and each `to_json` is enough (`SafeUnlessOverlapped`).
- `starved`: a lookup names a replica from the counter (`load_balancer.cpp:27`) and increments it in a second statement. With one
  of two servers down and two clients that keep asking, the reads and increments can interleave so that each client is named the
  server that is down every time. `README.md:3` promises high availability.

Not runs, as each is seen by reading a line or calling a function once:

- The coordinator posts to itself and counts that OK (`handler.cpp:181, 276`), so that a 200 stands for one *other* replica; the comment at
  `handler.cpp:20` asks to skip the own id. `AcksCounted` counts it as the code does.
- A removal by a client that has never heard of a server is ignored: nothing in its map is evidence of it. `orset.hh:60-66` documents the rule;
  the next sync that is answered gives the evidence.
- Two handlers that compare the same version or register before either writes it take it back: `orset.hh:28` and `lwwregister.hh:62-64` read and then
  write, without a lock. `SharedMap` has these steps (section 2), so that what it claims holds in spite of them.
- Two empty maps are reported as out of sync: their registers are null and not objects (`request_utilities.cpp:87`).
- A configuration without servers makes `load_balancer.cpp:27` divide by zero (`LBAssumption` excludes it).
- An answer other than 200 of the load balancer leaves `myReplicaConfig` as it was (`client.cpp:169-172`). The load balancer has no
  reason to give one: `get_replica_information` throws nothing for the requests clients send.
- When the body of a post does not parse, `handle_post` replies twice (`handler.cpp:287, 303`). `SurvivesTheWire` says that no such body is sent.

## 7. What is not modelled

- `GCounter` (`gcounter.hh`): no `ValueType` satisfies its static assertions (`is_base_of` is false for the integer types and they cannot
  be derived from), `increment` changes a member in a `const` function, and its include guard is that of `lwwregister.hh`. It
  does not compile, so it does nothing that could be modelled.
- `Dbms`: nothing calls it. `broadcast_all_and_wait_async`, `broadcast_request_to_replicas`,
  `initialize_replica_information`: never called. `handle_put`, `handle_delete`: fixed answers. `format_json`: layout of log lines.
- Start-up beyond the servers' file: the address files of clients and of the load balancer, menu texts, logging. Of the scripts, those
  that start processes or generate input.
- A body that does not parse: clients and servers only send what `to_json` wrote, and `SurvivesTheWire` says that it parses.
- The 100 ms sleep after a broadcast and the early end of the counting loop: the futures'
  destructors wait for all threads in any case.
- Undefined behaviour inside one access of a container by two threads (see `SharedMap`, section 2).
- Clients of `SharedMap` post to one server. One that has synced with the other replica in between could leave a register without a key
  (`map.hh:80`, in the hazards).
- A `handle_get` in the midst of a merge: its text is compared and dropped.

## 8. Plan

Done: all components that have behaviour of their own, the two refinements, and the theorems of section 5. What could follow:

1. `NoLostPut` and `ImplementsAddWins` with restarted clients, under the assumptions of `RestartedOwnerAhead`: a client
   that is started again observes nothing, so `seen` has to shrink as it does for a server that crashes.
2. `SharedMap` as a refinement of a map with atomic merges while handlers do not overlap; `WholeInv` has the mapping.
3. Clients of `SharedMap` that sync with the other replica in between.
4. Bounds of the thread pool with timeouts, for servers with more clients than threads.
