---------------------------- MODULE LoadBalancer ----------------------------
(***************************************************************************)
(* The load balancer (src/load_balancer.cpp), the clients' search for a    *)
(* replica (Client::can_connect_to_replica) and the configuration file     *)
(* that the load balancer, the servers and main() read.                    *)
(*                                                                         *)
(* The load balancer answers each lookup on a thread of its own. It names  *)
(* the replica from numClientConnections (line 27) and increments that     *)
(* counter (line 28), with no lock: reading it, reading it again and       *)
(* writing it back are three steps of a lookup.                            *)
(*                                                                         *)
(*   idle --StartSync--> lookup --Name--> named --Load--> loaded --Store-->*)
(*   asking --Connected--> posting --EndSync--> idle                       *)
(*   asking --Unavailable--> lookup                                        *)
(***************************************************************************)
EXTENDS Integers, FiniteSets, SequencesExt

CONSTANTS
  Client,          \* client identifiers
  PropertiesFile,  \* config/server_properties.txt: lines of words
  CounterBits,     \* the width of the counter (32: unsigned int)
  MaxDown          \* bound: servers that are down at the same time

\* retrieveReplicaConfigsFromProperties(): the first line has the addresses, the
\* last of the others the ports; without as many of each there are no replicas.
RetrieveReplicaConfigs(lines) ==
  IF Len(lines) > 1 /\ Len(lines[1]) = Len(Last(lines))
  THEN [i \in 1..Len(lines[1]) |-> [ipAddress |-> lines[1][i], port |-> Last(lines)[i]]]
  ELSE <<>>

replicaConfigs == RetrieveReplicaConfigs(PropertiesFile)

\* The identifiers of the servers; main() makes server i listen at Listening(i).
Server == 0..(Len(replicaConfigs) - 1)

Listening(i) == [ipAddress |-> PropertiesFile[1][i + 1], port |-> Last(PropertiesFile)[i + 1]]

\* The address of the replica the load balancer knows as number i.
Address(i) == replicaConfigs[i + 1]

ASSUME LBAssumption ==
  /\ CounterBits \in Nat /\ MaxDown \in Nat
  /\ \A i \in {1, Len(PropertiesFile)} : Len(PropertiesFile[i]) \in Nat
  /\ 2^CounterBits >= Len(replicaConfigs) /\ Len(replicaConfigs) > 0
  /\ \A i, j \in Server : Listening(i) = Listening(j) => i = j

VARIABLES
  numClientConnections,
  phase,       \* where each client is in sync(), and the load balancer in its lookup
  replicaId,   \* the load balancer's local variable: the replica it names
  read,        \* the counter as the increment has read it
  coord,       \* Client::myReplicaConfig: the replica the client was named
  replica,     \* sync()'s copy of it, made when it is connected
  up           \* whether the server process runs

lookup == <<numClientConnections, replicaId, read>>
vars   == <<lookup, phase, coord, replica, up>>

Init ==
  /\ numClientConnections = 0
  /\ phase = [c \in Client |-> "idle"]
  /\ replicaId = [c \in Client |-> 0]
  /\ read = [c \in Client |-> 0]
  /\ coord = [c \in Client |-> Address(0)]
  /\ replica = [c \in Client |-> Address(0)]
  /\ up = [s \in Server |-> TRUE]

Goes(c, from, to) == phase[c] = from /\ phase' = [phase EXCEPT ![c] = to]

StartSync(c) == Goes(c, "idle", "lookup") /\ UNCHANGED <<lookup, coord, replica, up>>

-----------------------------------------------------------------------------
\* get_replica_information, for a lookup of client c.

Name(c) ==
  /\ Goes(c, "lookup", "named")
  /\ replicaId' = [replicaId EXCEPT ![c] = numClientConnections % Len(replicaConfigs)]
  /\ UNCHANGED <<numClientConnections, read, coord, replica, up>>

Load(c) ==
  /\ Goes(c, "named", "loaded")
  /\ read' = [read EXCEPT ![c] = numClientConnections]
  /\ UNCHANGED <<numClientConnections, replicaId, coord, replica, up>>

\* Mutated: the replica is kept, the counter stays (a sticky assignment).
StoreUnchanged(c) ==
  /\ Goes(c, "loaded", "asking")
  /\ numClientConnections' = read[c]
  /\ coord' = [coord EXCEPT ![c] = Address(replicaId[c])]
  /\ replicaId' = [replicaId EXCEPT ![c] = 0]
  /\ read' = [read EXCEPT ![c] = 0]
  /\ UNCHANGED <<replica, up>>

\* The increment wraps; the answer becomes the client's myReplicaConfig.
Store(c) ==
  /\ Goes(c, "loaded", "asking")
  /\ numClientConnections' = (read[c] + 1) % 2^CounterBits
  /\ coord' = [coord EXCEPT ![c] = Address(replicaId[c])]
  /\ replicaId' = [replicaId EXCEPT ![c] = 0]
  /\ read' = [read EXCEPT ![c] = 0]
  /\ UNCHANGED <<replica, up>>

-----------------------------------------------------------------------------
\* can_connect_to_replica: a GET to the named replica.

Answers(address) == \E s \in Server : up[s] /\ Listening(s) = address

\* Mutated: whatever the GET returns will do.
ConnectedAnyway(c) ==
  /\ Goes(c, "asking", "posting")
  /\ replica' = [replica EXCEPT ![c] = coord[c]]
  /\ UNCHANGED <<lookup, coord, up>>

Connected(c) ==
  /\ Answers(coord[c])
  /\ Goes(c, "asking", "posting")
  /\ replica' = [replica EXCEPT ![c] = coord[c]]
  /\ UNCHANGED <<lookup, coord, up>>

\* get_state catches the exception; the loop in sync goes round.
Unavailable(c) ==
  /\ ~Answers(coord[c])
  /\ Goes(c, "asking", "lookup")
  /\ UNCHANGED <<lookup, coord, replica, up>>

\* The rest of the sync, whatever comes of it.
EndSync(c) == Goes(c, "posting", "idle") /\ UNCHANGED <<lookup, coord, replica, up>>

-----------------------------------------------------------------------------
Crash(s) ==
  /\ up[s]
  /\ Cardinality({r \in Server : ~up[r]}) < MaxDown
  /\ up' = [up EXCEPT ![s] = FALSE]
  /\ UNCHANGED <<lookup, phase, coord, replica>>

Restart(s) ==
  /\ ~up[s]
  /\ up' = [up EXCEPT ![s] = TRUE]
  /\ UNCHANGED <<lookup, phase, coord, replica>>

LookupStep(c) == Name(c) \/ Load(c) \/ Store(c) \/ Connected(c) \/ Unavailable(c)

Next ==
  \/ \E c \in Client : StartSync(c) \/ LookupStep(c) \/ EndSync(c)
  \/ \E s \in Server : Crash(s) \/ Restart(s)

Spec == Init /\ [][Next]_vars

\* The steps of a lookup and of the loop that waits for it are taken when they
\* can be. Users need not sync, and crashed servers need not restart.
LiveSpec == Spec /\ \A c \in Client : WF_vars(LookupStep(c)) /\ WF_vars(EndSync(c))

-----------------------------------------------------------------------------
\* The search implements what the store assumes of it: Discovery, in which a
\* lookup is one step.
Found == INSTANCE Discovery WITH
  phase <- [c \in Client |->
              IF phase[c] \in {"named", "loaded", "asking"} THEN "lookup" ELSE phase[c]],
  coord <- [c \in Client |-> CHOOSE s \in Server : Listening(s) = replica[c]]

\* Whatever lookups are lost to each other, to the race for the counter or to its
\* wrapping, and whichever servers crash meanwhile: the server that a sync goes on
\* with is one that main() started, and ran when the client was connected to it.
FindsRunning == Found!Spec

\* A server that keeps running is found by a client that no other client's
\* lookups interfere with any more, although the counter wraps at a number that
\* is no multiple of the number of replicas and although others have crashed.
LoneClientConnects ==
  \A c \in Client :
    /\ \E s \in Server : <>[]up[s]
    /\ <>[](\A d \in Client \ {c} : phase[d] = "idle")
    => (phase[c] = "lookup" ~> phase[c] = "posting")

\* High availability (README.md): while a server keeps running, some client of
\* those that look for one is connected in the end.
SomeoneConnects ==
  (\E s \in Server : <>[]up[s])
    => ((\E c \in Client : phase[c] = "lookup") ~> (\E c \in Client : phase[c] = "posting"))
=============================================================================
