------------------------ MODULE LoadBalancerTheorems ------------------------
(***************************************************************************)
(* The search for a replica implements Discovery, for every set of         *)
(* clients, every configuration file that names servers, every width of    *)
(* the counter, and every number of servers that are down.                 *)
(***************************************************************************)
EXTENDS LoadBalancer, TLAPS

LEMMA SomeServer == 0 \in Server /\ Address(0) = Listening(0)
<1> DEFINE n == Len(PropertiesFile[1])
<1>1. Len(replicaConfigs) > 0 /\ n \in Nat
  BY LBAssumption
<1>2. Len(<<>>) = 0
  OBVIOUS
<1>3. /\ Len(PropertiesFile) > 1 /\ n = Len(Last(PropertiesFile))
      /\ replicaConfigs = [i \in 1..n |-> [ipAddress |-> PropertiesFile[1][i],
                                           port |-> Last(PropertiesFile)[i]]]
  BY <1>1, <1>2 DEF replicaConfigs, RetrieveReplicaConfigs
<1>4. Len(replicaConfigs) = n
  BY <1>1, <1>3
<1> HIDE DEF n
<1>5. 1 \in 1..n /\ 0 \in 0..(n - 1)
  BY <1>1, <1>4
<1>6. replicaConfigs[0 + 1] = [ipAddress |-> PropertiesFile[1][0 + 1],
                               port |-> Last(PropertiesFile)[0 + 1]]
  BY <1>3, <1>5
<1> QED BY <1>4, <1>5, <1>6 DEF Server, Address, Listening

TypeInv ==
  /\ phase = [c \in Client |-> phase[c]]
  /\ replica = [c \in Client |-> replica[c]]
  /\ up \in [Server -> BOOLEAN]

LEMMA TypeInit == Init => TypeInv
BY DEF Init, TypeInv

LEMMA TypeStep == TypeInv /\ [Next]_vars => TypeInv'
<1> SUFFICES ASSUME TypeInv, [Next]_vars PROVE TypeInv'
  OBVIOUS
<1>1. ASSUME NEW c \in Client, StartSync(c) \/ LookupStep(c) \/ EndSync(c) PROVE TypeInv'
  BY <1>1 DEF StartSync, LookupStep, EndSync, Goes, Name, Load, Store, Connected,
              Unavailable, TypeInv
<1>2. ASSUME NEW s \in Server, Crash(s) \/ Restart(s) PROVE TypeInv'
  BY <1>2 DEF Crash, Restart, TypeInv
<1>3. CASE UNCHANGED vars
  BY <1>3 DEF vars, TypeInv
<1> QED BY <1>1, <1>2, <1>3 DEF Next

-----------------------------------------------------------------------------
\* The state of Discovery that a state of the search implements.
FoundPhase == [c \in Client |->
                 IF phase[c] \in {"named", "loaded", "asking"} THEN "lookup" ELSE phase[c]]
FoundCoord == [c \in Client |-> CHOOSE s \in Server : Listening(s) = replica[c]]

LEMMA RefinesInit == Init => Found!Init
<1> SUFFICES ASSUME Init PROVE Found!Init
  OBVIOUS
<1>1. FoundPhase = [c \in Client |-> "idle"]
  BY DEF Init, FoundPhase
<1>2. \A c \in Client : (CHOOSE s \in Server : Listening(s) = replica[c]) \in Server
  BY SomeServer DEF Init
<1>3. FoundCoord \in [Client -> Server]
  BY <1>2 DEF FoundCoord
<1>4. up \in [Server -> BOOLEAN]
  BY DEF Init
<1> QED BY <1>1, <1>3, <1>4 DEF Found!Init, FoundPhase, FoundCoord

LEMMA RefinesStep == TypeInv /\ [Next]_vars => [Found!Next]_(Found!vars)
<1> SUFFICES ASSUME TypeInv, [Next]_vars PROVE [Found!Next]_(Found!vars)
  OBVIOUS
<1>1. ASSUME NEW c \in Client, Goes(c, "idle", "lookup"), UNCHANGED <<replica, up>>
      PROVE  Found!StartSync(c)
  <2>1. FoundPhase[c] = "idle" /\ FoundPhase' = [FoundPhase EXCEPT ![c] = "lookup"]
    BY <1>1 DEF Goes, FoundPhase, TypeInv
  <2>2. FoundCoord' = FoundCoord
    BY <1>1 DEF FoundCoord
  <2> QED BY <1>1, <2>1, <2>2 DEF Found!StartSync, FoundPhase, FoundCoord
<1>2. ASSUME NEW c \in Client, NEW from \in {"lookup", "named", "loaded", "asking"},
             NEW to \in {"lookup", "named", "loaded", "asking"},
             Goes(c, from, to), UNCHANGED <<replica, up>>
      PROVE  UNCHANGED Found!vars
  <2>1. FoundPhase' = FoundPhase
    BY <1>2 DEF Goes, FoundPhase, TypeInv
  <2>2. FoundCoord' = FoundCoord
    BY <1>2 DEF FoundCoord
  <2> QED BY <1>2, <2>1, <2>2 DEF Found!vars, FoundPhase, FoundCoord
<1>3. ASSUME NEW c \in Client, Connected(c)
      PROVE  \E s \in Server : Found!Connect(c, s)
  <2>1. PICK s \in Server : up[s] /\ Listening(s) = coord[c]
    BY <1>3 DEF Connected, Answers
  <2>2. FoundPhase[c] = "lookup" /\ FoundPhase' = [FoundPhase EXCEPT ![c] = "posting"]
    BY <1>3 DEF Connected, Goes, FoundPhase, TypeInv
  <2>3. /\ replica'[c] = coord[c] /\ \A d \in Client \ {c} : replica'[d] = replica[d]
        /\ up' = up
    BY <1>3 DEF Connected, TypeInv
  <2>4. (CHOOSE r \in Server : Listening(r) = replica'[c]) = s
    <3>1. \A r \in Server : Listening(r) = replica'[c] <=> r = s
      BY <2>1, <2>3, LBAssumption
    <3> QED BY <3>1
  <2>5. FoundCoord' = [FoundCoord EXCEPT ![c] = s]
    <3> DEFINE named(r) == CHOOSE x \in Server : Listening(x) = r
    <3>1. FoundCoord = [d \in Client |-> named(replica[d])]
      BY DEF FoundCoord
    <3>2. FoundCoord' = [d \in Client |-> named(replica'[d])]
      BY DEF FoundCoord
    <3>3. named(replica'[c]) = s
      BY <2>4
    <3> HIDE DEF named
    <3> QED BY <2>3, <3>1, <3>2, <3>3
  <2> QED BY <2>1, <2>2, <2>3, <2>5 DEF Found!Connect, FoundPhase, FoundCoord
<1>4. ASSUME NEW c \in Client, EndSync(c) PROVE Found!EndSync(c)
  <2>1. FoundPhase[c] = "posting" /\ FoundPhase' = [FoundPhase EXCEPT ![c] = "idle"]
    BY <1>4 DEF EndSync, Goes, FoundPhase, TypeInv
  <2>2. FoundCoord' = FoundCoord /\ up' = up
    BY <1>4 DEF EndSync, FoundCoord
  <2> QED BY <2>1, <2>2 DEF Found!EndSync, FoundPhase, FoundCoord
<1>5. ASSUME NEW s \in Server, Crash(s) \/ Restart(s) PROVE Found!Toggle(s)
  <2>1. up' = [up EXCEPT ![s] = ~up[s]] /\ FoundPhase' = FoundPhase /\ FoundCoord' = FoundCoord
    <3>1. UNCHANGED <<phase, replica>>
      BY <1>5 DEF Crash, Restart
    <3>2. FoundPhase' = FoundPhase /\ FoundCoord' = FoundCoord
      BY <3>1 DEF FoundPhase, FoundCoord
    <3>3. up' = [up EXCEPT ![s] = ~up[s]]
      <4>1. CASE Crash(s)
        BY <4>1 DEF Crash
      <4>2. CASE Restart(s)
        BY <4>2 DEF Restart
      <4> QED BY <1>5, <4>1, <4>2
    <3> QED BY <3>2, <3>3
  <2> QED BY <2>1 DEF Found!Toggle, FoundPhase, FoundCoord
<1>6. CASE UNCHANGED vars
  BY <1>6 DEF vars, Found!vars
<1>7. ASSUME NEW c \in Client, LookupStep(c)
      PROVE  UNCHANGED Found!vars \/ \E s \in Server : Found!Connect(c, s)
  BY <1>2, <1>3, <1>7 DEF LookupStep, Name, Load, Store, Unavailable
<1>8. ASSUME NEW c \in Client, StartSync(c) PROVE Found!StartSync(c)
  BY <1>1, <1>8 DEF StartSync
<1> QED BY <1>4, <1>5, <1>6, <1>7, <1>8 DEF Next, Found!Next

\* Whatever lookups the race for the counter loses, a sync goes on with a server that
\* main() started and that ran when the client was connected to it.
THEOREM SearchFindsRunning == Spec => FindsRunning
<1>1. Spec => []TypeInv
  BY TypeInit, TypeStep, PTL DEF Spec
<1> QED BY <1>1, RefinesInit, RefinesStep, PTL DEF Spec, FindsRunning, Found!Spec
=============================================================================
