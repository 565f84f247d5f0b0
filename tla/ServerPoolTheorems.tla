-------------------------- MODULE ServerPoolTheorems --------------------------
(***************************************************************************)
(* Theorems about the thread pools, for every number of clients, servers   *)
(* and threads.                                                            *)
(***************************************************************************)
EXTENDS ServerPool, FiniteSetTheorems, TLAPS

Kinds == {"handle", "continue", "copy"}

\* Client c's post keeps a thread of s blocked, in one of three ways.
Holds(c, kind, s) ==
  \/ kind = "handle" /\ coord[c] = s /\ post[c] \in {"handling", "broadcasting", "returned"}
  \/ kind = "continue" /\ coord[c] = s /\ post[c] = "broadcasting"
  \/ kind = "copy" /\ copy[c][s] \in {"handling", "merged"}

Jobs(s) == {j \in Client \X Kinds : Holds(j[1], j[2], s)}

CopiesOfBroadcasts ==
  \A c \in Client, s \in Server : copy[c][s] # "none" => post[c] = "broadcasting"

\* The counter of a pool counts the jobs that keep a thread of it.
Inv ==
  /\ TypeOK
  /\ CopiesOfBroadcasts
  /\ \A s \in Server : busy[s] = Cardinality(Jobs(s))

-----------------------------------------------------------------------------
LEMMA KindsCount == IsFiniteSet(Kinds) /\ Cardinality(Kinds) = 3
<1>1. IsFiniteSet({}) /\ Cardinality({}) = 0
  BY FS_EmptySet
<1>2. IsFiniteSet({"handle"}) /\ Cardinality({"handle"}) = 1
  BY FS_Singleton
<1>3. IsFiniteSet({"handle"} \cup {"continue"}) /\ Cardinality({"handle"} \cup {"continue"}) = 2
  BY <1>2, FS_AddElement
<1>4. /\ IsFiniteSet(({"handle"} \cup {"continue"}) \cup {"copy"})
      /\ Cardinality(({"handle"} \cup {"continue"}) \cup {"copy"}) = 3
  BY <1>3, FS_AddElement
<1>5. Kinds = ({"handle"} \cup {"continue"}) \cup {"copy"}
  BY DEF Kinds
<1> QED BY <1>4, <1>5

\* A server has at most three jobs of each client.
LEMMA JobsBound ==
  ASSUME NEW s
  PROVE  /\ IsFiniteSet(Jobs(s))
         /\ Cardinality(Jobs(s)) \in Nat
         /\ Cardinality(Client) \in Nat
         /\ Cardinality(Jobs(s)) <= 3 * Cardinality(Client)
<1>1. /\ IsFiniteSet(Client \X Kinds)
      /\ Cardinality(Client \X Kinds) = Cardinality(Client) * Cardinality(Kinds)
  BY KindsCount, PoolAssumption, FS_Product
<1>2. Jobs(s) \subseteq Client \X Kinds
  BY DEF Jobs
<1>3. IsFiniteSet(Jobs(s)) /\ Cardinality(Jobs(s)) <= Cardinality(Client \X Kinds)
  BY <1>1, <1>2, FS_Subset
<1>4. Cardinality(Client) \in Nat /\ Cardinality(Jobs(s)) \in Nat
  BY <1>3, PoolAssumption, FS_CardinalityType
<1> QED BY <1>1, <1>3, <1>4, KindsCount

LEMMA InvInit == Init => Inv
<1> SUFFICES ASSUME Init PROVE Inv
  OBVIOUS
<1>1. TypeOK /\ CopiesOfBroadcasts
  BY PoolAssumption DEF Init, TypeOK, CopiesOfBroadcasts, PostStates, CopyStates
<1>2. ASSUME NEW s \in Server PROVE busy[s] = Cardinality(Jobs(s))
  <2>1. Jobs(s) = {}
    BY <1>2 DEF Init, Jobs, Holds
  <2> QED BY <2>1, <1>2, FS_EmptySet DEF Init
<1> QED BY <1>1, <1>2 DEF Inv

-----------------------------------------------------------------------------
\* How the jobs of s change in a step that its counter counts rightly.
Counted(s) ==
  \/ Jobs(s)' = Jobs(s) /\ busy'[s] = busy[s]
  \/ \E j : j \notin Jobs(s) /\ Jobs(s)' = Jobs(s) \cup {j} /\ busy'[s] = busy[s] + 1
  \/ \E j : j \in Jobs(s) /\ Jobs(s)' = Jobs(s) \ {j} /\ busy'[s] = busy[s] - 1

LEMMA CountedSuffices ==
  ASSUME NEW s \in Server, Inv, Counted(s)
  PROVE  busy'[s] = Cardinality(Jobs(s)') /\ busy'[s] >= 0
<1>1. IsFiniteSet(Jobs(s)) /\ Cardinality(Jobs(s)) \in Nat /\ busy[s] = Cardinality(Jobs(s))
  BY JobsBound DEF Inv
<1>2. CASE Jobs(s)' = Jobs(s) /\ busy'[s] = busy[s]
  BY <1>1, <1>2
<1>3. ASSUME NEW j, j \notin Jobs(s), Jobs(s)' = Jobs(s) \cup {j}, busy'[s] = busy[s] + 1
      PROVE  busy'[s] = Cardinality(Jobs(s)') /\ busy'[s] >= 0
  BY <1>1, <1>3, FS_AddElement
<1>4. ASSUME NEW j, j \in Jobs(s), Jobs(s)' = Jobs(s) \ {j}, busy'[s] = busy[s] - 1
      PROVE  busy'[s] = Cardinality(Jobs(s)') /\ busy'[s] >= 0
  <2>1. Jobs(s) # {}
    BY <1>4
  <2>2. IsFiniteSet(Jobs(s) \ {j}) /\ Cardinality(Jobs(s) \ {j}) = Cardinality(Jobs(s)) - 1
    BY <1>1, <1>4, FS_RemoveElement
  <2>3. Cardinality(Jobs(s) \ {j}) \in Nat
    BY <2>2, FS_CardinalityType
  <2> QED BY <1>1, <1>4, <2>2, <2>3
<1> QED BY <1>2, <1>3, <1>4 DEF Counted

\* Where a thread of a pool goes when c's post moves on.
LEMMA HandleStep ==
  ASSUME Inv, NEW c \in Client, Handle(c), NEW s \in Server
  PROVE  Counted(s)
<1> USE DEF Inv, TypeOK, Handle, PostGoes, Takes, Free
<1>1. CASE s = coord[c]
  <2>1. <<c, "handle">> \notin Jobs(s)
    BY DEF Jobs, Holds
  <2>2. Jobs(s)' = Jobs(s) \cup {<<c, "handle">>}
    BY <1>1 DEF Jobs, Holds, Kinds
  <2>3. busy'[s] = busy[s] + 1
    BY <1>1
  <2> QED BY <2>1, <2>2, <2>3 DEF Counted
<1>2. CASE s # coord[c]
  <2>1. Jobs(s)' = Jobs(s)
    BY <1>2 DEF Jobs, Holds
  <2>2. busy'[s] = busy[s]
    BY <1>2
  <2> QED BY <2>1, <2>2 DEF Counted
<1> QED BY <1>1, <1>2

LEMMA ContinueStep ==
  ASSUME Inv, NEW c \in Client, Continue(c), NEW s \in Server
  PROVE  Counted(s)
<1> USE DEF Inv, TypeOK, Continue, PostGoes, Takes, Free
<1>0. \A r \in Server : copy[c][r] = "none"
  BY DEF CopiesOfBroadcasts
<1>1. CASE s = coord[c]
  <2>1. <<c, "continue">> \notin Jobs(s)
    BY DEF Jobs, Holds
  <2>2. Jobs(s)' = Jobs(s) \cup {<<c, "continue">>}
    BY <1>0, <1>1 DEF Jobs, Holds, Kinds
  <2>3. busy'[s] = busy[s] + 1
    BY <1>1
  <2> QED BY <2>1, <2>2, <2>3 DEF Counted
<1>2. CASE s # coord[c]
  <2>1. Jobs(s)' = Jobs(s)
    BY <1>0, <1>2 DEF Jobs, Holds
  <2>2. busy'[s] = busy[s]
    BY <1>2
  <2> QED BY <2>1, <2>2 DEF Counted
<1> QED BY <1>1, <1>2

LEMMA ReturnStep ==
  ASSUME Inv, NEW c \in Client, Return(c), NEW s \in Server
  PROVE  Counted(s)
<1> USE DEF Inv, TypeOK, Return, PostGoes, Releases
<1>1. CASE s = coord[c]
  <2>1. <<c, "continue">> \in Jobs(s)
    BY <1>1 DEF Jobs, Holds, Kinds
  <2>2. Jobs(s)' = Jobs(s) \ {<<c, "continue">>}
    BY <1>1 DEF Jobs, Holds, Kinds
  <2>3. busy'[s] = busy[s] - 1
    BY <1>1
  <2> QED BY <2>1, <2>2, <2>3 DEF Counted
<1>2. CASE s # coord[c]
  <2>1. Jobs(s)' = Jobs(s)
    BY <1>2 DEF Jobs, Holds
  <2>2. busy'[s] = busy[s]
    BY <1>2
  <2> QED BY <2>1, <2>2 DEF Counted
<1> QED BY <1>1, <1>2

LEMMA ReplyStep ==
  ASSUME Inv, NEW c \in Client, Reply(c), NEW s \in Server
  PROVE  Counted(s)
<1> USE DEF Inv, TypeOK, Reply, PostGoes, Releases
<1>1. CASE s = coord[c]
  <2>1. <<c, "handle">> \in Jobs(s)
    BY <1>1 DEF Jobs, Holds, Kinds
  <2>2. Jobs(s)' = Jobs(s) \ {<<c, "handle">>}
    BY <1>1 DEF Jobs, Holds, Kinds
  <2>3. busy'[s] = busy[s] - 1
    BY <1>1
  <2> QED BY <2>1, <2>2, <2>3 DEF Counted
<1>2. CASE s # coord[c]
  <2>1. Jobs(s)' = Jobs(s)
    BY <1>2 DEF Jobs, Holds
  <2>2. busy'[s] = busy[s]
    BY <1>2
  <2> QED BY <2>1, <2>2 DEF Counted
<1> QED BY <1>1, <1>2

\* The post of the broadcast to r.
LEMMA CopyJobsStep ==
  ASSUME Inv, NEW c \in Client, NEW r \in Server, CopyStep(c, r), NEW s \in Server
  PROVE  Counted(s)
<1> USE DEF Inv, TypeOK, CopyGoes
<1>1. CASE HandleReplica(c, r)
  <2> USE <1>1 DEF HandleReplica, Takes, Free
  <2>1. CASE s = r
    <3>1. <<c, "copy">> \notin Jobs(s)
      BY <2>1 DEF Jobs, Holds
    <3>2. Jobs(s)' = Jobs(s) \cup {<<c, "copy">>}
      BY <2>1 DEF Jobs, Holds, Kinds
    <3> QED BY <2>1, <3>1, <3>2 DEF Counted
  <2>2. CASE s # r
    <3>1. Jobs(s)' = Jobs(s)
      BY <2>2 DEF Jobs, Holds
    <3> QED BY <2>2, <3>1 DEF Counted
  <2> QED BY <2>1, <2>2
<1>2. CASE ReplyReplica(c, r)
  <2> USE <1>2 DEF ReplyReplica, Releases
  <2>1. CASE s = r
    <3>1. <<c, "copy">> \in Jobs(s)
      BY <2>1 DEF Jobs, Holds, Kinds
    <3>2. Jobs(s)' = Jobs(s) \ {<<c, "copy">>}
      BY <2>1 DEF Jobs, Holds, Kinds
    <3> QED BY <2>1, <3>1, <3>2 DEF Counted
  <2>2. CASE s # r
    <3>1. Jobs(s)' = Jobs(s)
      BY <2>2 DEF Jobs, Holds
    <3> QED BY <2>2, <3>1 DEF Counted
  <2> QED BY <2>1, <2>2
<1>3. CASE ContinueReplica(c, r)
  <2>1. Jobs(s)' = Jobs(s)
    BY <1>3 DEF ContinueReplica, Jobs, Holds
  <2> QED BY <1>3, <2>1 DEF Counted, ContinueReplica
<1>4. CASE Complete(c, r)
  <2>1. Jobs(s)' = Jobs(s)
    BY <1>4 DEF Complete, Jobs, Holds
  <2> QED BY <1>4, <2>1 DEF Counted, Complete
<1> QED BY <1>1, <1>2, <1>3, <1>4 DEF CopyStep

LEMMA StepCounted ==
  ASSUME Inv, [Next]_vars, NEW s \in Server
  PROVE  Counted(s)
<1>1. CASE UNCHANGED vars
  <2>1. Jobs(s)' = Jobs(s)
    BY <1>1 DEF vars, Jobs, Holds
  <2> QED BY <1>1, <2>1 DEF vars, Counted
<1>2. ASSUME NEW c \in Client, PostStep(c) PROVE Counted(s)
  BY <1>2, HandleStep, ContinueStep, ReturnStep, ReplyStep DEF PostStep
<1>3. ASSUME NEW c \in Client, NEW r \in Server, Post(c, r) PROVE Counted(s)
  <2>1. Jobs(s)' = Jobs(s)
    BY <1>3 DEF Inv, TypeOK, Post, PostGoes, Jobs, Holds
  <2> QED BY <1>3, <2>1 DEF Post, Counted
<1>4. ASSUME NEW c \in Client, NEW r \in Server, CopyStep(c, r) PROVE Counted(s)
  BY <1>4, CopyJobsStep
<1> QED BY <1>1, <1>2, <1>3, <1>4 DEF Next

\* Everything but the count of the jobs.
Shape ==
  /\ coord \in [Client -> Server] /\ post \in [Client -> PostStates]
  /\ copy \in [Client -> [Server -> CopyStates]]
  /\ busy \in [Server -> Int] /\ \A s \in Server : busy[s] <= Threads
  /\ CopiesOfBroadcasts

LEMMA TypeStep ==
  ASSUME Inv, [Next]_vars
  PROVE  Shape'
<1> USE PoolAssumption DEF Inv, TypeOK, Shape, CopiesOfBroadcasts, PostStates, CopyStates,
      PostGoes, CopyGoes, Takes, Releases, Free
<1>1. CASE UNCHANGED vars
  BY <1>1 DEF vars
<1>2. ASSUME NEW c \in Client, Handle(c) PROVE Shape'
  BY <1>2 DEF Handle
<1>3. ASSUME NEW c \in Client, Continue(c) PROVE Shape'
  BY <1>3 DEF Continue
<1>4. ASSUME NEW c \in Client, Return(c) PROVE Shape'
  BY <1>4 DEF Return
<1>5. ASSUME NEW c \in Client, Reply(c) PROVE Shape'
  BY <1>5 DEF Reply
<1>6. ASSUME NEW c \in Client, NEW r \in Server, Post(c, r) PROVE Shape'
  BY <1>6 DEF Post
<1>7. ASSUME NEW c \in Client, NEW r \in Server, CopyStep(c, r) PROVE Shape'
  <2>1. CASE HandleReplica(c, r)
    BY <2>1 DEF HandleReplica
  <2>2. CASE ContinueReplica(c, r)
    BY <2>2 DEF ContinueReplica
  <2>3. CASE ReplyReplica(c, r)
    BY <2>3 DEF ReplyReplica
  <2>4. CASE Complete(c, r)
    BY <2>4 DEF Complete
  <2> QED BY <1>7, <2>1, <2>2, <2>3, <2>4 DEF CopyStep
<1> QED BY <1>1, <1>2, <1>3, <1>4, <1>5, <1>6, <1>7 DEF Next, PostStep

LEMMA InvStep == Inv /\ [Next]_vars => Inv'
<1> SUFFICES ASSUME Inv, [Next]_vars PROVE Inv'
  OBVIOUS
<1>1. \A s \in Server : busy'[s] = Cardinality(Jobs(s)') /\ busy'[s] >= 0
  BY StepCounted, CountedSuffices
<1>2. busy' \in [Server -> 0..Threads]
  BY <1>1, TypeStep, PoolAssumption DEF Shape
<1> QED BY <1>1, <1>2, TypeStep DEF Inv, TypeOK, Shape

THEOREM PoolInvariant == Spec => []Inv
BY InvInit, InvStep, PTL DEF Spec

\* The counters of the pools stay within the pools, and the progress of every
\* post within its states.
THEOREM PoolTypeCorrect == Spec => []TypeOK
<1>1. Inv => TypeOK
  BY DEF Inv
<1> QED BY <1>1, PoolInvariant, PTL

\* A pool of more than three threads for each client always has a free thread:
\* no set of handlers can wait on each other for threads (handler.cpp:290).
THEOREM PoolNeverExhausted == Spec => []ThreadFree
<1>1. Inv => ThreadFree
  <2> SUFFICES ASSUME Inv, Threads > 3 * Cardinality(Client), NEW s \in Server
               PROVE  Free(s)
    BY DEF ThreadFree
  <2>1. busy[s] = Cardinality(Jobs(s))
    BY DEF Inv
  <2> QED BY <2>1, JobsBound, PoolAssumption DEF Free
<1> QED BY <1>1, PoolInvariant, PTL
=============================================================================
