------------------------------ MODULE Discovery ------------------------------
(***************************************************************************)
(* What a client's search for a replica promises to the rest of the system *)
(* (KVStore assumes no more of it): the replica that a sync goes on with   *)
(* ran when the client was connected to it.  Which replica it is, and by   *)
(* how many tries it is found, is left open.                               *)
(***************************************************************************)

CONSTANTS Client, Server

VARIABLES
  phase,   \* where each client is in Client::sync
  coord,   \* the replica that it goes on with
  up       \* whether the server process runs

vars == <<phase, coord, up>>

Init ==
  /\ phase = [c \in Client |-> "idle"]
  /\ coord \in [Client -> Server]
  /\ up \in [Server -> BOOLEAN]

StartSync(c) ==
  /\ phase[c] = "idle"
  /\ phase' = [phase EXCEPT ![c] = "lookup"]
  /\ UNCHANGED <<coord, up>>

Connect(c, s) ==
  /\ phase[c] = "lookup"
  /\ up[s]
  /\ coord' = [coord EXCEPT ![c] = s]
  /\ phase' = [phase EXCEPT ![c] = "posting"]
  /\ UNCHANGED up

EndSync(c) ==
  /\ phase[c] = "posting"
  /\ phase' = [phase EXCEPT ![c] = "idle"]
  /\ UNCHANGED <<coord, up>>

\* A server crashes or is started again.
Toggle(s) == up' = [up EXCEPT ![s] = ~@] /\ UNCHANGED <<phase, coord>>

Next ==
  \/ \E c \in Client : StartSync(c) \/ EndSync(c) \/ \E s \in Server : Connect(c, s)
  \/ \E s \in Server : Toggle(s)

Spec == Init /\ [][Next]_vars
=============================================================================
