----------------------------- MODULE ServerPool -----------------------------
(***************************************************************************)
(* The threads behind handler::handle_post.  A server's request handlers,  *)
(* the continuations of its tasks and the completions of its outgoing      *)
(* requests all run on one pool of threads (cpprest's; 40 by default).     *)
(* handle_post blocks the thread it runs on until the continuation, which  *)
(* needs another one, has ended (the .wait() of line 290).  The            *)
(* continuation of a client's post blocks its thread until the broadcast   *)
(* has ended, and the broadcast includes a post to the server itself.      *)
(*                                                                         *)
(* The post of a client:                                                   *)
(*   none --Post--> queued --Handle--> handling --Continue--> broadcasting *)
(*   --Return--> returned --Reply--> none                                  *)
(* The post of the broadcast for it to each server:                        *)
(*   none --Continue--> queued --HandleReplica--> handling                 *)
(*   --ContinueReplica--> merged --ReplyReplica--> answered --Complete-->  *)
(*   done --Return--> none                                                 *)
(*                                                                         *)
(* Timeouts are left out: they free a blocked server after half a minute,  *)
(* and what is asked here is whether it blocks.                            *)
(***************************************************************************)
EXTENDS Integers, FiniteSets

CONSTANTS
  Client,   \* client identifiers: one post each at a time
  Server,   \* server identifiers
  Threads   \* the number of threads of each server's pool

ASSUME PoolAssumption ==
  /\ IsFiniteSet(Client) /\ IsFiniteSet(Server)
  /\ Threads \in Nat

VARIABLES
  coord,   \* the server that a client's post is sent to
  post,    \* the progress of that post
  copy,    \* copy[c][s]: the progress of the post of its broadcast to s
  busy     \* the number of threads of each pool that are not free

vars == <<coord, post, copy, busy>>

PostStates == {"none", "queued", "handling", "broadcasting", "returned"}
CopyStates == {"none", "queued", "handling", "merged", "answered", "done"}

TypeOK ==
  /\ coord \in [Client -> Server]
  /\ post \in [Client -> PostStates]
  /\ copy \in [Client -> [Server -> CopyStates]]
  /\ busy \in [Server -> 0..Threads]

Init ==
  /\ coord \in [Client -> Server]
  /\ post = [c \in Client |-> "none"]
  /\ copy = [c \in Client |-> [s \in Server |-> "none"]]
  /\ busy = [s \in Server |-> 0]

Free(s) == busy[s] < Threads

Takes(s)    == Free(s) /\ busy' = [busy EXCEPT ![s] = @ + 1]
Releases(s) == busy' = [busy EXCEPT ![s] = @ - 1]

PostGoes(c, from, to) == post[c] = from /\ post' = [post EXCEPT ![c] = to]

CopyGoes(c, s, from, to) ==
  copy[c][s] = from /\ copy' = [copy EXCEPT ![c][s] = to]

-----------------------------------------------------------------------------
\* A client's sync has found the server s.
Post(c, s) ==
  /\ PostGoes(c, "none", "queued")
  /\ coord' = [coord EXCEPT ![c] = s]
  /\ UNCHANGED <<copy, busy>>

\* handle_post is called; its continuation is scheduled and waited for.
Handle(c) ==
  /\ PostGoes(c, "queued", "handling")
  /\ Takes(coord[c])
  /\ UNCHANGED <<coord, copy>>

\* The continuation begins: it merges the map and posts it to every server, from
\* threads that are not of the pool (std::async), and waits for them.
Continue(c) ==
  /\ PostGoes(c, "handling", "broadcasting")
  /\ Takes(coord[c])
  /\ copy' = [copy EXCEPT ![c] = [s \in Server |-> "queued"]]
  /\ UNCHANGED coord

\* handle_post for such a post: the continuation is scheduled and waited for.
HandleReplica(c, s) ==
  /\ CopyGoes(c, s, "queued", "handling")
  /\ Takes(s)
  /\ UNCHANGED <<coord, post>>

\* That continuation merges and ends: it needs a free thread, but keeps none.
ContinueReplica(c, s) ==
  /\ CopyGoes(c, s, "handling", "merged")
  /\ Free(s)
  /\ UNCHANGED <<coord, post, busy>>

\* Mutated: the handler does not return.
ReplyReplicaStays(c, s) ==
  /\ CopyGoes(c, s, "merged", "answered")
  /\ UNCHANGED <<coord, post, busy>>

\* The wait is over; handle_post answers and returns.
ReplyReplica(c, s) ==
  /\ CopyGoes(c, s, "merged", "answered")
  /\ Releases(s)
  /\ UNCHANGED <<coord, post>>

\* Mutated: the answered request is sent again.
CompleteByRetry(c, s) ==
  /\ CopyGoes(c, s, "answered", "queued")
  /\ Free(coord[c])
  /\ UNCHANGED <<coord, post, busy>>

\* The coordinator's pool completes the outgoing request: its future is ready.
Complete(c, s) ==
  /\ CopyGoes(c, s, "answered", "done")
  /\ Free(coord[c])
  /\ UNCHANGED <<coord, post, busy>>

\* Mutated: the handler's thread is released with that of the continuation.
ReturnTwice(c) ==
  /\ \A s \in Server : copy[c][s] = "done"
  /\ PostGoes(c, "broadcasting", "returned")
  /\ copy' = [copy EXCEPT ![c] = [s \in Server |-> "none"]]
  /\ busy' = [busy EXCEPT ![coord[c]] = @ - 2]
  /\ UNCHANGED coord

\* All futures are ready: the continuation of the client's post ends.
Return(c) ==
  /\ \A s \in Server : copy[c][s] = "done"
  /\ PostGoes(c, "broadcasting", "returned")
  /\ copy' = [copy EXCEPT ![c] = [s \in Server |-> "none"]]
  /\ Releases(coord[c])
  /\ UNCHANGED coord

\* The wait is over; handle_post answers the client and returns.
Reply(c) ==
  /\ PostGoes(c, "returned", "none")
  /\ Releases(coord[c])
  /\ UNCHANGED <<coord, copy>>

CopyStep(c, s) ==
  HandleReplica(c, s) \/ ContinueReplica(c, s) \/ ReplyReplica(c, s) \/ Complete(c, s)

PostStep(c) == Handle(c) \/ Continue(c) \/ Return(c) \/ Reply(c)

Next ==
  \E c \in Client :
    PostStep(c) \/ \E s \in Server : Post(c, s) \/ CopyStep(c, s)

Spec == Init /\ [][Next]_vars

\* The pool runs what is queued when it has a thread for it (the pools that
\* LiveSpec is checked for always have one).
LiveSpec ==
  Spec /\ \A c \in Client : WF_vars(PostStep(c)) /\ \A s \in Server : WF_vars(CopyStep(c, s))

-----------------------------------------------------------------------------
\* A pool of more than three threads for each client never runs out: each client
\* blocks at most three threads of a server at a time (handle_post, its
\* continuation, and handle_post of the server's post to itself), and then there
\* is a thread for the continuations and completions that unblock them.
ThreadFree ==
  Threads > 3 * Cardinality(Client) => \A s \in Server : Free(s)

\* Every post is answered, although the handlers of all clients wait on the
\* same pools, each coordinator for all others and for itself.
PostAnswered == \A c \in Client : post[c] = "queued" ~> post[c] = "none"
=============================================================================
