------------------------------- MODULE AddWins -------------------------------
(***************************************************************************)
(* What the replicated keys promise ("add wins", statebased/map.hh):       *)
(* without version vectors, messages or merges.                            *)
(*                                                                         *)
(* Every addition of a key is an event of its own. A process has observed  *)
(* some of them; it may be without a key only if somebody who had observed *)
(* all the additions that it has observed has removed the key. How the     *)
(* processes observe each other's additions is left open.                  *)
(***************************************************************************)

CONSTANTS
  Key,       \* the keys
  Process    \* the processes that have a copy of the map

VARIABLES
  added,     \* the additions of each key
  purged,    \* those of them that somebody had observed when he removed the key
  seen,      \* seen[p][k]: the additions of k that p has observed
  visible    \* visible[p]: the keys that p has

vars == <<added, purged, seen, visible>>

Nothing == [k \in Key |-> {}]

Init ==
  /\ added = Nothing
  /\ purged = Nothing
  /\ seen = [p \in Process |-> Nothing]
  /\ visible = [p \in Process |-> {}]

\* p adds k: nobody has made, hence observed, this addition before.
AddKey(p, k) ==
  \E t \in added'[k] :
    /\ \A x \in Key : t \notin added[x]
    /\ added' = [added EXCEPT ![k] = @ \cup {t}]
    /\ seen' = [seen EXCEPT ![p][k] = @ \cup {t}]
    /\ visible' = [visible EXCEPT ![p] = @ \cup {k}]
    /\ UNCHANGED purged

\* p removes k, as far as it has observed it.
RemoveKey(p, k) ==
  /\ purged' = [purged EXCEPT ![k] = @ \cup seen[p][k]]
  /\ visible' = [visible EXCEPT ![p] = @ \ {k}]
  /\ UNCHANGED <<added, seen>>

\* p hears of additions and removals. It forgets no addition, it loses no key of
\* which it has observed an addition that nobody removed, and a key comes back
\* only with an addition that p had not observed.
Hear(p) ==
  /\ seen' = [seen EXCEPT ![p] = seen'[p]]
  /\ visible' = [visible EXCEPT ![p] = visible'[p]]
  /\ visible'[p] \subseteq Key
  /\ \A k \in Key :
       /\ seen[p][k] \subseteq seen'[p][k] /\ seen'[p][k] \subseteq added[k]
       /\ k \notin visible'[p] => seen'[p][k] \subseteq purged[k]
       /\ k \in visible'[p] \ visible[p] => seen'[p][k] # seen[p][k]
  /\ UNCHANGED <<added, purged>>

\* p crashes, and starts with nothing.
Forget(p) ==
  /\ seen' = [seen EXCEPT ![p] = Nothing]
  /\ visible' = [visible EXCEPT ![p] = {}]
  /\ UNCHANGED <<added, purged>>

Next ==
  \E p \in Process :
    Hear(p) \/ Forget(p) \/ \E k \in Key : AddKey(p, k) \/ RemoveKey(p, k)

Spec == Init /\ [][Next]_vars
=============================================================================
