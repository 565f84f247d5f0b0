-------------------------------- MODULE ORSet --------------------------------
(***************************************************************************)
(* statebased/orset.hh: the optimized observed-removed set.  Removing an   *)
(* element leaves no tombstone: a replica recognises a remote removal by   *)
(* the version vector, which says which additions the remote replica has   *)
(* observed.                                                               *)
(*                                                                         *)
(* A set is a record with                                                  *)
(*   elements  a function whose domain is the elements the set contains;   *)
(*             elements[e][r] is the sequence number of the last addition  *)
(*             of e by replica r that is recorded for e, or Unseen when    *)
(*             the code's inner map has no entry for r;                    *)
(*   versions  versions[r] is the sequence number of the last addition by  *)
(*             r that has been observed, or Unseen.                        *)
(* The timestamps the code stores under the key r always have the uid r    *)
(* (only ORSet::add of r itself creates them), so comparing two of them    *)
(* compares sequence numbers.  Unseen is below every sequence number: the  *)
(* code's "no entry, or a smaller entry" is one comparison here.           *)
(***************************************************************************)
EXTENDS Integers

CONSTANTS
  Key,       \* the elements that can be in a set
  Replica    \* the identifiers of the replicas (uint64_t in the code)

ASSUME ReplicaAssumption == Replica \subseteq Nat

Unseen == -1

Versions == [Replica -> Nat \cup {Unseen}]

\* The type of a set (a predicate: the functions on subsets of Key are not a
\* set TLC can test membership in).
IsSet(set) ==
  /\ set = [elements |-> set.elements, versions |-> set.versions]
  /\ DOMAIN set.elements \subseteq Key
  /\ set.elements \in [DOMAIN set.elements -> Versions]
  /\ set.versions \in Versions

NoTags == [r \in Replica |-> Unseen]

\* ORSet(replica_id): no elements; the replica's own version exists, with
\* sequence number 0.
NewSet(id) ==
  [elements |-> [e \in {} |-> NoTags],
   versions |-> [NoTags EXCEPT ![id] = 0]]

\* elements(), contains()
Contents(set) == DOMAIN set.elements

\* add(): a new version of the adding replica, recorded for the element.
Add(set, id, e) ==
  LET version == set.versions[id] + 1
      tags    == IF e \in Contents(set) THEN set.elements[e] ELSE NoTags
  IN [elements |-> [x \in Contents(set) \cup {e} |->
                      IF x = e THEN [tags EXCEPT ![id] = version]
                               ELSE set.elements[x]],
      versions |-> [set.versions EXCEPT ![id] = version]]

\* remove(): the element is erased and nothing else changes.
Remove(set, e) ==
  [elements |-> [x \in Contents(set) \ {e} |-> set.elements[x]],
   versions |-> set.versions]

\* Mutated test: any evidence will do, concurrent additions are not looked for.
RemovedRemotelyOnEvidence(tags, remote_versions) ==
  \E r \in Replica : tags[r] < remote_versions[r]

\* Mutated test: an addition that the remote replica has just observed is taken for
\* a newer one.
RemovedRemotelyStrictly(tags, remote_versions) ==
  /\ \A r \in Replica : tags[r] = Unseen \/ tags[r] < remote_versions[r]
  /\ \E r \in Replica : tags[r] < remote_versions[r]

\* A local element the remote set does not contain counts as removed remotely
\* when the remote replica has observed every recorded addition of it, and has
\* observed a version that is not among them (the code's "evidence").
RemovedRemotely(tags, remote_versions) ==
  /\ \A r \in Replica : tags[r] <= remote_versions[r]
  /\ \E r \in Replica : tags[r] < remote_versions[r]

\* _apply_remote_removes(): the elements that are left.
ApplyRemoteRemoves(local, remote) ==
  [e \in {x \in Contents(local) :
            \/ x \in Contents(remote)
            \/ ~RemovedRemotely(local.elements[x], remote.versions)}
     |-> local.elements[e]]

\* Mutated: an addition that has been observed (and removed) counts as new.
NewerOrSeen(local_versions, remote_tags) ==
  {r \in Replica : local_versions[r] <= remote_tags[r]}

\* The additions recorded in remote_tags that local_versions has not observed.
Newer(local_versions, remote_tags) ==
  {r \in Replica : local_versions[r] < remote_tags[r]}

\* _apply_remote_adds(): an element both sets contain takes the timestamps that
\* are new here; an element that is not here is added, with all its remote
\* timestamps, if one of them is new.
ApplyRemoteAdds(elements, versions, remote) ==
  LET added == {e \in Contents(remote) \ DOMAIN elements :
                  Newer(versions, remote.elements[e]) # {}}
      updated(e) == [r \in Replica |->
                       IF r \in Newer(versions, remote.elements[e])
                       THEN remote.elements[e][r]
                       ELSE elements[e][r]]
  IN [e \in DOMAIN elements \cup added |->
        IF e \in added THEN remote.elements[e]
        ELSE IF e \in Contents(remote) THEN updated(e)
        ELSE elements[e]]

\* Mutated: the remote versions are taken over.
MergeVersionsTakesRemote(local_versions, remote_versions) == remote_versions

\* Mutated: a replica that is not in the local vector is not added to it.
MergeVersionsOfKnown(local_versions, remote_versions) ==
  [r \in Replica |->
     IF local_versions[r] # Unseen /\ local_versions[r] < remote_versions[r]
     THEN remote_versions[r] ELSE local_versions[r]]

\* _merge_versions(): the pointwise maximum.
MergeVersions(local_versions, remote_versions) ==
  [r \in Replica |->
     IF local_versions[r] < remote_versions[r]
     THEN remote_versions[r] ELSE local_versions[r]]

\* merge(): removals, then additions (against the versions of before the
\* merge), then the versions.
Merge(local, remote) ==
  [elements |-> ApplyRemoteAdds(ApplyRemoteRemoves(local, remote), local.versions, remote),
   versions |-> MergeVersions(local.versions, remote.versions)]
=============================================================================
