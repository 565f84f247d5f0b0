------------------------------- MODULE Report -------------------------------
(***************************************************************************)
(* What the store's processes send each other as JSON, and what menu       *)
(* option 6 ("Get state of nodes") of a client reports about the servers.  *)
(***************************************************************************)
EXTENDS KVStore, Json

\* handle_get: what a server answers to a GET.
State(s) == MapToJson(smap[s], s)

\* One turn of the loop of main.cpp over the servers' ports. A server that does not
\* answer is reported as out of sync.
ReportedInSync(c, s) ==
  /\ up[s]
  /\ CompareRegisters(State(s), MapToJson(cmap[c], c))

\* Every map that a process has or is being sent can be sent and read back: the
\* constructors accept what to_json writes, and restore the map as long as its
\* sequence numbers fit the int32_t that they are read as (without a null for a set
\* that has been emptied, an entry for an addition not observed, or a lost one).
SurvivesTheWire ==
  \A map \in MapsHeld :
    LET j == MapToJson(map, NoCoord)
    IN Parses(j) /\ (SeqsFit(map) => MapFromJson(j) = map)

\* A server that is reported in sync has the client's keys, each with the client's
\* value, although only the registers are compared: registers and keys are merged
\* by different rules, in syncs of other clients as well.
ReportTruthful ==
  \A c \in Client, s \in Server :
    ReportedInSync(c, s) =>
      /\ Contents(smap[s].keys) = Contents(cmap[c].keys)
      /\ \A k \in Contents(cmap[c].keys) : smap[s].registers[k].val = cmap[c].registers[k].val

\* Eventual consistency as a user can see it: when the failures have ended and
\* the users go on syncing, every client that has keys reports all servers as in
\* sync for good. The values and their timestamps have then converged.
ReportsConverge ==
  <>[]Calm
    => <>[](\A c \in Client, s \in Server :
              Contents(cmap[c].keys) # {} => ReportedInSync(c, s))
=============================================================================
