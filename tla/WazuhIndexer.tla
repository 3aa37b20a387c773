---------------------------- MODULE WazuhIndexer ----------------------------
(***************************************************************************)
(* The Wazuh Indexer (OpenSearch) as scripts/siem/ uses it: a live index   *)
(* that keeps ingesting alerts, and the points in time (PITs) opened on    *)
(* it.  None of this is code of the repository.  What it assumes of the    *)
(* Indexer is only what the client relies on: a PIT freezes the index      *)
(* content at creation, stays usable for keep_alive after its last use     *)
(* and may linger until a reaper removes it.                               *)
(*                                                                         *)
(* An alert is its rank in the registered (timestamp, id) sort order, so   *)
(* "later in stable order" is > on ranks.                                  *)
(***************************************************************************)
EXTENDS Integers, FiniteSets, Sequences

CONSTANTS
  NumRecords,   \* alerts that can ever be in the index (model bound)
  PitId,        \* identities the Indexer can give to a PIT (model bound)
  KeepAlive     \* pit_keep_alive_seconds of the source registry

ASSUME NumRecordsAssumption == NumRecords \in Nat
ASSUME KeepAliveAssumption  == KeepAlive \in Nat \ {0}

VARIABLES
  index,        \* the alerts searchable in the live index
  pits          \* per PIT: its state, frozen content and remaining lifetime

indexerVars == <<index, pits>>

Record == 1..NumRecords

PitState == {"unused", "open", "deleted", "expired"}

Pit == [state: PitState, snapshot: SUBSET Record, ttl: 0..KeepAlive]

IndexerTypeOK ==
  /\ index \in SUBSET Record
  /\ pits \in [PitId -> Pit]

IndexerInit ==
  /\ index \in SUBSET Record
  /\ pits = [p \in PitId |-> [state |-> "unused", snapshot |-> {}, ttl |-> 0]]

IsOpen(p) == pits[p].state = "open"

(* A new alert reaches the live index. *)
Ingest(r) ==
  /\ r \notin index
  /\ index' = index \cup {r}
  /\ UNCHANGED pits

(* POST .../_search/point_in_time?keep_alive=... *)
OpenPit(p) ==
  /\ pits[p].state = "unused"
  /\ pits' = [pits EXCEPT ![p] = [state |-> "open", snapshot |-> index,
                                  ttl |-> KeepAlive]]

(* A search naming the PIT restarts its keep-alive. *)
TouchPit(p) == pits' = [pits EXCEPT ![p].ttl = KeepAlive]

(* DELETE /_search/point_in_time; naming a PIT that is gone changes nothing. *)
DeletePit(p) ==
  pits' = IF IsOpen(p) THEN [pits EXCEPT ![p].state = "deleted"] ELSE pits

(* The keep-alive reaper: an overdue PIT may stay open until it runs. *)
Reap(p) ==
  /\ IsOpen(p)
  /\ pits[p].ttl = 0
  /\ pits' = [pits EXCEPT ![p].state = "expired"]
  /\ UNCHANGED index

Older(t) == IF t > 0 THEN t - 1 ELSE t

AgePits == pits' = [p \in PitId |-> [pits[p] EXCEPT !.ttl = Older(@)]]
=============================================================================
