------------------------------ MODULE StagingLoad ------------------------------
(***************************************************************************)
(* The publisher's load step (publisher/load.py): a BigQuery load job      *)
(* truncate-loads every object of the raw archive into raw_landing, then a *)
(* MERGE deduplicates the landing rows into raw_staging. The step can be   *)
(* run by the publisher job (RUN_LOAD) and by hand (python -m              *)
(* publisher.load) over the same two tables, and nothing keeps two runs    *)
(* apart.                                                                  *)
(*                                                                         *)
(* BigQuery is external: a load job reads the archive as it lists it and   *)
(* replaces the table in one commit later; a MERGE is atomic. The at of a  *)
(* row is collected_at, to the second, so that two copies of a record of   *)
(* one age may differ in what else they hold (score, text). Whoever fills the  *)
(* archive only adds to it: objects are never overwritten.                 *)
(***************************************************************************)
EXTENDS FreshestMerge

CONSTANTS
  Rows,       \* the copies of records that collectors archive
  Loaders,    \* the load runs
  MaxLoads    \* bound: how many runs are started

ASSUME LoadAssumption ==
  /\ \A row \in Rows : row.id \in Keys /\ row.at \in Nat
  /\ Absent \notin Rows
  /\ MaxLoads \in Nat

VARIABLES
  archive,    \* rows of the *.jsonl.gz objects in the raw archive bucket
  landing,    \* raw_landing
  staging,    \* raw_staging
  at,         \* at[l]: where loader l is
  listed,     \* listed[l]: the archive as l's load job read it
  alone,      \* history: alone[l]: no other run overlapped l's
  merged,     \* history: the rows merged into staging so far
  loads       \* runs started

vars == <<archive, landing, staging, at, listed, alone, merged, loads>>

Idle(l) == at[l] \in {"idle", "done"}

TypeOK ==
  /\ archive \subseteq Rows
  /\ landing \subseteq Rows
  /\ staging \in [Keys -> Rows \cup {Absent}]
  /\ at \in [Loaders -> {"idle", "loading", "merging", "done"}]
  /\ listed \in [Loaders -> SUBSET Rows]
  /\ alone \in [Loaders -> BOOLEAN]
  /\ merged \subseteq Rows
  /\ loads \in 0 .. MaxLoads

Init ==
  /\ archive = {}
  /\ landing = {}
  /\ staging = [k \in Keys |-> Absent]
  /\ at = [l \in Loaders |-> "idle"]
  /\ listed = [l \in Loaders |-> {}]
  /\ alone = [l \in Loaders |-> TRUE]
  /\ merged = {}
  /\ loads = 0

\* write_batch: a collector archives some rows.
Collect ==
  /\ archive \subseteq archive' /\ archive' \subseteq Rows
  /\ UNCHANGED <<landing, staging, at, listed, alone, merged, loads>>

StartLoad(l) ==
  /\ Idle(l)
  /\ loads < MaxLoads
  /\ loads' = loads + 1
  /\ at' = [at EXCEPT ![l] = "loading"]
  /\ listed' = [listed EXCEPT ![l] = archive]
  /\ LET others == {k \in Loaders \ {l} : ~Idle(k)} IN
       alone' = [k \in Loaders |->
                   IF k = l THEN others = {} ELSE alone[k] /\ k \notin others]
  /\ UNCHANGED <<archive, landing, staging, merged>>

\* The load job replaces raw_landing (WRITE_TRUNCATE).
LoadLanding(l) ==
  /\ at[l] = "loading"
  /\ landing' = listed[l]
  /\ at' = [at EXCEPT ![l] = "merging"]
  /\ UNCHANGED <<archive, staging, listed, alone, merged, loads>>

MergeStaging(l) ==
  /\ at[l] = "merging"
  /\ at' = [at EXCEPT ![l] = "done"]
  /\ merged' = merged \cup landing
  /\ \E pick \in Picks(landing) : staging' = Overlay(staging, pick)
  /\ UNCHANGED <<archive, landing, listed, alone, loads>>

\* A job fails or the task is killed, before the load or before the MERGE.
LoadFails(l) ==
  /\ ~Idle(l)
  /\ at' = [at EXCEPT ![l] = "idle"]
  /\ UNCHANGED <<archive, landing, staging, listed, alone, merged, loads>>

LoadStep(l) == StartLoad(l) \/ LoadLanding(l) \/ MergeStaging(l) \/ LoadFails(l)

Next == Collect \/ \E l \in Loaders : LoadStep(l)

LoadSpec == Init /\ [][Next]_vars

-----------------------------------------------------------------------------
\* "Across loads, only overwrite a staging row when the incoming copy is
\* fresher" (load.py:70): staging never goes back to an older copy of a
\* record, even when two runs interleave and one merges the other's landing.
StagingNeverRegresses == [][AsFresh(staging, staging')]_vars

\* "Re-running the load against unchanged data is a no-op" (load.py:10): a
\* MERGE of rows that were all merged before changes nothing, although the
\* query may pick another of two copies of one age.
RerunIsNoOp == [][landing \subseteq merged /\ merged' = merged => staging' = staging]_vars

\* A run that no other overlapped leaves staging covering everything the
\* archive held when it began, whatever failed before it and whatever runs
\* came after it. Proved; a run checks StagedWhole, its end-to-end form.
LoadCovers ==
  \A l \in Loaders : at[l] = "done" /\ alone[l] => Covers(staging, listed[l])

=============================================================================
