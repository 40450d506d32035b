----------------------------- MODULE FreshestMerge -----------------------------
(* The MERGE that both tables of the system are written with: publisher/load  *)
(* merges raw_landing into raw_staging by collected_at, dataflow/promote.sql  *)
(* merges events_landing into events by processed_at. A source is a set of    *)
(* rows [id, at, ...]; a target is a table with at most one row per id.       *)
EXTENDS Naturals

CONSTANTS
  Keys,     \* the ids rows can have
  Absent    \* the target holds no row of this id

KeysOf(source) == {row.id : row \in source}

\* ROW_NUMBER() OVER (PARTITION BY id ORDER BY at DESC) = 1: the freshest row
\* of each id; among rows of one age the query may pick any.
Freshest(source, row) ==
  row \in source /\ \A other \in source : other.id = row.id => other.at <= row.at

Picks(source) ==
  LET fresh == {row \in source : Freshest(source, row)}
      OnePerId == {rows \in SUBSET fresh : \A k \in KeysOf(source) : \E row \in rows :
                     row.id = k /\ \A other \in rows : other.id = k => other = row}
  IN {[k \in KeysOf(source) |-> CHOOSE row \in rows : row.id = k] : rows \in OnePerId}

\* Mutants: the source wins a draw; it always wins; it never does.
OverlayOnDraw(target, pick) ==
  [k \in Keys |->
     IF k \in DOMAIN pick /\ (target[k] = Absent \/ pick[k].at >= target[k].at)
       THEN pick[k] ELSE target[k]]
OverlayAlways(target, pick) ==
  [k \in Keys |-> IF k \in DOMAIN pick THEN pick[k] ELSE target[k]]
OverlayNew(target, pick) ==
  [k \in Keys |-> IF k \in DOMAIN pick /\ target[k] = Absent THEN pick[k] ELSE target[k]]

\* WHEN MATCHED AND s.at > t.at THEN UPDATE, WHEN NOT MATCHED THEN INSERT.
Overlay(target, pick) ==
  [k \in Keys |->
     IF k \in DOMAIN pick /\ (target[k] = Absent \/ pick[k].at > target[k].at)
       THEN pick[k] ELSE target[k]]

\* No row of the new table is older than its predecessor.
AsFresh(old, new) ==
  \A k \in Keys : old[k] # Absent => new[k] # Absent /\ new[k].at >= old[k].at

\* The target holds a row at least as fresh as every row of the source.
Covers(target, source) ==
  \A row \in source : target[row.id] # Absent /\ target[row.id].at >= row.at

=============================================================================
