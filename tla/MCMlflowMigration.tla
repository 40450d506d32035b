-------------------------- MODULE MCMlflowMigration --------------------------
(* Three runs of one experiment: a finished one with two batches of params   *)
(* and two objects in GCS, one that was deleted while still open, whose      *)
(* artifacts are not in GCS, and one that is past the first page.            *)
EXTENDS MlflowMigration
MCRuns == {"r1", "r2", "r3"}
MCListed == {"r1", "r2"}
MCExperiment == [r \in MCRuns |-> "xlmr-sentiment"]
MCStatus == [r \in MCRuns |-> IF r = "r1" THEN "FINISHED" ELSE "RUNNING"]
MCParams == [r \in MCRuns |-> IF r = "r1" THEN 3 ELSE 0]
MCMetrics == [r \in MCRuns |-> IF r = "r1" THEN 0 ELSE 2]
MCObjects == [r \in MCRuns |-> IF r = "r1" THEN 2 ELSE 1]
=============================================================================
