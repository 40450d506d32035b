----------------------------- MODULE MCReplayBuild -----------------------------
(* Replays of the whole staging table, of a window, and of an event's        *)
(* records (the count of which the build cannot compute). Two of them overlap,  *)
(* and each leaves a record out that another one may leave in the subscription. *)
EXTENDS ReplayBuild

MCAll == [rows |-> Records, event |-> FALSE, promote |-> TRUE]
MCWindow == [rows |-> {2, 3}, event |-> FALSE, promote |-> TRUE]
MCEvent == [rows |-> {1, 2}, event |-> TRUE, promote |-> TRUE]
MCFilters == {MCAll, MCWindow, MCEvent}
=============================================================================
