-------------------------- MODULE MCReplayPublisher --------------------------
(* Four staged rows; runs replay all of them, an event's or a window's.      *)
EXTENDS ReplayPublisher
MCSelections == {{1, 2, 3, 4}, {2, 4}, {3, 4}}
=============================================================================
