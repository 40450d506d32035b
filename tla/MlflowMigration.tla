--------------------------- MODULE MlflowMigration ---------------------------
(***************************************************************************)
(* The one-off copy of MLflow runs from the Workbench file store to the    *)
(* tracking server (nlp/tracking/migrate.py), run by hand and again after  *)
(* a failure. One run of the program is a pass: it copies the runs of the  *)
(* store one after the other, skips those the server marks as copied, and  *)
(* ends at the first exception. The server sits behind IAP, which admits a *)
(* pass while its ID token is fresh (nlp/tracking/mlflow_utils.py).        *)
(*                                                                         *)
(* The server is external: a call takes effect and answers, fails without  *)
(* effect, or takes effect while its answer is lost (after the client's    *)
(* own retries). Objects are copied inside GCS, which needs no IAP token.  *)
(* A dry run changes nothing and is left out, as is a pass that its        *)
(* settings stop before it begins. One pass runs at a time.                *)
(***************************************************************************)
EXTENDS Naturals, Sequences, SequencesExt, FiniteSets

CONSTANTS
  Runs,         \* the runs of the file store
  Listed,       \* those that the client lists: of an experiment its first page
  Experiment,   \* Experiment[r]: the experiment r belongs to
  Retired,      \* the runs whose lifecycle stage is "deleted"
  Status,       \* Status[r]: the status of r in the file store
  InGcs,        \* the runs whose artifacts are in GCS
  Params,       \* Params[r]: how many params r has
  Metrics,      \* Metrics[r]: how many metric points r has
  Objects,      \* Objects[r]: how many artifact objects r has
  ParamBatch,   \* MAX_PARAMS_PER_BATCH
  MetricBatch,  \* MAX_METRICS_PER_BATCH
  CopyModes,    \* with or without --no-copy-artifacts
  MaxFaults,    \* bound: failed calls, crashes and failed token fetches
  MaxLost       \* bound: calls that take effect though their answer is lost

Statuses == {"RUNNING", "SCHEDULED", "FINISHED", "FAILED", "KILLED"}

ASSUME MigrationAssumption ==
  /\ Experiment \in [Runs -> STRING]
  /\ {Listed, Retired, InGcs} \subseteq SUBSET Runs
  /\ Status \in [Runs -> Statuses]
  /\ Params \in [Runs -> Nat] /\ Metrics \in [Runs -> Nat] /\ Objects \in [Runs -> Nat]
  /\ {ParamBatch, MetricBatch} \subseteq Nat \ {0}
  /\ CopyModes \subseteq BOOLEAN
  /\ {MaxFaults, MaxLost} \subseteq Nat

VARIABLES
  experiments,  \* the experiments on the server
  server,       \* the runs on the server, in the order they were created
  pc,           \* where the pass is; "idle" when none is running
  todo,         \* source runs the pass has not looked at
  run,          \* the source run in hand
  copy,         \* whether this pass copies artifacts
  armed,        \* the token's refresh timer is running
  fresh,        \* IAP accepts the pass's token
  failed,       \* calls that failed so far
  broken,       \* crashes and failed token fetches so far
  lost          \* the steps whose answers were lost so far

pass == <<todo, run, copy, armed, fresh>>
faults == <<failed, broken, lost>>
vars == <<experiments, server, pc, pass, faults>>

\* The run of the server that the pass is filling: the last it created.
new == Len(server)

\* terminal_status: a run still open in the file store is one whose process
\* died, and is closed as killed.
TerminalStatus(status) ==
  IF status \in {"RUNNING", "SCHEDULED"} THEN "KILLED" ELSE status

\* chunked: how far a list of total items is sent after the next slice.
Chunked(done, size, total) == IF done + size < total THEN done + size ELSE total

\* What a copy that is not cut short holds of its source run.
Whole(c) ==
  /\ c.params = Params[c.of]
  /\ c.metrics = Metrics[c.of]
  /\ c.artifacts /\ c.of \in InGcs => c.objects = Objects[c.of]
  /\ c.status = TerminalStatus(Status[c.of])

Copies == {server[i] : i \in 1 .. new}

\* The steps at which the pass owns an unfinished run on the server.
Filling == {"params", "metrics", "artifacts", "terminate", "mark", "cleanup"}

Calls == (Filling \ {"artifacts"}) \cup {"experiment", "search", "create", "retire"}

Record ==
  [of : Runs, params : Nat, metrics : Nat, objects : Nat, artifacts : BOOLEAN,
   status : Statuses, marked : BOOLEAN, stage : {"active", "deleted"}]

TypeOK ==
  /\ experiments \subseteq {Experiment[r] : r \in Runs}
  /\ server \in Seq(Record)
  /\ \A c \in Copies : /\ c.params <= Params[c.of] /\ c.metrics <= Metrics[c.of]
                       /\ c.objects <= Objects[c.of]
  /\ pc \in Calls \cup {"artifacts", "idle", "pick"}
  /\ todo \subseteq Runs
  /\ run \in Runs
  /\ {copy, armed, fresh} \subseteq BOOLEAN
  /\ {failed, broken} \subseteq Nat /\ failed + broken <= MaxFaults
  /\ lost \in Seq(Calls) /\ Len(lost) <= MaxLost

-----------------------------------------------------------------------------
Init ==
  /\ experiments = {}
  /\ server = <<>>
  /\ pc = "idle"
  /\ todo = {}
  /\ run \in Runs
  /\ copy \in CopyModes
  /\ armed = FALSE
  /\ fresh = FALSE
  /\ failed = 0 /\ broken = 0 /\ lost = <<>>

Fails == failed + broken < MaxFaults /\ failed' = failed + 1 /\ UNCHANGED broken
Breaks == failed + broken < MaxFaults /\ broken' = broken + 1 /\ UNCHANGED failed

\* One call: on an answer the pass goes on to next, on an exception to catch.
Call(effect, next, catch) ==
  \/ fresh /\ effect /\ pc' = next /\ UNCHANGED faults
  \/ /\ fresh /\ effect /\ pc' = catch
     /\ Len(lost) < MaxLost
     /\ lost' = Append(lost, pc) /\ UNCHANGED <<failed, broken>>
  \/ /\ UNCHANGED <<experiments, server, lost>> /\ pc' = catch
     /\ IF fresh THEN Fails ELSE UNCHANGED <<failed, broken>>

\* main: fetch a token, start its timer, list the runs of the file store.
\* search_runs returns up to 1000 runs, and no second page is asked for.
Start ==
  /\ pc = "idle"
  /\ \E mode \in CopyModes : copy' = mode
  /\ armed' = TRUE
  /\ fresh' = TRUE
  /\ todo' = Listed
  /\ pc' = "pick"
  /\ UNCHANGED <<experiments, server, run, faults>>

\* migrate: the runs are taken experiment by experiment; no order is assumed.
Pick ==
  /\ pc = "pick"
  /\ \E r \in todo :
       /\ run' = r
       /\ todo' = todo \ {r}
       /\ pc' = IF Experiment[r] \in experiments THEN "search" ELSE "experiment"
  /\ UNCHANGED <<experiments, server, copy, armed, fresh, faults>>

\* The experiment of the run is created unless the server has it.
CreateExperiment ==
  /\ pc = "experiment"
  /\ Call(experiments' = experiments \cup {Experiment[run]} /\ UNCHANGED server,
          "search", "idle")
  /\ UNCHANGED pass

\* Mutants: the search is of active runs only; it finds unmarked runs too.
AlreadyCopied(r) == \E c \in Copies : c.of = r
AlreadyMigratedActive(r) ==
  \E c \in Copies : c.of = r /\ c.marked /\ c.stage = "active"

\* _already_migrated: a run of any lifecycle stage that carries the marker.
AlreadyMigrated(r) == \E c \in Copies : c.of = r /\ c.marked

Search ==
  /\ pc = "search"
  /\ Call(UNCHANGED <<experiments, server>>,
          IF AlreadyMigrated(run) THEN "pick" ELSE "create", "idle")
  /\ UNCHANGED pass

\* Mutant: the marker is among the tags the run is created with.
CreateMarked ==
  /\ pc = "create"
  /\ Call(/\ server' = Append(server,
               [of |-> run, params |-> 0, metrics |-> 0, objects |-> 0,
                artifacts |-> copy, status |-> "RUNNING",
                marked |-> TRUE, stage |-> "active"])
          /\ UNCHANGED experiments, "params", "idle")
  /\ UNCHANGED pass

\* create_run, before the try: a run without the marker.
Create ==
  /\ pc = "create"
  /\ Call(/\ server' = Append(server,
               [of |-> run, params |-> 0, metrics |-> 0, objects |-> 0,
                artifacts |-> copy, status |-> "RUNNING",
                marked |-> FALSE, stage |-> "active"])
          /\ UNCHANGED experiments, "params", "idle")
  /\ UNCHANGED pass

\* A change to the run in hand, inside the try of migrate_run.
Fill(c, next) ==
  /\ Call(server' = [server EXCEPT ![new] = c] /\ UNCHANGED experiments,
          next, "cleanup")
  /\ UNCHANGED pass

Turn(from, to) ==
  /\ pc = from
  /\ pc' = to
  /\ UNCHANGED <<experiments, server, pass, faults>>

LogParams ==
  \/ /\ pc = "params" /\ server[new].params < Params[run]
     /\ Fill([server[new] EXCEPT !.params = Chunked(@, ParamBatch, Params[run])], "params")
  \/ Turn("params", "metrics") /\ server[new].params = Params[run]

LogMetrics ==
  \/ /\ pc = "metrics" /\ server[new].metrics < Metrics[run]
     /\ Fill([server[new] EXCEPT !.metrics = Chunked(@, MetricBatch, Metrics[run])], "metrics")
  \/ Turn("metrics", "artifacts") /\ server[new].metrics = Metrics[run]

Copying == copy /\ run \in InGcs

\* copy_artifacts: one object at a time; a failed rewrite is an exception.
CopyArtifacts ==
  \/ /\ pc = "artifacts" /\ Copying /\ server[new].objects < Objects[run]
     /\ \/ server' = [server EXCEPT ![new].objects = @ + 1] /\ UNCHANGED <<pc, failed, broken>>
        \/ Fails /\ pc' = "cleanup" /\ UNCHANGED server
     /\ UNCHANGED <<experiments, pass, lost>>
  \/ Turn("artifacts", "terminate") /\ (Copying => server[new].objects = Objects[run])

SetTerminated ==
  /\ pc = "terminate"
  /\ Fill([server[new] EXCEPT !.status = TerminalStatus(Status[run])], "mark")

SetMarker ==
  /\ pc = "mark"
  /\ Fill([server[new] EXCEPT !.marked = TRUE],
          IF run \in Retired THEN "retire" ELSE "pick")

\* Mutant: a failed copy is left where it is.
NoCleanup == Turn("cleanup", "idle")

\* The except branch: the partial run is deleted and the exception raised
\* again, or the delete itself raises; either way the pass is over.
Cleanup ==
  /\ pc = "cleanup"
  /\ Call(server' = [server EXCEPT ![new].stage = "deleted"] /\ UNCHANGED experiments,
          "idle", "idle")
  /\ UNCHANGED pass

\* A run deleted in the file store is deleted on the server too.
Retire ==
  /\ pc = "retire"
  /\ Call(server' = [server EXCEPT ![new].stage = "deleted"] /\ UNCHANGED experiments,
          "pick", "idle")
  /\ UNCHANGED pass

Finish == todo = {} /\ Turn("pick", "idle")

\* The program is killed, or the source cannot be read.
Crash ==
  /\ pc # "idle"
  /\ Breaks
  /\ pc' = "idle"
  /\ UNCHANGED <<experiments, server, pass, lost>>

\* use_iap_token on its timer: a fetch that succeeds renews the token and the
\* timer and changes nothing here; one that fails renews neither.
RefreshFails ==
  /\ pc # "idle"
  /\ armed
  /\ Breaks
  /\ armed' = FALSE
  /\ UNCHANGED <<experiments, server, pc, todo, run, copy, fresh, lost>>

\* A token lives for an hour and is renewed at half that.
Expire ==
  /\ pc # "idle"
  /\ fresh /\ ~armed
  /\ fresh' = FALSE
  /\ UNCHANGED <<experiments, server, pc, todo, run, copy, armed, faults>>

Pass ==
  \/ Pick \/ CreateExperiment \/ Search \/ Create
  \/ LogParams \/ LogMetrics \/ CopyArtifacts \/ SetTerminated \/ SetMarker
  \/ Cleanup \/ Retire \/ Finish

Next == Start \/ Pass \/ Crash \/ RefreshFails \/ Expire

Spec == Init /\ [][Next]_vars

\* The operator runs the program again, and a running pass goes on.
FairSpec == Spec /\ WF_vars(Start) /\ WF_vars(Pass)

-----------------------------------------------------------------------------
(* Safety *)

\* "It is set last" (migrate.py:205): whatever calls failed, lost their
\* answer or were cut short, and in whichever pass, a run that carries the
\* marker holds all that the pass set out to copy, and is closed.
MarkedIsWhole == \A c \in Copies : c.marked => Whole(c)

\* "Re-running is safe" (migrate.py:15): however many passes were needed, a
\* source run has at most one copy that counts.
OneMarkedCopy ==
  \A i, j \in 1 .. new :
    server[i].marked /\ server[j].marked /\ server[i].of = server[j].of => i = j

\* The partial runs left in sight on the server, other than the one in hand:
\* a failed call leaves none unless the delete that follows fails as well, so
\* that each has a crash, a lost answer or two failed calls behind it. When
\* the token runs out a call and its delete fail together, and that takes a
\* failed fetch.
LeftoversExplained ==
  LET left == {i \in 1 .. new : ~server[i].marked /\ server[i].stage = "active"
                                  /\ ~(i = new /\ pc \in Filling)}
  IN  Cardinality(left) <= broken + Len(lost) + failed \div 2

(* Liveness *)

\* Faults end, and the operator runs the program again: in the end every run
\* that the client lists (migrate.py:271) has a whole, marked copy. The copy is
\* in sight unless the run was deleted in the file store itself, or the answer
\* of set_tag was lost: then a complete copy is deleted as a partial one, and
\* every later pass skips it for its marker (migrate.py:228-234).
EveryRunMigrated ==
  <>[](\A r \in Listed : \E c \in Copies :
         /\ c.of = r /\ c.marked /\ Whole(c)
         /\ c.stage = "deleted" => r \in Retired \/ "mark" \in ToSet(lost))

=============================================================================
