------------------------ MODULE MlflowMigration_proofs ------------------------
(* Safety of the migration, for every store of runs, batch size and number   *)
(* of faults: a marked run is whole, and a run has one marked copy at most.  *)
EXTENDS MlflowMigration, FiniteSetTheorems, TLAPS

\* What the copy in hand holds when the pass has come to a step.
Progress(c) ==
  /\ pc \in {"metrics", "artifacts", "terminate", "mark"} => c.params = Params[run]
  /\ pc \in {"artifacts", "terminate", "mark"} => c.metrics = Metrics[run]
  /\ pc \in {"terminate", "mark"} => (Copying => c.objects = Objects[run])
  /\ pc = "mark" => c.status = TerminalStatus(Status[run])
  /\ pc # "cleanup" => ~c.marked

\* The copy in hand is the last of the server, of the run in hand and as far
\* as the pass has come; no other copy of that run is marked.
InHand ==
  /\ pc \in Filling =>
       /\ new >= 1
       /\ server[new].of = run /\ server[new].artifacts = copy
       /\ Progress(server[new])
  /\ pc = "create" => \A i \in 1 .. new : server[i].marked => server[i].of # run
  /\ pc \in Filling => \A i \in 1 .. new - 1 : server[i].marked => server[i].of # run

MigrationInv ==
  /\ TypeOK
  /\ InHand
  /\ MarkedIsWhole
  /\ OneMarkedCopy

-----------------------------------------------------------------------------
(* What a call does *)

\* The counters that a step may change stay within their bounds.
LEMMA FaultTypes ==
  ASSUME MigrationAssumption, TypeOK, Fails \/ Breaks \/ UNCHANGED <<failed, broken>>
  PROVE  {failed', broken'} \subseteq Nat /\ failed' + broken' <= MaxFaults
BY DEF MigrationAssumption, TypeOK, Fails, Breaks

\* A call has its effect or changes nothing, and the pass goes one of two ways.
LEMMA CallOutcomes ==
  ASSUME MigrationAssumption, TypeOK, pc \in Calls,
         NEW effect, NEW next, NEW catch, Call(effect, next, catch)
  PROVE  /\ \/ effect /\ pc' \in {next, catch}
            \/ UNCHANGED <<experiments, server>> /\ pc' = catch
         /\ {failed', broken'} \subseteq Nat /\ failed' + broken' <= MaxFaults
         /\ lost' \in Seq(Calls) /\ Len(lost') <= MaxLost
<1>1. CASE fresh /\ effect /\ pc' = next /\ UNCHANGED faults
  BY <1>1 DEF TypeOK, faults
<1>2. CASE /\ fresh /\ effect /\ pc' = catch
           /\ Len(lost) < MaxLost
           /\ lost' = Append(lost, pc) /\ UNCHANGED <<failed, broken>>
  BY <1>2 DEF TypeOK, MigrationAssumption
<1>3. CASE /\ UNCHANGED <<experiments, server, lost>> /\ pc' = catch
           /\ IF fresh THEN Fails ELSE UNCHANGED <<failed, broken>>
  BY <1>3, FaultTypes DEF TypeOK
<1> QED BY <1>1, <1>2, <1>3 DEF Call

\* A step that leaves the server alone and ends the filling keeps the invariant.
LEMMA LeaveInHand ==
  ASSUME MigrationInv, TypeOK', UNCHANGED server, pc' \notin Filling \cup {"create"}
  PROVE  MigrationInv'
<1>1. InHand'
  BY DEF InHand
<1>2. MarkedIsWhole' /\ OneMarkedCopy'
  BY DEF MigrationInv, MarkedIsWhole, OneMarkedCopy, Copies, new
<1> QED BY <1>1, <1>2 DEF MigrationInv

\* The copy in hand may be changed as long as it does not get the marker
\* before it is whole: nothing else on the server is touched.
LEMMA ChangeInHand ==
  ASSUME MigrationAssumption, MigrationInv, pc \in Filling, NEW c \in Record,
         server' = [server EXCEPT ![new] = c], c.of = run,
         c.params <= Params[run], c.metrics <= Metrics[run], c.objects <= Objects[run],
         c.marked => Whole(c)
  PROVE  /\ server' \in Seq(Record) /\ new' = new /\ server'[new] = c
         /\ \A d \in Copies' : /\ d.params <= Params[d.of] /\ d.metrics <= Metrics[d.of]
                               /\ d.objects <= Objects[d.of]
         /\ MarkedIsWhole' /\ OneMarkedCopy'
         /\ \A i \in 1 .. new - 1 : server'[i].marked => server'[i].of # run
<1>1. server \in Seq(Record) /\ new \in 1 .. Len(server)
  BY DEF MigrationInv, TypeOK, InHand, new
<1>2. /\ server' \in Seq(Record) /\ new' = new /\ server'[new] = c
      /\ \A i \in 1 .. new : i # new => server'[i] = server[i]
  BY <1>1 DEF new
<1>3. \A d \in Copies' : d = c \/ d \in Copies
  BY <1>1, <1>2 DEF Copies
<1>4. \A d \in Copies' : /\ d.params <= Params[d.of] /\ d.metrics <= Metrics[d.of]
                         /\ d.objects <= Objects[d.of]
  BY <1>3 DEF MigrationInv, TypeOK
<1>5. MarkedIsWhole'
  BY <1>3 DEF MigrationInv, MarkedIsWhole, Whole
<1>6. \A i \in 1 .. new - 1 : server'[i].marked => server'[i].of # run
  BY <1>1, <1>2 DEF MigrationInv, InHand
<1>7. OneMarkedCopy'
  <2> SUFFICES ASSUME NEW i \in 1 .. new, NEW j \in 1 .. new,
                      server'[i].marked, server'[j].marked,
                      server'[i].of = server'[j].of
               PROVE  i = j
    BY <1>2 DEF OneMarkedCopy
  <2>1. CASE i # new /\ j # new
    BY <1>1, <1>2, <2>1 DEF MigrationInv, OneMarkedCopy
  <2>2. CASE i = new \/ j = new
    BY <1>1, <1>2, <1>6, <2>2
  <2> QED BY <2>1, <2>2
<1> QED BY <1>2, <1>4, <1>5, <1>6, <1>7

-----------------------------------------------------------------------------
(* The steps *)

LEMMA InitMigrationInv == ASSUME MigrationAssumption, Init PROVE MigrationInv
<1>1. TypeOK
  <2>1. server \in Seq(Record) /\ Copies = {} /\ lost \in Seq(Calls) /\ Len(lost) <= MaxLost
    BY DEF MigrationAssumption, Init, Copies, new
  <2>2. failed + broken <= MaxFaults
    BY DEF MigrationAssumption, Init
  <2>3. pc \in Calls \cup {"artifacts", "idle", "pick"} /\ {copy, armed, fresh} \subseteq BOOLEAN
    BY DEF MigrationAssumption, Init
  <2> QED BY <2>1, <2>2, <2>3 DEF Init, TypeOK
<1>2. InHand /\ MarkedIsWhole /\ OneMarkedCopy
  BY DEF Init, InHand, MarkedIsWhole, OneMarkedCopy, Copies, new, Filling
<1> QED BY <1>1, <1>2 DEF MigrationInv

LEMMA StartInv == ASSUME MigrationAssumption, MigrationInv, Start PROVE MigrationInv'
<1>1. TypeOK'
  BY DEF MigrationAssumption, MigrationInv, TypeOK, Start, faults, Copies, new
<1> QED BY <1>1, LeaveInHand DEF Start, Filling

LEMMA PickInv == ASSUME MigrationAssumption, MigrationInv, Pick PROVE MigrationInv'
<1>1. TypeOK'
  BY DEF MigrationInv, TypeOK, Pick, faults, Copies, new, Calls
<1> QED BY <1>1, LeaveInHand DEF Pick, Filling

LEMMA CreateExperimentInv ==
  ASSUME MigrationAssumption, MigrationInv, CreateExperiment PROVE MigrationInv'
<1> DEFINE effect == experiments' = experiments \cup {Experiment[run]} /\ UNCHANGED server
<1>1. pc \in Calls /\ Call(effect, "search", "idle") /\ UNCHANGED pass
  BY DEF CreateExperiment, Calls
<1>2. /\ UNCHANGED server /\ pc' \in {"search", "idle"}
      /\ experiments' \subseteq experiments \cup {Experiment[run]}
      /\ {failed', broken'} \subseteq Nat /\ failed' + broken' <= MaxFaults
      /\ lost' \in Seq(Calls) /\ Len(lost') <= MaxLost
  <2> HIDE DEF effect
  <2>1. effect => UNCHANGED server /\ experiments' \subseteq experiments \cup {Experiment[run]}
    BY DEF effect
  <2> QED BY <1>1, <2>1, CallOutcomes DEF MigrationInv
<1>3. TypeOK'
  BY <1>1, <1>2 DEF MigrationInv, TypeOK, pass, Copies, new, Calls
<1> QED BY <1>2, <1>3, LeaveInHand DEF Filling

LEMMA SearchInv == ASSUME MigrationAssumption, MigrationInv, Search PROVE MigrationInv'
<1> DEFINE effect == UNCHANGED <<experiments, server>>
           then == IF AlreadyMigrated(run) THEN "pick" ELSE "create"
<1>1. pc \in Calls /\ Call(effect, then, "idle") /\ UNCHANGED pass
  BY DEF Search, Calls
<1>2. /\ UNCHANGED <<experiments, server>> /\ pc' \in {then, "idle"}
      /\ {failed', broken'} \subseteq Nat /\ failed' + broken' <= MaxFaults
      /\ lost' \in Seq(Calls) /\ Len(lost') <= MaxLost
  <2> HIDE DEF effect, then
  <2>1. effect => UNCHANGED <<experiments, server>>
    BY DEF effect
  <2> QED BY <1>1, <2>1, CallOutcomes DEF MigrationInv
<1>3. TypeOK'
  BY <1>1, <1>2 DEF MigrationInv, TypeOK, pass, Copies, new, Calls
<1>4. CASE pc' = "idle" \/ pc' = "pick"
  BY <1>2, <1>3, <1>4, LeaveInHand DEF Filling
<1>5. CASE pc' = "create" /\ ~AlreadyMigrated(run)
  <2>1. \A i \in 1 .. new : server[i].marked => server[i].of # run
    BY <1>5 DEF AlreadyMigrated, Copies
  <2>2. InHand'
    BY <1>1, <1>2, <1>5, <2>1 DEF InHand, Filling, pass, new
  <2>3. MarkedIsWhole' /\ OneMarkedCopy'
    BY <1>2 DEF MigrationInv, MarkedIsWhole, OneMarkedCopy, Copies, new
  <2> QED BY <1>3, <2>2, <2>3 DEF MigrationInv
<1> QED BY <1>2, <1>4, <1>5

LEMMA CreateInv == ASSUME MigrationAssumption, MigrationInv, Create PROVE MigrationInv'
<1> DEFINE c == [of |-> run, params |-> 0, metrics |-> 0, objects |-> 0,
                 artifacts |-> copy, status |-> "RUNNING",
                 marked |-> FALSE, stage |-> "active"]
           effect == server' = Append(server, c) /\ UNCHANGED experiments
<1>1. pc = "create" /\ Call(effect, "params", "idle") /\ UNCHANGED pass
  BY DEF Create
<1>2. c \in Record /\ c.of = run /\ c.params = 0 /\ c.metrics = 0 /\ c.objects = 0
      /\ c.artifacts = copy /\ c.marked = FALSE
  BY DEF Record, MigrationInv, TypeOK, Statuses
<1> HIDE DEF c
<1>3. /\ \/ effect /\ pc' \in {"params", "idle"}
         \/ UNCHANGED <<experiments, server>> /\ pc' = "idle"
      /\ {failed', broken'} \subseteq Nat /\ failed' + broken' <= MaxFaults
      /\ lost' \in Seq(Calls) /\ Len(lost') <= MaxLost
  <2>1. pc \in Calls
    BY <1>1 DEF Calls
  <2> HIDE DEF effect
  <2> QED BY <1>1, <2>1, CallOutcomes DEF MigrationInv
<1>4. CASE UNCHANGED <<experiments, server>> /\ pc' = "idle"
  <2>1. TypeOK'
    BY <1>1, <1>3, <1>4 DEF MigrationInv, TypeOK, pass, Copies, new, Calls
  <2> QED BY <1>4, <2>1, LeaveInHand DEF Filling
<1>5. CASE effect /\ pc' \in {"params", "idle"}
  <2>1. /\ server' \in Seq(Record) /\ new' = new + 1 /\ server'[new'] = c
        /\ new \in Nat
        /\ \A i \in 1 .. new : server'[i] = server[i]
        /\ 1 .. new' = (1 .. new) \cup {new'} /\ new' - 1 = new /\ new' >= 1
    BY <1>2, <1>5 DEF MigrationInv, TypeOK, new
  <2>2. \A d \in Copies' : d = c \/ d \in Copies
    BY <2>1 DEF Copies
  <2>3. TypeOK'
    <3>1. \A d \in Copies' : /\ d.params <= Params[d.of] /\ d.metrics <= Metrics[d.of]
                             /\ d.objects <= Objects[d.of]
      <4>1. /\ 0 <= Params[run] /\ 0 <= Metrics[run] /\ 0 <= Objects[run]
        BY DEF MigrationAssumption, MigrationInv, TypeOK
      <4> QED BY <1>2, <2>2, <4>1 DEF MigrationInv, TypeOK
    <3> QED BY <1>1, <1>3, <1>5, <2>1, <3>1 DEF MigrationInv, TypeOK, pass, Calls, Filling
  <2>4. \A i \in 1 .. new : server'[i].marked => server'[i].of # run
    BY <1>1, <2>1 DEF MigrationInv, InHand
  <2>5. InHand'
    BY <1>1, <1>2, <1>5, <2>1, <2>4 DEF InHand, Progress, Filling, pass
  <2>6. MarkedIsWhole'
    BY <1>2, <2>2 DEF MigrationInv, MarkedIsWhole, Whole
  <2>7. OneMarkedCopy'
    <3> SUFFICES ASSUME NEW i \in 1 .. new', NEW j \in 1 .. new',
                        server'[i].marked, server'[j].marked,
                        server'[i].of = server'[j].of
                 PROVE  i = j
      BY DEF OneMarkedCopy
    <3>1. i \in 1 .. new /\ j \in 1 .. new
      BY <1>2, <2>1
    <3> QED BY <2>1, <3>1 DEF MigrationInv, OneMarkedCopy
  <2> QED BY <2>3, <2>5, <2>6, <2>7 DEF MigrationInv
<1> QED BY <1>3, <1>4, <1>5

\* A change of the copy in hand by a call, except for the marker.
LEMMA FillInv ==
  ASSUME MigrationAssumption, MigrationInv, pc \in Filling \ {"artifacts"},
         NEW c \in Record, c.of = run, c.artifacts = copy,
         c.params <= Params[run], c.metrics <= Metrics[run], c.objects <= Objects[run],
         c.marked => Whole(c),
         NEW next \in {"params", "metrics", "mark", "pick", "retire"}, Fill(c, next),
         next \in Filling => ~c.marked,
         next \in {"metrics", "mark"} => c.params = Params[run],
         next = "mark" =>
           /\ c.metrics = Metrics[run] /\ (Copying => c.objects = Objects[run])
           /\ c.status = TerminalStatus(Status[run])
  PROVE  MigrationInv'
<1> DEFINE effect == server' = [server EXCEPT ![new] = c] /\ UNCHANGED experiments
<1>1. pc \in Calls /\ Call(effect, next, "cleanup") /\ UNCHANGED pass
  BY DEF Fill, Calls
<1>2. /\ \/ effect /\ pc' \in {next, "cleanup"}
         \/ UNCHANGED <<experiments, server>> /\ pc' = "cleanup"
      /\ {failed', broken'} \subseteq Nat /\ failed' + broken' <= MaxFaults
      /\ lost' \in Seq(Calls) /\ Len(lost') <= MaxLost
  <2> HIDE DEF effect
  <2> QED BY <1>1, CallOutcomes DEF MigrationInv
<1>3. CASE UNCHANGED <<experiments, server>> /\ pc' = "cleanup"
  <2>1. TypeOK'
    BY <1>1, <1>2, <1>3 DEF MigrationInv, TypeOK, pass, Copies, new, Calls, Filling
  <2>2. InHand'
    BY <1>1, <1>3 DEF MigrationInv, InHand, Progress, Filling, pass, new
  <2>3. MarkedIsWhole' /\ OneMarkedCopy'
    BY <1>3 DEF MigrationInv, MarkedIsWhole, OneMarkedCopy, Copies, new
  <2> QED BY <2>1, <2>2, <2>3 DEF MigrationInv
<1>4. CASE effect /\ pc' \in {next, "cleanup"}
  <2>1. /\ server' \in Seq(Record) /\ new' = new /\ server'[new] = c
        /\ \A d \in Copies' : /\ d.params <= Params[d.of] /\ d.metrics <= Metrics[d.of]
                              /\ d.objects <= Objects[d.of]
        /\ MarkedIsWhole' /\ OneMarkedCopy'
        /\ \A i \in 1 .. new - 1 : server'[i].marked => server'[i].of # run
    BY <1>4, ChangeInHand
  <2>2. TypeOK'
    BY <1>1, <1>2, <1>4, <2>1 DEF MigrationInv, TypeOK, pass, Calls, Filling
  <2>3. new >= 1
    BY DEF MigrationInv, InHand
  <2>4. pc' \in Filling => Progress(server[new])'
    BY <1>1, <1>4, <2>1 DEF Progress, Filling, Copying, pass
  <2>5. InHand'
    BY <1>1, <1>4, <2>1, <2>3, <2>4 DEF InHand, Filling, pass
  <2> QED BY <2>1, <2>2, <2>5 DEF MigrationInv
<1> QED BY <1>2, <1>3, <1>4

\* What is known of the copy in hand.
LEMMA TheCopyInHand ==
  ASSUME MigrationAssumption, MigrationInv, pc \in Filling
  PROVE  /\ server[new] \in Record /\ server[new].of = run /\ run \in Runs
         /\ server[new].artifacts = copy
         /\ server[new].params <= Params[run] /\ server[new].metrics <= Metrics[run]
         /\ server[new].objects <= Objects[run]
         /\ Params[run] \in Nat /\ Metrics[run] \in Nat /\ Objects[run] \in Nat
         /\ server[new].marked => Whole(server[new])
         /\ Progress(server[new])
<1>1. server \in Seq(Record) /\ new \in 1 .. Len(server) /\ run \in Runs
  BY DEF MigrationInv, TypeOK, InHand, new
<1>2. server[new] \in Record /\ server[new] \in Copies
  BY <1>1 DEF Copies
<1> QED BY <1>1, <1>2 DEF MigrationInv, TypeOK, InHand, MarkedIsWhole, MigrationAssumption

\* chunked never sends more than there is.
LEMMA ChunkedBounds ==
  ASSUME NEW total \in Nat, NEW done \in Nat, NEW size \in Nat
  PROVE  Chunked(done, size, total) \in Nat /\ Chunked(done, size, total) <= total
BY DEF Chunked

\* The next step of the try, with nothing changed on the server.
LEMMA TurnInv ==
  ASSUME MigrationAssumption, MigrationInv, pc \in Filling,
         NEW to \in {"metrics", "artifacts", "terminate"}, Turn(pc, to), pc # "cleanup",
         pc' = to => Progress(server[new])'
  PROVE  MigrationInv'
<1>1. TypeOK'
  BY DEF Turn, MigrationInv, TypeOK, pass, faults, Copies, new, Calls, Filling
<1>2. InHand'
  BY DEF Turn, MigrationInv, InHand, Filling, pass, new
<1>3. MarkedIsWhole' /\ OneMarkedCopy'
  BY DEF Turn, MigrationInv, MarkedIsWhole, OneMarkedCopy, Copies, new
<1> QED BY <1>1, <1>2, <1>3 DEF MigrationInv

LEMMA LogParamsInv == ASSUME MigrationAssumption, MigrationInv, LogParams PROVE MigrationInv'
<1>0. pc = "params" /\ pc \in Filling
  BY DEF LogParams, Turn, Filling
<1>1. CASE Turn("params", "metrics") /\ server[new].params = Params[run]
  <2>1. Progress(server[new])'
    BY <1>0, <1>1, TheCopyInHand DEF Progress, Turn, new, pass
  <2> QED BY <1>0, <1>1, <2>1, TurnInv
<1>2. CASE /\ server[new].params < Params[run]
           /\ Fill([server[new] EXCEPT !.params = Chunked(@, ParamBatch, Params[run])], "params")
  <2> DEFINE n == Chunked(server[new].params, ParamBatch, Params[run])
             c == [server[new] EXCEPT !.params = n]
  <2>1. n \in Nat /\ n <= Params[run]
    <3>1. server[new].params \in Nat
      BY <1>0, TheCopyInHand DEF Record
    <3> QED BY <1>0, <3>1, TheCopyInHand, ChunkedBounds DEF MigrationAssumption
  <2> HIDE DEF n
  <2>2. /\ c \in Record /\ c.of = run /\ c.artifacts = copy /\ c.params = n /\ ~c.marked
        /\ c.metrics <= Metrics[run] /\ c.objects <= Objects[run]
    BY <1>0, <2>1, TheCopyInHand DEF Record, Progress
  <2>3. Fill(c, "params")
    BY <1>2 DEF n
  <2> HIDE DEF c
  <2> QED BY <1>0, <2>1, <2>2, <2>3, FillInv
<1> QED BY <1>1, <1>2 DEF LogParams

LEMMA LogMetricsInv ==
  ASSUME MigrationAssumption, MigrationInv, LogMetrics PROVE MigrationInv'
<1>0. pc = "metrics" /\ pc \in Filling
  BY DEF LogMetrics, Turn, Filling
<1>1. CASE Turn("metrics", "artifacts") /\ server[new].metrics = Metrics[run]
  <2>1. Progress(server[new])'
    BY <1>0, <1>1, TheCopyInHand DEF Progress, Turn, new, pass
  <2> QED BY <1>0, <1>1, <2>1, TurnInv
<1>2. CASE /\ server[new].metrics < Metrics[run]
           /\ Fill([server[new] EXCEPT !.metrics = Chunked(@, MetricBatch, Metrics[run])], "metrics")
  <2> DEFINE n == Chunked(server[new].metrics, MetricBatch, Metrics[run])
             c == [server[new] EXCEPT !.metrics = n]
  <2>1. n \in Nat /\ n <= Metrics[run]
    <3>1. server[new].metrics \in Nat
      BY <1>0, TheCopyInHand DEF Record
    <3> QED BY <1>0, <3>1, TheCopyInHand, ChunkedBounds DEF MigrationAssumption
  <2> HIDE DEF n
  <2>2. /\ c \in Record /\ c.of = run /\ c.artifacts = copy /\ c.metrics = n /\ ~c.marked
        /\ c.params = Params[run] /\ c.objects <= Objects[run]
    BY <1>0, <2>1, TheCopyInHand DEF Record, Progress
  <2>3. Fill(c, "metrics")
    BY <1>2 DEF n
  <2>4. Params[run] <= Params[run]
    BY <1>0, TheCopyInHand
  <2> HIDE DEF c
  <2> QED BY <1>0, <2>1, <2>2, <2>3, <2>4, FillInv
<1> QED BY <1>1, <1>2 DEF LogMetrics

LEMMA CopyArtifactsInv ==
  ASSUME MigrationAssumption, MigrationInv, CopyArtifacts PROVE MigrationInv'
<1>0. pc = "artifacts" /\ pc \in Filling
  BY DEF CopyArtifacts, Turn, Filling
<1>1. CASE Turn("artifacts", "terminate") /\ (Copying => server[new].objects = Objects[run])
  <2>1. Progress(server[new])'
    BY <1>0, <1>1, TheCopyInHand DEF Progress, Turn, new, pass, Copying
  <2> QED BY <1>0, <1>1, <2>1, TurnInv
<1>2. CASE /\ server[new].objects < Objects[run]
           /\ server' = [server EXCEPT ![new].objects = @ + 1]
           /\ UNCHANGED <<pc, failed, broken, experiments, pass, lost>>
  <2> DEFINE c == [server[new] EXCEPT !.objects = @ + 1]
  <2>1. /\ c \in Record /\ c.of = run /\ c.artifacts = copy /\ ~c.marked
        /\ c.params = Params[run] /\ c.metrics = Metrics[run] /\ c.objects <= Objects[run]
        /\ Params[run] <= Params[run] /\ Metrics[run] <= Metrics[run]
    BY <1>0, <1>2, TheCopyInHand DEF Record, Progress
  <2>2. server' = [server EXCEPT ![new] = c]
    BY <1>2
  <2> HIDE DEF c
  <2>3. /\ server' \in Seq(Record) /\ new' = new /\ server'[new] = c
        /\ \A d \in Copies' : /\ d.params <= Params[d.of] /\ d.metrics <= Metrics[d.of]
                              /\ d.objects <= Objects[d.of]
        /\ MarkedIsWhole' /\ OneMarkedCopy'
        /\ \A i \in 1 .. new - 1 : server'[i].marked => server'[i].of # run
    BY <1>0, <2>1, <2>2, ChangeInHand
  <2>4. TypeOK'
    BY <1>2, <2>3 DEF MigrationInv, TypeOK, pass
  <2>5. InHand'
    BY <1>0, <1>2, <2>1, <2>3 DEF MigrationInv, InHand, Progress, Filling, pass
  <2> QED BY <2>3, <2>4, <2>5 DEF MigrationInv
<1>3. CASE Fails /\ pc' = "cleanup" /\ UNCHANGED <<server, experiments, pass, lost>>
  <2>1. TypeOK'
    BY <1>3, FaultTypes DEF MigrationInv, TypeOK, pass, Copies, new, Calls, Filling
  <2>2. InHand'
    BY <1>0, <1>3 DEF MigrationInv, InHand, Progress, Filling, pass, new
  <2>3. MarkedIsWhole' /\ OneMarkedCopy'
    BY <1>3 DEF MigrationInv, MarkedIsWhole, OneMarkedCopy, Copies, new
  <2> QED BY <2>1, <2>2, <2>3 DEF MigrationInv
<1> QED BY <1>1, <1>2, <1>3 DEF CopyArtifacts

LEMMA SetTerminatedInv ==
  ASSUME MigrationAssumption, MigrationInv, SetTerminated PROVE MigrationInv'
<1> DEFINE c == [server[new] EXCEPT !.status = TerminalStatus(Status[run])]
<1>0. pc = "terminate" /\ pc \in Filling /\ Fill(c, "mark")
  BY DEF SetTerminated, Filling
<1>1. TerminalStatus(Status[run]) \in Statuses
  BY <1>0, TheCopyInHand DEF MigrationAssumption, TerminalStatus, Statuses
<1>2. /\ c \in Record /\ c.of = run /\ c.artifacts = copy /\ ~c.marked
      /\ c.params = Params[run] /\ c.metrics = Metrics[run]
      /\ c.objects <= Objects[run] /\ (Copying => c.objects = Objects[run])
      /\ c.status = TerminalStatus(Status[run])
      /\ Params[run] <= Params[run] /\ Metrics[run] <= Metrics[run]
  BY <1>0, <1>1, TheCopyInHand DEF Record, Progress
<1> HIDE DEF c
<1> QED BY <1>0, <1>2, FillInv

\* The marker is set on a copy that is whole.
LEMMA SetMarkerInv == ASSUME MigrationAssumption, MigrationInv, SetMarker PROVE MigrationInv'
<1> DEFINE c == [server[new] EXCEPT !.marked = TRUE]
           next == IF run \in Retired THEN "retire" ELSE "pick"
<1>0. pc = "mark" /\ pc \in Filling /\ Fill(c, next)
  BY DEF SetMarker, Filling
<1>1. /\ c \in Record /\ c.of = run /\ c.artifacts = copy
      /\ c.params = Params[run] /\ c.metrics = Metrics[run]
      /\ c.objects <= Objects[run] /\ (Copying => c.objects = Objects[run])
      /\ c.status = TerminalStatus(Status[run])
      /\ Params[run] <= Params[run] /\ Metrics[run] <= Metrics[run]
  BY <1>0, TheCopyInHand DEF Record, Progress
<1> HIDE DEF c
<1>2. Whole(c)
  BY <1>1 DEF Whole, Copying
<1>3. next \in {"pick", "retire"} /\ next \notin Filling
  BY DEF Filling
<1> HIDE DEF next
<1> QED BY <1>0, <1>1, <1>2, <1>3, FillInv

\* Deleting the last run of the server, or nothing, touches no marker.
LEMMA DeletedInv ==
  ASSUME MigrationAssumption, MigrationInv, pc \in Calls,
         Call(server' = [server EXCEPT ![new].stage = "deleted"] /\ UNCHANGED experiments,
              "idle", "idle") \/
         Call(server' = [server EXCEPT ![new].stage = "deleted"] /\ UNCHANGED experiments,
              "pick", "idle"),
         UNCHANGED pass
  PROVE  MigrationInv'
<1> DEFINE effect == server' = [server EXCEPT ![new].stage = "deleted"] /\ UNCHANGED experiments
<1>1. /\ \/ effect /\ pc' \in {"pick", "idle"}
         \/ UNCHANGED <<experiments, server>> /\ pc' = "idle"
      /\ {failed', broken'} \subseteq Nat /\ failed' + broken' <= MaxFaults
      /\ lost' \in Seq(Calls) /\ Len(lost') <= MaxLost
  <2>1. Call(effect, "idle", "idle") \/ Call(effect, "pick", "idle")
    OBVIOUS
  <2> HIDE DEF effect
  <2> QED BY <2>1, CallOutcomes DEF MigrationInv
<1>2. CASE UNCHANGED <<experiments, server>> /\ pc' = "idle"
  <2>1. TypeOK'
    BY <1>1, <1>2 DEF MigrationInv, TypeOK, pass, Copies, new, Calls
  <2> QED BY <1>2, <2>1, LeaveInHand DEF Filling
<1>3. CASE effect /\ pc' \in {"pick", "idle"}
  <2>1. /\ server' \in Seq(Record) /\ new' = new
        /\ \A i \in 1 .. new :
             /\ server'[i].marked = server[i].marked /\ server'[i].of = server[i].of
             /\ server'[i].params = server[i].params /\ server'[i].metrics = server[i].metrics
             /\ server'[i].objects = server[i].objects
             /\ server'[i].artifacts = server[i].artifacts
             /\ server'[i].status = server[i].status
    <3> DEFINE c == [server[new] EXCEPT !.stage = "deleted"]
    <3>1. server \in Seq(Record) /\ server' = [server EXCEPT ![new] = c]
      BY <1>3 DEF MigrationInv, TypeOK
    <3>2. CASE new = 0
      <4>1. server = [i \in 1 .. Len(server) |-> server[i]] /\ 0 \notin 1 .. Len(server)
        BY <3>1
      <4>2. server' = server
        BY <3>1, <3>2, <4>1
      <4> QED BY <3>1, <4>2 DEF new
    <3>3. CASE new # 0
      <4>1. new \in 1 .. Len(server) /\ server[new] \in Record
        BY <3>1, <3>3 DEF new
      <4>2. /\ c \in Record
            /\ c.marked = server[new].marked /\ c.of = server[new].of
            /\ c.params = server[new].params /\ c.metrics = server[new].metrics
            /\ c.objects = server[new].objects /\ c.artifacts = server[new].artifacts
            /\ c.status = server[new].status
        BY <4>1 DEF Record
      <4> HIDE DEF c
      <4> QED BY <3>1, <4>1, <4>2 DEF new
    <3> QED BY <3>2, <3>3
  <2>2. TypeOK'
    <3>1. \A d \in Copies' : /\ d.params <= Params[d.of] /\ d.metrics <= Metrics[d.of]
                             /\ d.objects <= Objects[d.of]
      <4> SUFFICES ASSUME NEW d \in Copies'
                   PROVE  /\ d.params <= Params[d.of] /\ d.metrics <= Metrics[d.of]
                          /\ d.objects <= Objects[d.of]
        OBVIOUS
      <4>1. PICK i \in 1 .. new : d = server'[i]
        BY <2>1 DEF Copies
      <4>2. server[i] \in Copies
        BY DEF Copies
      <4> QED BY <2>1, <4>1, <4>2 DEF MigrationInv, TypeOK
    <3> QED BY <1>1, <1>3, <2>1, <3>1 DEF MigrationInv, TypeOK, pass, Calls
  <2>3. InHand'
    BY <1>3 DEF InHand, Filling
  <2>4. MarkedIsWhole'
    <3> SUFFICES ASSUME NEW d \in Copies', d.marked PROVE Whole(d)
      BY DEF MarkedIsWhole, Whole
    <3>1. PICK i \in 1 .. new : d = server'[i]
      BY <2>1 DEF Copies
    <3>2. server[i] \in Copies
      BY DEF Copies
    <3> QED BY <2>1, <3>1, <3>2 DEF MigrationInv, MarkedIsWhole, Whole
  <2>5. OneMarkedCopy'
    <3> SUFFICES ASSUME NEW i \in 1 .. new, NEW j \in 1 .. new,
                        server'[i].marked, server'[j].marked,
                        server'[i].of = server'[j].of
                 PROVE  i = j
      BY <2>1 DEF OneMarkedCopy
    <3> QED BY <2>1 DEF MigrationInv, OneMarkedCopy
  <2> QED BY <2>2, <2>3, <2>4, <2>5 DEF MigrationInv
<1> QED BY <1>1, <1>2, <1>3

\* The failures of the token and the end of a pass.
LEMMA TokenInv ==
  ASSUME MigrationAssumption, MigrationInv, RefreshFails \/ Expire \/ UNCHANGED vars
  PROVE  MigrationInv'
<1>1. /\ UNCHANGED <<experiments, server, pc, todo, run, copy, lost>>
      /\ {armed', fresh'} \subseteq BOOLEAN
      /\ Breaks \/ UNCHANGED <<failed, broken>>
  BY DEF RefreshFails, Expire, vars, pass, faults, MigrationInv, TypeOK
<1>2. TypeOK'
  BY <1>1, FaultTypes DEF MigrationInv, TypeOK, Copies, new
<1>3. InHand'
  BY <1>1 DEF MigrationInv, InHand, Progress, Copying, new
<1>4. MarkedIsWhole' /\ OneMarkedCopy'
  BY <1>1 DEF MigrationInv, MarkedIsWhole, OneMarkedCopy, Copies, new
<1> QED BY <1>2, <1>3, <1>4 DEF MigrationInv

LEMMA EndInv ==
  ASSUME MigrationAssumption, MigrationInv, Crash \/ Finish PROVE MigrationInv'
<1>1. /\ UNCHANGED <<experiments, server, pass, lost>> /\ pc' = "idle"
      /\ Breaks \/ UNCHANGED <<failed, broken>>
  BY DEF Crash, Finish, Turn, faults
<1>2. TypeOK'
  BY <1>1, FaultTypes DEF MigrationInv, TypeOK, pass, Copies, new
<1> QED BY <1>1, <1>2, LeaveInHand DEF Filling

-----------------------------------------------------------------------------
(* Theorems *)

\* The invariant of the migration.
THEOREM MigrationInvariant == Spec => []MigrationInv
<1>1. Init => MigrationInv
  BY InitMigrationInv, MigrationAssumption
<1>2. MigrationInv /\ [Next]_vars => MigrationInv'
  <2> SUFFICES ASSUME MigrationInv, [Next]_vars PROVE MigrationInv'
    OBVIOUS
  <2> USE MigrationAssumption
  <2>1. CASE Start
    BY <2>1, StartInv
  <2>2. CASE Pick \/ CreateExperiment \/ Search \/ Create
    BY <2>2, PickInv, CreateExperimentInv, SearchInv, CreateInv
  <2>3. CASE LogParams \/ LogMetrics \/ CopyArtifacts
    BY <2>3, LogParamsInv, LogMetricsInv, CopyArtifactsInv
  <2>4. CASE SetTerminated \/ SetMarker
    BY <2>4, SetTerminatedInv, SetMarkerInv
  <2>5. CASE Cleanup \/ Retire
    BY <2>5, DeletedInv DEF Cleanup, Retire, Calls, Filling
  <2>6. CASE Finish \/ Crash
    BY <2>6, EndInv
  <2>7. CASE RefreshFails \/ Expire \/ UNCHANGED vars
    BY <2>7, TokenInv
  <2> QED BY <2>1, <2>2, <2>3, <2>4, <2>5, <2>6, <2>7 DEF Next, Pass
<1> QED BY <1>1, <1>2, PTL DEF Spec

\* Every state of the migration is well typed.
THEOREM MigrationTypeCorrect == Spec => []TypeOK
<1>1. MigrationInv => TypeOK
  BY DEF MigrationInv
<1> QED BY <1>1, MigrationInvariant, PTL

\* A run that carries the marker is a whole copy (migrate.py:205).
THEOREM MarkedRunsWhole == Spec => []MarkedIsWhole
<1>1. MigrationInv => MarkedIsWhole
  BY DEF MigrationInv
<1> QED BY <1>1, MigrationInvariant, PTL

\* Re-running never makes a second marked copy (migrate.py:18).
THEOREM MarkedOnce == Spec => []OneMarkedCopy
<1>1. MigrationInv => OneMarkedCopy
  BY DEF MigrationInv
<1> QED BY <1>1, MigrationInvariant, PTL

-----------------------------------------------------------------------------
(* Leftovers *)

\* The partial runs in sight, other than the one in hand.
Left ==
  {i \in 1 .. new : ~server[i].marked /\ server[i].stage = "active"
                      /\ ~(i = new /\ pc \in Filling)}

\* What the faults so far can account for, in halves of a leftover.
Paid == 2 * (broken + Len(lost)) + failed

\* What is owed to a leftover that may still come: the one that follows when
\* the token of this pass runs out, or when the delete at hand fails too.
Owed ==
  IF pc # "idle" /\ ~armed THEN 2 ELSE IF pc = "cleanup" THEN 1 ELSE 0

\* A leftover costs a crash, a lost answer, a failed fetch or two failed calls.
FaultsPay ==
  /\ pc # "idle" /\ ~fresh => ~armed
  /\ 2 * Cardinality(Left) + Owed <= Paid

LEMMA LeftFinite ==
  ASSUME TypeOK PROVE IsFiniteSet(Left) /\ Cardinality(Left) \in Nat /\ Paid \in Nat
<1>1. IsFiniteSet(1 .. new) /\ Left \in SUBSET (1 .. new)
  BY FS_Interval DEF TypeOK, new, Left
<1>2. IsFiniteSet(Left)
  BY <1>1, FS_Subset
<1>3. failed \in Nat /\ broken \in Nat /\ Len(lost) \in Nat
  BY DEF TypeOK
<1> QED BY <1>2, <1>3, FS_CardinalityType DEF Paid

LEMMA LeftFiniteNext ==
  ASSUME TypeOK' PROVE IsFiniteSet(Left') /\ Cardinality(Left)' \in Nat /\ Paid' \in Nat
<1>1. IsFiniteSet(1 .. new') /\ Left' \in SUBSET (1 .. new')
  BY FS_Interval DEF TypeOK, new, Left
<1>2. IsFiniteSet(Left')
  BY <1>1, FS_Subset
<1>3. failed' \in Nat /\ broken' \in Nat /\ Len(lost') \in Nat
  BY DEF TypeOK
<1> QED BY <1>2, <1>3, FS_CardinalityType DEF Paid

\* A step leaves as many partial runs as before, or one more.
LEMMA NoMoreLeft ==
  ASSUME TypeOK, TypeOK', Left' \subseteq Left PROVE Cardinality(Left)' <= Cardinality(Left)
BY LeftFinite, LeftFiniteNext, FS_Subset

LEMMA OneMoreLeft ==
  ASSUME TypeOK, TypeOK', NEW i, Left' \subseteq Left \cup {i}
  PROVE  Cardinality(Left)' <= Cardinality(Left) + 1
<1>1. IsFiniteSet(Left) /\ Cardinality(Left) \in Nat /\ Cardinality(Left)' \in Nat
  BY LeftFinite, LeftFiniteNext
<1>2. /\ IsFiniteSet(Left \cup {i})
      /\ Cardinality(Left \cup {i}) \in {Cardinality(Left), Cardinality(Left) + 1}
  BY <1>1, FS_AddElement
<1>3. Cardinality(Left') <= Cardinality(Left \cup {i})
  BY <1>2, FS_Subset
<1> QED BY <1>1, <1>2, <1>3

\* What a call pays: nothing when it answers, a leftover when its answer is
\* lost, half of one when it fails, and nothing when the token has run out.
LEMMA CallPays ==
  ASSUME TypeOK, NEW effect, NEW next, NEW catch, Call(effect, next, catch)
  PROVE  \/ effect /\ pc' = next /\ Paid' = Paid
         \/ effect /\ pc' = catch /\ Paid' = Paid + 2
         \/ UNCHANGED server /\ pc' = catch /\ (IF fresh THEN Paid' = Paid + 1 ELSE Paid' = Paid)
<1>0. failed \in Nat /\ broken \in Nat /\ Len(lost) \in Nat /\ lost \in Seq(Calls)
  BY DEF TypeOK
<1>1. CASE fresh /\ effect /\ pc' = next /\ UNCHANGED faults
  BY <1>1 DEF faults, Paid
<1>2. CASE /\ fresh /\ effect /\ pc' = catch
           /\ lost' = Append(lost, pc) /\ UNCHANGED <<failed, broken>>
  <2>1. Len(lost)' = Len(lost) + 1
    BY <1>0, <1>2
  <2> QED BY <1>0, <1>2, <2>1 DEF Paid
<1>3. CASE /\ UNCHANGED <<experiments, server, lost>> /\ pc' = catch
           /\ IF fresh THEN Fails ELSE UNCHANGED <<failed, broken>>
  BY <1>0, <1>3 DEF Paid, Fails
<1> QED BY <1>1, <1>2, <1>3 DEF Call

\* Outside of the filling nothing new is left when the server stays as it is.
LEMMA OutsideLeft ==
  ASSUME UNCHANGED server, pc \notin Filling PROVE Left' \subseteq Left
BY DEF Left, new

\* While the pass fills its run, changes to that run leave nothing.
LEMMA FillingLeft ==
  ASSUME TypeOK, pc \in Filling, NEW c, server' \in {server, [server EXCEPT ![new] = c]},
         pc' \notin Filling => server'[new].marked
  PROVE  Left' \subseteq Left
<1>1. /\ server \in Seq(Record) /\ new \in Nat /\ Len(server') = Len(server)
      /\ \A i \in 1 .. new : i # new => server'[i] = server[i]
  BY DEF TypeOK, new
<1> QED BY <1>1 DEF Left, new

LEMMA InitFaultsPay == ASSUME MigrationAssumption, Init PROVE FaultsPay
<1>1. Left = {} /\ Paid = 0 /\ Owed = 0
  BY DEF Init, Left, Paid, Owed, new
<1>2. Cardinality(Left) = 0
  BY <1>1, FS_EmptySet
<1> QED BY <1>1, <1>2 DEF FaultsPay, Init

\* A call before the run is created, or after it is marked.
LEMMA OutsideCallPays ==
  ASSUME TypeOK, TypeOK', FaultsPay, pc \notin Filling \cup {"idle"},
         Left' \subseteq Left, UNCHANGED pass, pc' # "cleanup", Paid' >= Paid
  PROVE  FaultsPay'
<1>1. Owed' <= Owed
  BY DEF Owed, pass, Filling
<1>2. Cardinality(Left)' <= Cardinality(Left)
  BY NoMoreLeft
<1>3. Owed \in Nat /\ Owed' \in Nat
  BY DEF Owed
<1> QED BY <1>1, <1>2, <1>3, LeftFinite, LeftFiniteNext DEF FaultsPay, pass, Filling

\* A call that fills the run in hand: when it ends in the delete, either the
\* token is no longer renewed, or the call has paid half a leftover.
LEMMA FillPays ==
  ASSUME TypeOK, TypeOK', FaultsPay, pc \in Filling \ {"cleanup"}, UNCHANGED pass,
         Left' \subseteq Left, pc' # "idle",
         pc' = "cleanup" => ~fresh \/ Paid' >= Paid + 1,
         Paid' >= Paid
  PROVE  FaultsPay'
<1>1. pc # "idle" /\ UNCHANGED <<armed, fresh>>
  BY DEF Filling, pass
<1>2. Owed \in Nat /\ Owed' \in Nat /\ Owed' + Paid <= Owed + Paid'
  BY <1>1, LeftFinite, LeftFiniteNext DEF Owed, FaultsPay
<1>3. Cardinality(Left)' <= Cardinality(Left)
  BY NoMoreLeft
<1> QED BY <1>1, <1>2, <1>3, LeftFinite, LeftFiniteNext DEF FaultsPay

LEMMA CreatePays ==
  ASSUME MigrationAssumption, TypeOK, TypeOK', FaultsPay, Create PROVE FaultsPay'
<1> DEFINE c == [of |-> run, params |-> 0, metrics |-> 0, objects |-> 0,
                 artifacts |-> copy, status |-> "RUNNING",
                 marked |-> FALSE, stage |-> "active"]
           effect == server' = Append(server, c) /\ UNCHANGED experiments
<1>1. /\ pc = "create" /\ pc \notin Filling \cup {"idle"} /\ UNCHANGED pass
      /\ Call(effect, "params", "idle")
  BY DEF Create, Filling
<1> HIDE DEF effect
<1>2. \/ effect /\ pc' = "params" /\ Paid' = Paid
      \/ effect /\ pc' = "idle" /\ Paid' = Paid + 2
      \/ UNCHANGED server /\ pc' = "idle" /\ Paid' \in {Paid, Paid + 1}
  BY <1>1, CallPays
<1>3. CASE UNCHANGED server /\ pc' = "idle" /\ Paid' \in {Paid, Paid + 1}
  <2>1. Left' \subseteq Left
    BY <1>1, <1>3, OutsideLeft
  <2> QED BY <1>1, <1>3, <2>1, OutsideCallPays, LeftFinite
<1>4. ASSUME effect
      PROVE  /\ Left' \subseteq Left \cup {new'}
             /\ pc' = "params" => Left' \subseteq Left
  <2>1. /\ server \in Seq(Record) /\ new \in Nat /\ new' = new + 1
        /\ \A i \in 1 .. new : server'[i] = server[i]
    BY <1>4 DEF effect, TypeOK, new
  <2>2. pc' = "params" => pc' \in Filling
    BY DEF Filling
  <2>3. pc \notin Filling
    BY <1>1
  <2>4. ASSUME NEW i \in Left', i # new' PROVE i \in Left
    <3>1. i \in 1 .. new' /\ ~server'[i].marked /\ server'[i].stage = "active"
      BY DEF Left
    <3>2. i \in 1 .. new
      BY <2>1, <2>4, <3>1
    <3>3. server'[i] = server[i]
      BY <2>1, <3>2
    <3> QED BY <2>3, <3>1, <3>2, <3>3 DEF Left
  <2>5. pc' = "params" => new' \notin Left'
    BY <2>2 DEF Left
  <2> QED BY <2>4, <2>5
<1>5. CASE effect /\ pc' = "params" /\ Paid' = Paid
  BY <1>1, <1>4, <1>5, OutsideCallPays, LeftFinite
<1>6. CASE effect /\ pc' = "idle" /\ Paid' = Paid + 2
  <2>1. Cardinality(Left)' <= Cardinality(Left) + 1
    BY <1>4, <1>6, OneMoreLeft
  <2>2. Owed \in Nat /\ Owed' = 0
    BY <1>6 DEF Owed
  <2> QED BY <1>6, <2>1, <2>2, LeftFinite, LeftFiniteNext DEF FaultsPay
<1> QED BY <1>2, <1>3, <1>5, <1>6

\* The calls of the try of migrate_run.
LEMMA FillCallPays ==
  ASSUME TypeOK, TypeOK', FaultsPay, pc \in Filling \ {"cleanup"},
         NEW c, NEW next \in {"params", "metrics", "mark", "pick", "retire"}, Fill(c, next),
         next \notin Filling => c.marked, new >= 1
  PROVE  FaultsPay'
<1> DEFINE effect == server' = [server EXCEPT ![new] = c] /\ UNCHANGED experiments
<1>1. UNCHANGED pass /\ Call(effect, next, "cleanup") /\ next \notin {"cleanup", "idle"}
  BY DEF Fill
<1>2. effect => server' = [server EXCEPT ![new] = c] /\ server'[new] = c
  BY DEF TypeOK, new
<1> HIDE DEF effect
<1>3. \/ effect /\ pc' = next /\ Paid' = Paid
      \/ effect /\ pc' = "cleanup" /\ Paid' = Paid + 2
      \/ /\ UNCHANGED server /\ pc' = "cleanup"
         /\ IF fresh THEN Paid' = Paid + 1 ELSE Paid' = Paid
  BY <1>1, CallPays
<1>4. server' \in {server, [server EXCEPT ![new] = c]}
  BY <1>2, <1>3
<1>5. pc' \notin Filling => server'[new].marked
  BY <1>2, <1>3 DEF Filling
<1>6. Left' \subseteq Left
  BY <1>4, <1>5, FillingLeft
<1>7. /\ pc' # "idle" /\ Paid' >= Paid
      /\ pc' = "cleanup" => ~fresh \/ Paid' >= Paid + 1
  BY <1>1, <1>3, LeftFinite
<1> QED BY <1>1, <1>6, <1>7, FillPays

\* A step from one part of the try to the next.
LEMMA TurnPays ==
  ASSUME TypeOK, TypeOK', FaultsPay, pc \in Filling \ {"cleanup"},
         NEW to \in Filling \ {"cleanup"}, Turn(pc, to)
  PROVE  FaultsPay'
<1>1. UNCHANGED server /\ UNCHANGED pass /\ Paid' = Paid /\ pc' = to
  BY DEF Turn, faults, Paid
<1>2. Left' \subseteq Left
  BY <1>1, FillingLeft
<1> QED BY <1>1, <1>2, FillPays, LeftFinite DEF Filling

LEMMA TryPays ==
  ASSUME MigrationInv, MigrationInv', FaultsPay,
         LogParams \/ LogMetrics \/ SetTerminated \/ SetMarker
  PROVE  FaultsPay'
<1>1. TypeOK /\ TypeOK'
  BY DEF MigrationInv
<1>2. pc \in Filling \ {"cleanup"}
  BY DEF LogParams, LogMetrics, SetTerminated, SetMarker, Turn, Filling
<1>3. new >= 1
  BY <1>2 DEF MigrationInv, InHand
<1>4. /\ server[new] \in Record /\ {"params", "metrics", "mark", "artifacts"} \subseteq Filling
  BY <1>1, <1>3 DEF TypeOK, new, Filling
<1>5. CASE LogParams
  <2>1. CASE Turn("params", "metrics")
    BY <1>1, <1>2, <1>4, <2>1, TurnPays DEF Turn
  <2>2. CASE Fill([server[new] EXCEPT !.params = Chunked(@, ParamBatch, Params[run])], "params")
    BY <1>1, <1>2, <1>3, <1>4, <2>2, FillCallPays
  <2> QED BY <1>5, <2>1, <2>2 DEF LogParams
<1>6. CASE LogMetrics
  <2>1. CASE Turn("metrics", "artifacts")
    BY <1>1, <1>2, <1>4, <2>1, TurnPays DEF Turn
  <2>2. CASE Fill([server[new] EXCEPT !.metrics = Chunked(@, MetricBatch, Metrics[run])], "metrics")
    BY <1>1, <1>2, <1>3, <1>4, <2>2, FillCallPays
  <2> QED BY <1>6, <2>1, <2>2 DEF LogMetrics
<1>7. CASE SetTerminated
  BY <1>1, <1>2, <1>3, <1>4, <1>7, FillCallPays DEF SetTerminated
<1>8. CASE SetMarker
  <2> DEFINE c == [server[new] EXCEPT !.marked = TRUE]
             next == IF run \in Retired THEN "retire" ELSE "pick"
  <2>1. Fill(c, next) /\ c.marked /\ next \in {"pick", "retire"}
    BY <1>4, <1>8 DEF SetMarker, Record
  <2> HIDE DEF c, next
  <2> QED BY <1>1, <1>2, <1>3, <2>1, FillCallPays
<1> QED BY <1>5, <1>6, <1>7, <1>8

LEMMA CopyArtifactsPays ==
  ASSUME TypeOK, TypeOK', FaultsPay, CopyArtifacts PROVE FaultsPay'
<1>1. pc = "artifacts" /\ pc \in Filling \ {"cleanup"} /\ "terminate" \in Filling \ {"cleanup"}
  BY DEF CopyArtifacts, Turn, Filling
<1>2. CASE Turn("artifacts", "terminate")
  BY <1>1, <1>2, TurnPays
<1>3. CASE /\ server' = [server EXCEPT ![new].objects = @ + 1]
           /\ UNCHANGED <<pc, failed, broken, pass, lost>>
  <2> DEFINE c == [server[new] EXCEPT !.objects = @ + 1]
  <2>1. server' = [server EXCEPT ![new] = c]
    BY <1>3
  <2> HIDE DEF c
  <2>2. Left' \subseteq Left
    <3>1. pc \in Filling /\ pc' \in Filling
      BY <1>1, <1>3
    <3>2. server' \in {server, [server EXCEPT ![new] = c]}
      BY <2>1
    <3> QED BY <3>1, <3>2, FillingLeft
  <2>3. Paid' = Paid
    BY <1>3 DEF Paid
  <2> QED BY <1>1, <1>3, <2>2, <2>3, FillPays, LeftFinite
<1>4. CASE Fails /\ pc' = "cleanup" /\ UNCHANGED <<server, pass, lost>>
  <2>1. Left' \subseteq Left
    BY <1>1, <1>4, FillingLeft DEF Filling
  <2>2. Paid' = Paid + 1
    BY <1>4 DEF Fails, Paid, TypeOK
  <2> QED BY <1>1, <1>4, <2>1, <2>2, FillPays, LeftFinite
<1> QED BY <1>2, <1>3, <1>4 DEF CopyArtifacts

\* Deleting the last run of the server puts none in sight.
LEMMA DeletedLeft ==
  ASSUME TypeOK, server' = [server EXCEPT ![new].stage = "deleted"], pc' \notin Filling
  PROVE  Left' \subseteq Left /\ new \notin Left'
<1>1. server \in Seq(Record) /\ new \in Nat /\ new' = new
  BY DEF TypeOK, new
<1>2. ASSUME NEW i \in Left'
      PROVE  i # new /\ i \in Left
  <2>1. i \in 1 .. new /\ ~server'[i].marked /\ server'[i].stage = "active"
    BY <1>1 DEF Left
  <2>2. server[i] \in Record
    BY <1>1, <2>1 DEF new
  <2>3. i # new
    BY <1>1, <2>1, <2>2 DEF Record, new
  <2>4. server'[i] = server[i]
    BY <1>1, <2>1, <2>3 DEF new
  <2> QED BY <2>1, <2>3, <2>4 DEF Left
<1> QED BY <1>2

\* The delete of a partial run: when it does not happen, a leftover is paid.
LEMMA CleanupPays ==
  ASSUME TypeOK, TypeOK', FaultsPay, Cleanup PROVE FaultsPay'
<1> DEFINE effect == server' = [server EXCEPT ![new].stage = "deleted"] /\ UNCHANGED experiments
<1>1. pc = "cleanup" /\ Call(effect, "idle", "idle") /\ UNCHANGED pass
  BY DEF Cleanup
<1> HIDE DEF effect
<1>2. /\ pc' = "idle"
      /\ \/ effect /\ Paid' \in {Paid, Paid + 2}
         \/ UNCHANGED server /\ (IF fresh THEN Paid' = Paid + 1 ELSE Paid' = Paid)
  BY <1>1, CallPays
<1>3. Owed' = 0 /\ Owed \in Nat /\ (Owed = 1 \/ Owed = 2) /\ (~fresh => Owed = 2)
  BY <1>1, <1>2 DEF Owed, FaultsPay
<1>4. CASE effect /\ Paid' \in {Paid, Paid + 2}
  <2>1. Left' \subseteq Left
    BY <1>2, <1>4, DeletedLeft DEF effect, Filling
  <2> QED BY <1>2, <1>3, <1>4, <2>1, NoMoreLeft, LeftFinite, LeftFiniteNext DEF FaultsPay
<1>5. CASE UNCHANGED server /\ (IF fresh THEN Paid' = Paid + 1 ELSE Paid' = Paid)
  <2>1. Left' \subseteq Left \cup {new}
    BY <1>5 DEF Left, new
  <2>2. Cardinality(Left)' <= Cardinality(Left) + 1
    BY <2>1, OneMoreLeft
  <2> QED BY <1>2, <1>3, <1>5, <2>2, LeftFinite, LeftFiniteNext DEF FaultsPay
<1> QED BY <1>2, <1>4, <1>5

LEMMA RetirePays ==
  ASSUME TypeOK, TypeOK', FaultsPay, Retire PROVE FaultsPay'
<1> DEFINE effect == server' = [server EXCEPT ![new].stage = "deleted"] /\ UNCHANGED experiments
<1>1. /\ pc = "retire" /\ pc \notin Filling \cup {"idle"}
      /\ Call(effect, "pick", "idle") /\ UNCHANGED pass
  BY DEF Retire, Filling
<1> HIDE DEF effect
<1>2. /\ pc' \in {"pick", "idle"} /\ (effect \/ UNCHANGED server) /\ Paid' >= Paid
  BY <1>1, CallPays, LeftFinite
<1>3. Left' \subseteq Left
  BY <1>1, <1>2, DeletedLeft, OutsideLeft DEF effect, Filling
<1> QED BY <1>1, <1>2, <1>3, OutsideCallPays

\* Steps that are no call to the server.
LEMMA OtherPays ==
  ASSUME TypeOK, TypeOK', FaultsPay,
         \/ Start \/ Pick \/ Finish \/ Crash
         \/ RefreshFails \/ Expire \/ UNCHANGED vars
  PROVE  FaultsPay'
<1>1. UNCHANGED server
  BY DEF Start, Pick, Finish, Crash, RefreshFails, Expire, Turn, vars
<1>2. CASE Start
  <2>1. Left' \subseteq Left /\ Paid' = Paid /\ Owed = 0 /\ Owed' = 0
    BY <1>1, <1>2, OutsideLeft DEF Start, Filling, faults, Paid, Owed
  <2> QED BY <1>2, <2>1, NoMoreLeft, LeftFinite, LeftFiniteNext DEF FaultsPay, Start
<1>3. CASE Pick \/ Finish
  <2>1. Left' \subseteq Left /\ Paid' = Paid /\ Owed' <= Owed /\ Owed \in Nat /\ Owed' \in Nat
    BY <1>1, <1>3, OutsideLeft DEF Pick, Finish, Turn, Filling, faults, pass, Paid, Owed
  <2>2. pc # "idle" /\ UNCHANGED <<armed, fresh>>
    BY <1>3 DEF Pick, Finish, Turn, pass
  <2> QED BY <2>1, <2>2, NoMoreLeft, LeftFinite, LeftFiniteNext DEF FaultsPay
<1>4. CASE Crash
  <2>1. Left' \subseteq Left \cup {new} /\ Paid' = Paid + 2 /\ Owed' = 0 /\ Owed \in Nat
    BY <1>1, <1>4 DEF Crash, Breaks, Left, new, Paid, Owed, TypeOK
  <2>2. Cardinality(Left)' <= Cardinality(Left) + 1
    BY <2>1, OneMoreLeft
  <2> QED BY <1>4, <2>1, <2>2, LeftFinite, LeftFiniteNext DEF FaultsPay, Crash
<1>5. CASE RefreshFails
  <2>1. Left' \subseteq Left
    BY <1>1, <1>5 DEF RefreshFails, Left, new
  <2>2. Paid' = Paid + 2 /\ Owed' = 2 /\ Owed \in Nat
    BY <1>5 DEF RefreshFails, Breaks, Paid, Owed, TypeOK
  <2> QED BY <1>5, <2>1, <2>2, NoMoreLeft, LeftFinite, LeftFiniteNext DEF FaultsPay, RefreshFails
<1>6. CASE Expire \/ UNCHANGED vars
  <2>1. /\ Left' \subseteq Left /\ Paid' = Paid /\ Owed' = Owed /\ Owed \in Nat
        /\ (pc # "idle" /\ ~fresh => ~armed)'
    BY <1>1, <1>6 DEF Expire, vars, pass, faults, Left, new, Paid, Owed, FaultsPay
  <2> QED BY <2>1, NoMoreLeft, LeftFinite, LeftFiniteNext DEF FaultsPay
<1> QED BY <1>2, <1>3, <1>4, <1>5, <1>6

\* The leftovers of the migration, in halves: the invariant behind the theorem.
THEOREM LeftoversPaid == Spec => []FaultsPay
<1>1. Init => FaultsPay
  BY InitFaultsPay, MigrationAssumption
<1>2. MigrationInv /\ MigrationInv' /\ FaultsPay /\ [Next]_vars => FaultsPay'
  <2> SUFFICES ASSUME MigrationInv, MigrationInv', FaultsPay, [Next]_vars PROVE FaultsPay'
    OBVIOUS
  <2> USE MigrationAssumption
  <2>1. TypeOK /\ TypeOK'
    BY DEF MigrationInv
  <2>2. CASE CreateExperiment \/ Search
    <3> DEFINE effect == experiments' = experiments \cup {Experiment[run]} /\ UNCHANGED server
               found == UNCHANGED <<experiments, server>>
               then == IF AlreadyMigrated(run) THEN "pick" ELSE "create"
    <3>1. /\ Call(effect, "search", "idle") \/ Call(found, then, "idle")
          /\ pc \notin Filling \cup {"idle"} /\ UNCHANGED pass /\ then # "cleanup"
      BY <2>2 DEF CreateExperiment, Search, Filling
    <3>2. (effect => UNCHANGED server) /\ (found => UNCHANGED server)
      OBVIOUS
    <3> HIDE DEF effect, found, then
    <3>3. UNCHANGED server /\ pc' # "cleanup" /\ Paid' >= Paid
      BY <2>1, <3>1, <3>2, CallPays, LeftFinite
    <3> QED BY <2>1, <3>1, <3>3, OutsideLeft, OutsideCallPays
  <2>3. CASE Create \/ CopyArtifacts \/ Cleanup \/ Retire
    BY <2>1, <2>3, CreatePays, CopyArtifactsPays, CleanupPays, RetirePays
  <2>4. CASE LogParams \/ LogMetrics \/ SetTerminated \/ SetMarker
    BY <2>4, TryPays
  <2>5. CASE Start \/ Pick \/ Finish \/ Crash \/ RefreshFails \/ Expire \/ UNCHANGED vars
    BY <2>1, <2>5, OtherPays
  <2> QED BY <2>2, <2>3, <2>4, <2>5 DEF Next, Pass
<1> QED BY <1>1, <1>2, MigrationInvariant, PTL DEF Spec

\* Every partial run left in sight has a crash, a lost answer, a failed fetch
\* of the token or two failed calls behind it (migrate.py:228-234).
THEOREM NoUnexplainedLeftovers == Spec => []LeftoversExplained
<1>1. MigrationInv /\ FaultsPay => LeftoversExplained
  <2> SUFFICES ASSUME MigrationInv, FaultsPay
               PROVE  Cardinality(Left) <= broken + Len(lost) + failed \div 2
    BY DEF LeftoversExplained, Left
  <2>1. TypeOK
    BY DEF MigrationInv
  <2>2. Cardinality(Left) \in Nat /\ broken \in Nat /\ Len(lost) \in Nat /\ failed \in Nat
    BY <2>1, LeftFinite DEF TypeOK
  <2>3. 2 * Cardinality(Left) <= 2 * (broken + Len(lost)) + failed
    BY <2>2 DEF FaultsPay, Paid, Owed
  <2> QED BY <2>2, <2>3
<1> QED BY <1>1, MigrationInvariant, LeftoversPaid, PTL

=============================================================================
