--------------------------- MODULE ReplayBuild_proofs ---------------------------
(* Theorems about the streaming job and about the build that runs it, for     *)
(* every set of records, workers and bounds, every staging table, every set   *)
(* of replays and every number of builds and polls. The first part is about   *)
(* the job alone (SentimentPipeline): no record is unaccounted for, a dead    *)
(* letter is not in the table, and an idle job has nothing in flight. Its     *)
(* lemmas about Process hold for any clock, so that the second part, the      *)
(* build around the job, can cite them.                                       *)
EXTENDS ReplayBuild, FiniteSetTheorems, TLAPS

\* The ids of rows with processed_at >= n, and the ids whose whereabouts are
\* known when only such rows count.
LandedFrom(n) == Ids({row \in landing : row.at >= n})
AccountedFrom(n) == Waiting \cup InFlight \cup LandedFrom(n) \cup dlq

\* Where a record can and cannot be: neither a row nor a dead letter for the
\* wrong reason, and nothing in flight of a job that does not run.
Sorted ==
  /\ Ids(rows) \cap Unparsable = {}
  /\ Ids(landing) \cap (Unparsable \cup Refused) = {}
  /\ dlq \subseteq Unparsable \cup Refused

IdleEmpty == jobState \in {"none", "pending", "drained", "failed"} => InFlight = {}

\* The other half of NothingUnaccounted: what is anywhere was published.
NothingInvented == Waiting \cup InFlight \cup Ids(landing) \cup dlq \subseteq published

\* The inductive invariant of the job.
PipelineInv ==
  /\ PipelineTypeOK
  /\ Sorted
  /\ NothingInvented
  /\ IdleEmpty
  /\ NothingUnaccounted

-----------------------------------------------------------------------------
(* The effect of each action on the types *)

LEMMA PipelineInitType == ASSUME PipelineAssumption, PipelineInit PROVE PipelineTypeOK
BY DEF PipelineAssumption, PipelineInit, PipelineTypeOK

LEMMA DeliverType ==
  ASSUME PipelineAssumption, PipelineTypeOK, NEW r \in Records, Deliver(r)
  PROVE  PipelineTypeOK'
<1>1. waiting' \in [Records -> 0 .. MaxCopies]
  BY DEF PipelineAssumption, PipelineTypeOK, Deliver
<1> QED BY <1>1 DEF PipelineTypeOK, Deliver

\* The table's ids, element by element.
LEMMA IdOf ==
  ASSUME NEW table, NEW r
  PROVE  r \in Ids(table) <=> \E row \in table : row.id = r
BY DEF Ids

\* A commit stamps its rows with the time of the pass.
LEMMA ClassifiedType ==
  ASSUME NEW b \in SUBSET Records, NEW now \in Nat
  PROVE  /\ Classified(b, now) \subseteq Rows
         /\ Ids(Classified(b, now)) = b \ Unparsable
         /\ \A row \in Classified(b, now) : row.at = now
<1> DEFINE made == Classified(b, now)
<1>1. \A row : row \in made <=> \E r \in b \ Unparsable : row = [id |-> r, at |-> now]
  BY DEF Classified
<1>2. made \subseteq Rows /\ \A row \in made : row.at = now /\ row.id \in b \ Unparsable
  BY <1>1 DEF Rows
<1>3. ASSUME NEW r \in b \ Unparsable PROVE \E row \in made : row.id = r
  <2>1. [id |-> r, at |-> now] \in made
    BY <1>1
  <2> QED BY <2>1
<1>4. Ids(made) = b \ Unparsable
  BY <1>2, <1>3, IdOf
<1> QED BY <1>2, <1>4

LEMMA PullType ==
  ASSUME PipelineAssumption, PipelineTypeOK, NEW w \in Workers, Pull(w)
  PROVE  PipelineTypeOK'
<1>1. PICK pulled \in (SUBSET Waiting) \ {{}} :
        /\ bundle' = [bundle EXCEPT ![w] = pulled]
        /\ waiting' = [r \in Records |-> IF r \in pulled THEN waiting[r] - 1 ELSE waiting[r]]
  BY DEF Pull
<1>2. pulled \subseteq Records
  BY <1>1 DEF Waiting
<1>3. bundle' \in [Workers -> SUBSET Records]
  BY <1>1, <1>2 DEF PipelineTypeOK
<1>4. ASSUME NEW r \in Records
      PROVE  (IF r \in pulled THEN waiting[r] - 1 ELSE waiting[r]) \in 0 .. MaxCopies
  BY <1>1 DEF Waiting, PipelineTypeOK, PipelineAssumption
<1>5. waiting' \in [Records -> 0 .. MaxCopies]
  BY <1>1, <1>4
<1> QED BY <1>3, <1>5 DEF Pull, PipelineTypeOK

LEMMA CommitType ==
  ASSUME PipelineAssumption, PipelineTypeOK, NEW now \in Nat,
         NEW w \in Workers, CommitBundle(w, now)
  PROVE  PipelineTypeOK'
<1>1. bundle[w] \in SUBSET Records
  BY DEF PipelineTypeOK
<1>2. rows' \subseteq Rows
  BY <1>1, ClassifiedType DEF CommitBundle, PipelineTypeOK
<1>3. dlq' \subseteq Records /\ bundle' \in [Workers -> SUBSET Records]
  BY <1>1 DEF CommitBundle, Diverted, PipelineTypeOK
<1>4. waiting' \in [Records -> 0 .. MaxCopies] /\ mishaps' \in 0 .. MaxMishaps
  BY <1>1 DEF CommitBundle, PipelineTypeOK, PipelineAssumption
<1> QED BY <1>2, <1>3, <1>4 DEF CommitBundle, PipelineTypeOK

LEMMA ProcessType ==
  ASSUME PipelineAssumption, PipelineTypeOK, NEW now \in Nat, Process(now)
  PROVE  PipelineTypeOK'
<1>1. CASE JobStarts \/ JobFails \/ DrainCompletes
  BY <1>1 DEF JobStarts, JobFails, DrainCompletes, PipelineTypeOK
<1>2. ASSUME NEW w \in Workers, BundleFails(w) PROVE PipelineTypeOK'
  <2>1. mishaps' \in 0 .. MaxMishaps
    BY <1>2 DEF BundleFails, PipelineTypeOK, PipelineAssumption
  <2> QED BY <1>2, <2>1 DEF BundleFails, PipelineTypeOK
<1>3. ASSUME NEW row \in rows, InsertRow(row) PROVE PipelineTypeOK'
  <2>1. mishaps' \in 0 .. MaxMishaps
    BY <1>3 DEF InsertRow, PipelineTypeOK, PipelineAssumption
  <2>2. rows' \subseteq Rows /\ landing' \subseteq Rows
    BY <1>3 DEF InsertRow, PipelineTypeOK
  <2> QED BY <1>3, <2>1, <2>2 DEF InsertRow, PipelineTypeOK
<1>4. ASSUME NEW row \in rows, RouteFailedRow(row) PROVE PipelineTypeOK'
  BY <1>4 DEF RouteFailedRow, PipelineTypeOK, Rows
<1> QED BY <1>1, <1>2, <1>3, <1>4, PullType, CommitType DEF Process

-----------------------------------------------------------------------------
(* Accounting *)

\* A message that is pulled goes from the subscription to its bundle.
LEMMA PullAccount ==
  ASSUME PipelineTypeOK, NEW n \in Nat, NEW w \in Workers, Pull(w)
  PROVE  AccountedFrom(n) \subseteq AccountedFrom(n)'
<1>1. PICK pulled \in (SUBSET Waiting) \ {{}} :
        /\ bundle' = [bundle EXCEPT ![w] = pulled]
        /\ waiting' = [r \in Records |-> IF r \in pulled THEN waiting[r] - 1 ELSE waiting[r]]
  BY DEF Pull
<1>2. bundle[w] = {} /\ UNCHANGED <<rows, landing, dlq>>
  BY DEF Pull
<1>3. bundle'[w] = pulled /\ \A v \in Workers : bundle[v] \subseteq bundle'[v]
  BY <1>1, <1>2 DEF PipelineTypeOK
<1>4. Pulled \subseteq Pulled' /\ pulled \subseteq Pulled'
  BY <1>3 DEF Pulled
<1>5. Waiting \ pulled \subseteq Waiting'
  BY <1>1 DEF Waiting
<1> QED BY <1>2, <1>4, <1>5 DEF AccountedFrom, InFlight, LandedFrom

\* A committed bundle's messages are rows or dead letters.
LEMMA CommitAccount ==
  ASSUME PipelineTypeOK, NEW n \in Nat, NEW now \in Nat,
         NEW w \in Workers, CommitBundle(w, now)
  PROVE  AccountedFrom(n) \subseteq AccountedFrom(n)'
<1>1. bundle[w] \in SUBSET Records
  BY DEF PipelineTypeOK
<1>2. /\ rows' = rows \cup Classified(bundle[w], now)
      /\ dlq' = dlq \cup (bundle[w] \cap Unparsable)
      /\ bundle' = [bundle EXCEPT ![w] = {}]
      /\ UNCHANGED landing
  BY DEF CommitBundle, Diverted
<1>3. Ids(rows) \cup (bundle[w] \ Unparsable) \subseteq Ids(rows')
  BY <1>1, <1>2, ClassifiedType DEF Ids
<1>4. bundle[w] \subseteq Ids(rows') \cup dlq'
  BY <1>2, <1>3
<1>5. Pulled \subseteq Pulled' \cup bundle[w]
  BY <1>2 DEF Pulled, PipelineTypeOK
<1>6. Waiting \subseteq Waiting'
  BY DEF Waiting, CommitBundle, PipelineTypeOK
<1> QED BY <1>2, <1>3, <1>4, <1>5, <1>6 DEF AccountedFrom, InFlight, LandedFrom

\* A row that is inserted counts from n on if rows in flight do.
LEMMA InsertAccount ==
  ASSUME PipelineTypeOK, NEW n \in Nat, \A row \in rows : row.at >= n,
         NEW one \in rows, InsertRow(one)
  PROVE  AccountedFrom(n) \subseteq AccountedFrom(n)'
<1>1. landing' = landing \cup {one} /\ rows \ {one} \subseteq rows'
      /\ UNCHANGED <<waiting, bundle, dlq>>
  BY DEF InsertRow
<1>2. LandedFrom(n) \cup {one.id} \subseteq LandedFrom(n)'
  BY <1>1 DEF LandedFrom, Ids
<1>3. Ids(rows) \subseteq Ids(rows') \cup {one.id}
  BY <1>1 DEF Ids
<1> QED BY <1>1, <1>2, <1>3 DEF AccountedFrom, InFlight, Waiting, Pulled

LEMMA RouteAccount ==
  ASSUME PipelineTypeOK, NEW n \in Nat, NEW one \in rows, RouteFailedRow(one)
  PROVE  AccountedFrom(n) \subseteq AccountedFrom(n)'
<1>1. rows' = rows \ {one} /\ dlq' = dlq \cup {one.id}
      /\ UNCHANGED <<waiting, bundle, landing>>
  BY DEF RouteFailedRow
<1>2. Ids(rows) \subseteq Ids(rows') \cup {one.id}
  BY <1>1 DEF Ids
<1>3. LandedFrom(n)' = LandedFrom(n) /\ Waiting' = Waiting /\ Pulled' = Pulled
  BY <1>1 DEF LandedFrom, Waiting, Pulled
<1> QED BY <1>1, <1>2, <1>3 DEF AccountedFrom, InFlight

\* Nothing the job does by itself loses sight of a record, counting the rows
\* from any n on that the rows in flight are not older than.
LEMMA ProcessAccount ==
  ASSUME PipelineTypeOK, NEW n \in Nat, NEW now \in Nat, \A row \in rows : row.at >= n,
         Process(now)
  PROVE  AccountedFrom(n) \subseteq AccountedFrom(n)'
<1>1. CASE UNCHANGED <<waiting, bundle, rows, landing, dlq>>
  BY <1>1 DEF AccountedFrom, InFlight, Waiting, Pulled, LandedFrom
<1>2. CASE JobStarts \/ JobFails \/ DrainCompletes \/ \E w \in Workers : BundleFails(w)
  BY <1>1, <1>2 DEF JobStarts, JobFails, DrainCompletes, BundleFails
<1>3. ASSUME NEW w \in Workers, Pull(w) \/ CommitBundle(w, now)
      PROVE  AccountedFrom(n) \subseteq AccountedFrom(n)'
  BY <1>3, PullAccount, CommitAccount
<1>4. ASSUME NEW one \in rows, InsertRow(one)
      PROVE  AccountedFrom(n) \subseteq AccountedFrom(n)'
  BY <1>4, InsertAccount
<1>5. ASSUME NEW one \in rows, RouteFailedRow(one)
      PROVE  AccountedFrom(n) \subseteq AccountedFrom(n)'
  BY <1>5, RouteAccount
<1> QED BY <1>2, <1>3, <1>4, <1>5 DEF Process

\* Rows in flight bear the time of a commit.
LEMMA ProcessRows ==
  ASSUME PipelineTypeOK, NEW now \in Nat, Process(now)
  PROVE  /\ \A row \in rows' : row \in rows \/ row.at = now
         /\ landing' \subseteq landing \cup rows
<1>1. ASSUME NEW w \in Workers, CommitBundle(w, now)
      PROVE  \A row \in rows' : row \in rows \/ row.at = now
  <2>1. bundle[w] \in SUBSET Records
    BY DEF PipelineTypeOK
  <2> QED BY <1>1, <2>1, ClassifiedType DEF CommitBundle
<1>2. (\A row \in rows' : row \in rows) \/ \E w \in Workers : CommitBundle(w, now)
  BY DEF Process, JobStarts, JobFails, DrainCompletes, Pull, BundleFails, InsertRow,
         RouteFailedRow
<1>3. landing' \subseteq landing \cup rows
  BY DEF Process, JobStarts, JobFails, DrainCompletes, Pull, BundleFails, CommitBundle,
         InsertRow, RouteFailedRow
<1> QED BY <1>1, <1>2, <1>3

-----------------------------------------------------------------------------
(* The inductive invariant *)

\* What an action that leaves the messages alone leaves alone.
LEMMA MessagesAlone ==
  ASSUME UNCHANGED <<waiting, bundle, rows, landing, dlq, published>>
  PROVE  /\ Sorted' = Sorted /\ InFlight' = InFlight
         /\ NothingUnaccounted' = NothingUnaccounted
         /\ NothingInvented' = NothingInvented
BY DEF Sorted, InFlight, Pulled, NothingUnaccounted, NothingInvented, Waiting

LEMMA ProcessSorted ==
  ASSUME PipelineTypeOK, Sorted, NEW now \in Nat, Process(now)
  PROVE  Sorted'
<1>1. CASE \/ JobStarts \/ JobFails \/ DrainCompletes
           \/ \E w \in Workers : Pull(w) \/ BundleFails(w)
  BY <1>1 DEF JobStarts, JobFails, DrainCompletes, Pull, BundleFails, Sorted
<1>2. ASSUME NEW w \in Workers, CommitBundle(w, now) PROVE Sorted'
  <2>1. bundle[w] \in SUBSET Records
    BY DEF PipelineTypeOK
  <2>2. Ids(rows') = Ids(rows) \cup (bundle[w] \ Unparsable)
    <3>1. rows' = rows \cup Classified(bundle[w], now)
      BY <1>2 DEF CommitBundle
    <3>2. Ids(rows') = Ids(rows) \cup Ids(Classified(bundle[w], now))
      BY <3>1 DEF Ids
    <3> QED BY <2>1, <3>2, ClassifiedType
  <2>3. dlq' = dlq \cup (bundle[w] \cap Unparsable) /\ UNCHANGED landing
    BY <1>2 DEF CommitBundle, Diverted
  <2> QED BY <2>2, <2>3 DEF Sorted
<1>3. ASSUME NEW one \in rows, InsertRow(one) PROVE Sorted'
  <2>1. one.id \in Ids(rows) /\ one.id \notin Refused
    BY <1>3 DEF InsertRow, Ids
  <2>2. Ids(landing') = Ids(landing) \cup {one.id} /\ Ids(rows') \subseteq Ids(rows)
    BY <1>3 DEF InsertRow, Ids
  <2>3. UNCHANGED dlq
    BY <1>3 DEF InsertRow
  <2> QED BY <2>1, <2>2, <2>3 DEF Sorted
<1>4. ASSUME NEW one \in rows, RouteFailedRow(one) PROVE Sorted'
  <2>1. Ids(rows') \subseteq Ids(rows)
    BY <1>4 DEF RouteFailedRow, Ids
  <2> QED BY <1>4, <2>1 DEF RouteFailedRow, Sorted
<1> QED BY <1>1, <1>2, <1>3, <1>4 DEF Process

\* The job moves records and makes none.
LEMMA ProcessInvented ==
  ASSUME PipelineTypeOK, NothingInvented, NEW now \in Nat, Process(now)
  PROVE  NothingInvented'
<1>1. CASE JobStarts \/ JobFails \/ DrainCompletes \/ \E w \in Workers : BundleFails(w)
  BY <1>1, MessagesAlone DEF JobStarts, JobFails, DrainCompletes, BundleFails,
                              NothingInvented, Waiting
<1>2. ASSUME NEW w \in Workers, Pull(w) PROVE NothingInvented'
  <2>1. PICK pulled \in (SUBSET Waiting) \ {{}} :
          /\ bundle' = [bundle EXCEPT ![w] = pulled]
          /\ waiting' = [r \in Records |-> IF r \in pulled THEN waiting[r] - 1
                                           ELSE waiting[r]]
    BY <1>2 DEF Pull
  <2>2. UNCHANGED <<rows, landing, dlq, published>>
    BY <1>2 DEF Pull
  <2>3. Pulled' \subseteq Pulled \cup pulled
    BY <2>1 DEF Pulled, PipelineTypeOK
  <2>4. Waiting' \subseteq Waiting
    BY <2>1 DEF Waiting, PipelineTypeOK
  <2> QED BY <2>2, <2>3, <2>4 DEF NothingInvented, InFlight
<1>3. ASSUME NEW w \in Workers, CommitBundle(w, now) PROVE NothingInvented'
  <2>1. bundle[w] \in SUBSET Records /\ bundle[w] \subseteq Pulled
    BY DEF PipelineTypeOK, Pulled
  <2>2. Ids(rows') \subseteq Ids(rows) \cup bundle[w]
    <3>1. rows' = rows \cup Classified(bundle[w], now)
      BY <1>3 DEF CommitBundle
    <3>2. Ids(rows') = Ids(rows) \cup Ids(Classified(bundle[w], now))
      BY <3>1 DEF Ids
    <3>3. Ids(Classified(bundle[w], now)) = bundle[w] \ Unparsable
      BY <2>1, ClassifiedType
    <3> QED BY <3>2, <3>3
  <2>3. dlq' \subseteq dlq \cup bundle[w] /\ UNCHANGED <<landing, published>>
    BY <1>3 DEF CommitBundle, Diverted
  <2>4. Pulled' \subseteq Pulled
    BY <1>3 DEF CommitBundle, Pulled, PipelineTypeOK
  <2>5. Waiting' \subseteq Waiting \cup bundle[w]
    BY <1>3 DEF CommitBundle, Waiting, PipelineTypeOK
  <2> QED BY <2>1, <2>2, <2>3, <2>4, <2>5 DEF NothingInvented, InFlight
<1>4. ASSUME NEW one \in rows, InsertRow(one) \/ RouteFailedRow(one) PROVE NothingInvented'
  <2>1. one.id \in Ids(rows) /\ Ids(rows') \subseteq Ids(rows)
    BY <1>4 DEF InsertRow, RouteFailedRow, Ids
  <2>2. Ids(landing') \cup dlq' \subseteq Ids(landing) \cup dlq \cup {one.id}
    BY <1>4 DEF InsertRow, RouteFailedRow, Ids
  <2>3. Waiting' = Waiting /\ Pulled' = Pulled /\ UNCHANGED published
    BY <1>4 DEF InsertRow, RouteFailedRow, Waiting, Pulled
  <2> QED BY <2>1, <2>2, <2>3 DEF NothingInvented, InFlight
<1> QED BY <1>1, <1>2, <1>3, <1>4 DEF Process

LEMMA ProcessIdle ==
  ASSUME PipelineTypeOK, IdleEmpty, NEW now \in Nat, Process(now)
  PROVE  IdleEmpty'
<1>1. CASE JobStarts \/ JobFails
  BY <1>1, MessagesAlone DEF JobStarts, JobFails, IdleEmpty
<1>2. CASE DrainCompletes
  BY <1>2, MessagesAlone DEF DrainCompletes, IdleEmpty
<1>3. ASSUME NEW w \in Workers, Pull(w) PROVE IdleEmpty'
  BY <1>3 DEF Pull, IdleEmpty
<1>4. ASSUME NEW w \in Workers, BundleFails(w) \/ CommitBundle(w, now) PROVE IdleEmpty'
  <2>1. bundle[w] \subseteq InFlight /\ bundle[w] # {}
    BY <1>4 DEF BundleFails, CommitBundle, InFlight, Pulled
  <2> QED BY <1>4, <2>1 DEF IdleEmpty, BundleFails, CommitBundle
<1>5. ASSUME NEW one \in rows, InsertRow(one) \/ RouteFailedRow(one) PROVE IdleEmpty'
  <2>1. one.id \in InFlight
    BY DEF InFlight, Ids
  <2> QED BY <1>5, <2>1 DEF IdleEmpty, InsertRow, RouteFailedRow
<1> QED BY <1>1, <1>2, <1>3, <1>4, <1>5 DEF Process

\* Counting rows of every age, a record is accounted for.
LEMMA AccountedAtAll ==
  ASSUME PipelineTypeOK
  PROVE  NothingUnaccounted <=> published \subseteq AccountedFrom(0)
<1>1. {row \in landing : row.at >= 0} = landing
  BY DEF PipelineTypeOK, Rows
<1> QED BY <1>1 DEF NothingUnaccounted, AccountedFrom, LandedFrom

LEMMA ProcessInv ==
  ASSUME PipelineAssumption, PipelineInv, NEW now \in Nat, Process(now)
  PROVE  PipelineInv'
<1>1. PipelineTypeOK' /\ Sorted' /\ NothingInvented' /\ IdleEmpty'
  BY ProcessType, ProcessSorted, ProcessInvented, ProcessIdle DEF PipelineInv
<1>2. \A row \in rows : row.at >= 0
  BY DEF PipelineInv, PipelineTypeOK, Rows
<1>3. AccountedFrom(0) \subseteq AccountedFrom(0)'
  BY <1>2, ProcessAccount DEF PipelineInv
<1>4. UNCHANGED published
  BY DEF Process, JobStarts, JobFails, DrainCompletes, Pull, BundleFails, CommitBundle,
         InsertRow, RouteFailedRow
<1>5. published' \subseteq AccountedFrom(0)'
  BY <1>3, <1>4, AccountedAtAll DEF PipelineInv
<1>6. NothingUnaccounted'
  <2>1. {row \in landing' : row.at >= 0} = landing'
    BY <1>1 DEF PipelineTypeOK, Rows
  <2> QED BY <1>5, <2>1 DEF NothingUnaccounted, AccountedFrom, LandedFrom
<1> QED BY <1>1, <1>6 DEF PipelineInv

\* A delivered message waits.
LEMMA DeliverWaiting ==
  ASSUME PipelineAssumption, PipelineTypeOK, NEW r \in Records, Deliver(r)
  PROVE  Waiting' = Waiting \cup {r}
BY DEF Deliver, Waiting, PipelineTypeOK, PipelineAssumption

LEMMA DeliverInv ==
  ASSUME PipelineAssumption, PipelineInv, NEW r \in Records, Deliver(r)
  PROVE  PipelineInv'
<1>1. PipelineTypeOK'
  BY DeliverType DEF PipelineInv
<1>2. Waiting' = Waiting \cup {r}
  BY DeliverWaiting DEF PipelineInv
<1>3. UNCHANGED <<jobState, bundle, rows, landing, dlq>> /\ published' = published \cup {r}
  BY DEF Deliver
<1>4. InFlight' = InFlight
  BY <1>3 DEF InFlight, Pulled
<1> QED BY <1>1, <1>2, <1>3, <1>4
        DEF PipelineInv, Sorted, IdleEmpty, NothingUnaccounted, NothingInvented

LEMMA OperateInv ==
  ASSUME PipelineInv, LaunchJob \/ RequestDrain
  PROVE  PipelineInv'
<1>1. PipelineTypeOK'
  BY DEF LaunchJob, RequestDrain, PipelineInv, PipelineTypeOK
<1>2. UNCHANGED <<waiting, bundle, rows, landing, dlq, published>>
  BY DEF LaunchJob, RequestDrain
<1>3. IdleEmpty'
  BY <1>2, MessagesAlone DEF LaunchJob, RequestDrain, PipelineInv, IdleEmpty
<1> QED BY <1>1, <1>2, <1>3, MessagesAlone DEF PipelineInv

LEMMA PipelineInitInv == ASSUME PipelineAssumption, PipelineInit PROVE PipelineInv
<1>1. PipelineTypeOK
  BY PipelineInitType
<1>2. InFlight = {} /\ Ids(rows) = {} /\ Ids(landing) = {} /\ Waiting = {}
  BY DEF PipelineInit, InFlight, Pulled, Ids, Waiting
<1> QED BY <1>1, <1>2
        DEF PipelineInit, PipelineInv, Sorted, IdleEmpty, NothingUnaccounted, NothingInvented

-----------------------------------------------------------------------------
(* Theorems about the job *)

\* Every state of the job satisfies the invariant.
THEOREM PipelineInvariant == PipelineSpec => []PipelineInv
<1>1. PipelineInit => PipelineInv
  BY PipelineInitInv, PipelineAssumption
<1>2. PipelineInv /\ [PipelineNext]_pipelineVars => PipelineInv'
  <2> SUFFICES ASSUME PipelineInv, [PipelineNext]_pipelineVars PROVE PipelineInv'
    OBVIOUS
  <2>1. CASE UNCHANGED pipelineVars
    BY <2>1, MessagesAlone DEF pipelineVars, PipelineInv, PipelineTypeOK, IdleEmpty
  <2>2. CASE PipelineNext
    BY <2>2, DeliverInv, OperateInv, ProcessInv, PipelineAssumption DEF PipelineNext
  <2> QED BY <2>1, <2>2
<1> QED BY <1>1, <1>2, PTL DEF PipelineSpec

\* No published record disappears, through failed bundles, lost
\* acknowledgements, repeated inserts and drains (pipeline.py:162).
THEOREM RecordsAccounted == PipelineSpec => []NothingUnaccounted
<1>1. PipelineInv => NothingUnaccounted
  BY DEF PipelineInv
<1> QED BY <1>1, PipelineInvariant, PTL

\* A dead letter is not in the table, however often its record is tried.
THEOREM DeadLettersApart == PipelineSpec => []DeadLettersDidNotLand
<1>1. PipelineInv => DeadLettersDidNotLand
  BY DEF PipelineInv, Sorted, DeadLettersDidNotLand
<1> QED BY <1>1, PipelineInvariant, PTL

\* Nothing lands or is dead-lettered that was not published.
THEOREM RecordsKnown == PipelineSpec => []NothingInvented
<1>1. PipelineInv => NothingInvented
  BY DEF PipelineInv
<1> QED BY <1>1, PipelineInvariant, PTL

\* A job that is drained, failed or has not started holds nothing.
THEOREM DrainedHoldsNothing == PipelineSpec => []IdleEmpty
<1>1. PipelineInv => IdleEmpty
  BY DEF PipelineInv
<1> QED BY <1>1, PipelineInvariant, PTL

-----------------------------------------------------------------------------
(* The invariant of the build *)

\* Rows in flight were classified during this build.
Clock == \A row \in rows : row.at = build

\* What the order of the steps ensures.
StepOrder ==
  /\ job = "publishing" => step = "publishing"
  /\ step \in {"start", "publish", "publishing", "count"} => expected = Unknown
  /\ step \in {"start", "publish", "publishing", "count", "wait"} => status = "failed"
  /\ step = "promote" => jobState \in {"drained", "failed"}

\* Whatever was published, a replay selected in the staging table.
FromStaging ==
  /\ selected \cup published \subseteq staged
  /\ \A r \in selected \cup published : \E f \in Filters : r \in f.rows

\* An expected count is the number of ids owed, and what else can land is not of
\* this replay.
CountTaken ==
  expected # Unknown =>
    /\ expected = Cardinality(owed)
    /\ published \cap filter.rows \subseteq owed

\* A wait that a count ended has seen as many ids as are owed: for each of them
\* that it has not seen, another one.
Seen ==
  status = "ok" /\ expected # Unknown =>
    Cardinality(owed \ LandedSince(build)) <= Cardinality(LandedSince(build) \ owed)

\* The inductive invariant of the build.
BuildInv ==
  /\ TypeOK
  /\ PipelineInv
  /\ Clock
  /\ StepOrder
  /\ NothingLost
  /\ FromStaging
  /\ CountTaken
  /\ Seen

-----------------------------------------------------------------------------
(* The MERGE *)

\* What the window query returns: for every id of the source one of its
\* freshest rows.
LEMMA PickFreshest ==
  ASSUME NEW source, NEW pick \in Picks(source)
  PROVE  /\ DOMAIN pick = KeysOf(source)
         /\ \A k \in KeysOf(source) :
              pick[k] \in source /\ pick[k].id = k /\ Freshest(source, pick[k])
<1> DEFINE fresh == {row \in source : Freshest(source, row)}
<1>1. PICK picked \in SUBSET fresh :
        /\ \A k \in KeysOf(source) : \E row \in picked : row.id = k
        /\ pick = [k \in KeysOf(source) |-> CHOOSE row \in picked : row.id = k]
  BY DEF Picks
<1>2. ASSUME NEW k \in KeysOf(source)
      PROVE  pick[k] \in source /\ pick[k].id = k /\ Freshest(source, pick[k])
  <2>1. pick[k] \in picked /\ pick[k].id = k
    BY <1>1
  <2> QED BY <2>1
<1> QED BY <1>1, <1>2

\* The promotion leaves a table of rows, each at least as fresh as any of its id
\* that has landed.
LEMMA MergeCovers ==
  ASSUME BuildAssumption, landing \subseteq Rows, NEW pick \in Picks(landing),
         events \in [Keys -> Rows \cup {Absent}]
  PROVE  /\ Overlay(events, pick) \in [Keys -> Rows \cup {Absent}]
         /\ Covers(Overlay(events, pick), landing)
<1> DEFINE new == Overlay(events, pick)
<1>1. \A row \in Rows : row.id \in Keys /\ row.at \in Nat /\ row # Absent
  BY DEF BuildAssumption, Rows
<1>2. /\ DOMAIN pick = KeysOf(landing)
      /\ \A k \in KeysOf(landing) :
           pick[k] \in landing /\ pick[k].id = k /\ Freshest(landing, pick[k])
  BY PickFreshest
<1>3. ASSUME NEW k \in Keys
      PROVE  /\ new[k] \in Rows \cup {Absent}
             /\ k \in KeysOf(landing) => new[k] # Absent /\ new[k].at >= pick[k].at
  BY <1>1, <1>2 DEF Overlay
<1>4. new \in [Keys -> Rows \cup {Absent}]
  BY <1>3 DEF Overlay
<1>5. ASSUME NEW row \in landing
      PROVE  new[row.id] # Absent /\ new[row.id].at >= row.at
  <2>1. row.id \in KeysOf(landing) /\ row.id \in Keys
    BY <1>1 DEF KeysOf
  <2>2. pick[row.id] \in Rows /\ pick[row.id].at >= row.at
    BY <1>1, <1>2, <2>1 DEF Freshest
  <2>3. new[row.id] # Absent /\ new[row.id].at >= pick[row.id].at /\ new[row.id] \in Rows
    BY <1>3, <2>1
  <2> QED BY <1>1, <2>2, <2>3
<1> QED BY <1>4, <1>5 DEF Covers

-----------------------------------------------------------------------------
(* Steps of the script that only move on *)

\* What a step leaves alone when the pipeline stands still.
LEMMA PipelineAlone ==
  ASSUME PipelineInv, UNCHANGED pipelineVars
  PROVE  /\ PipelineInv'
         /\ \A n : AccountedFrom(n)' = AccountedFrom(n) /\ LandedSince(n)' = LandedSince(n)
<1>1. UNCHANGED <<jobState, waiting, bundle, rows, landing, dlq, mishaps, published>>
  BY DEF pipelineVars
<1>2. PipelineInv'
  BY <1>1, MessagesAlone DEF PipelineInv, PipelineTypeOK, IdleEmpty
<1> QED BY <1>1, <1>2 DEF AccountedFrom, InFlight, Pulled, Waiting, LandedFrom, LandedSince

\* The ids accounted for since a build, in the invariant's words.
LEMMA LostOrAccounted == NothingLost <=> sent \subseteq AccountedFrom(execution)
BY DEF NothingLost, AccountedFrom, LandedSince, LandedFrom

\* A step that changes the step alone keeps all but the order of the steps.
LEMMA MoveOn ==
  ASSUME BuildInv, step' \in Steps, StepOrder',
         UNCHANGED <<pipelineVars, publisherVars, waitVars, build, filter, staged,
                     execution, status, events>>
  PROVE  BuildInv'
<1>1. UNCHANGED <<rows, published, jobState, job, selected, sent, expected, prev, stable,
                  polls, owed>>
  BY DEF pipelineVars, publisherVars, waitVars
<1>2. PipelineInv'
  BY PipelineAlone DEF BuildInv
<1>3. TypeOK'
  BY <1>1, <1>2 DEF BuildInv, TypeOK, PipelineInv
<1>4. Clock' /\ FromStaging' /\ CountTaken'
  BY <1>1 DEF BuildInv, Clock, FromStaging, CountTaken
<1>5. NothingLost' /\ Seen'
  <2>1. /\ LandedSince(build)' = LandedSince(build)
        /\ LandedSince(execution)' = LandedSince(execution)
        /\ Waiting' = Waiting /\ InFlight' = InFlight /\ dlq' = dlq
    BY DEF LandedSince, Waiting, InFlight, Pulled, pipelineVars
  <2> QED BY <1>1, <2>1 DEF BuildInv, NothingLost, Seen
<1> QED BY <1>2, <1>3, <1>4, <1>5 DEF BuildInv

LEMMA ScriptInv ==
  ASSUME BuildInv,
         AwaitStart \/ PublisherReturns \/ WaitTimesOut \/ AwaitDrain \/ SkipPromotion
           \/ Report
  PROVE  BuildInv'
<1>1. /\ step' \in Steps
      /\ UNCHANGED <<pipelineVars, publisherVars, waitVars, build, filter, staged,
                     execution, status, events>>
  BY DEF AwaitStart, PublisherReturns, WaitTimesOut, AwaitDrain, SkipPromotion, Report, Steps
<1>2. UNCHANGED <<jobState, job, expected>>
  BY <1>1 DEF pipelineVars, publisherVars, waitVars
<1>3. StepOrder'
  BY <1>1, <1>2 DEF BuildInv, StepOrder, AwaitStart, PublisherReturns, WaitTimesOut,
                    AwaitDrain, SkipPromotion, Report
<1> QED BY <1>1, <1>3, MoveOn

-----------------------------------------------------------------------------
(* Steps that touch more than the step *)

LEMMA LoadInv ==
  ASSUME BuildInv, NEW r \in Records, Load(r) PROVE BuildInv'
<1>1. /\ staged' = staged \cup {r}
      /\ UNCHANGED <<rows, published, jobState, job, selected, sent, expected, prev, stable,
                     polls, owed, step, build, filter, execution, status, events>>
      /\ UNCHANGED pipelineVars
  BY DEF Load, pipelineVars, publisherVars, waitVars
<1>2. PipelineInv' /\ \A n : AccountedFrom(n)' = AccountedFrom(n)
                             /\ LandedSince(n)' = LandedSince(n)
  BY <1>1, PipelineAlone DEF BuildInv
<1>3. TypeOK'
  BY <1>1, <1>2 DEF BuildInv, TypeOK, PipelineInv
<1>4. Clock' /\ StepOrder' /\ FromStaging' /\ CountTaken'
  BY <1>1 DEF BuildInv, Clock, StepOrder, FromStaging, CountTaken
<1>5. LandedSince(build)' = LandedSince(build)
  BY <1>1 DEF LandedSince, pipelineVars
<1>6. AccountedFrom(execution)' = AccountedFrom(execution)
  BY <1>1 DEF AccountedFrom, LandedFrom, Waiting, InFlight, Pulled, pipelineVars
<1>7. NothingLost' /\ Seen'
  BY <1>1, <1>5, <1>6, LostOrAccounted
     DEF BuildInv, NothingLost, AccountedFrom, LandedFrom, LandedSince, Seen
<1> QED BY <1>2, <1>3, <1>4, <1>7 DEF BuildInv

LEMMA LaunchInv ==
  ASSUME PipelineAssumption, BuildAssumption, BuildInv, NEW f \in Filters, Launch(f)
  PROVE  BuildInv'
<1>1. /\ jobState \in {"none", "drained", "failed"}
      /\ build' = build + 1 /\ build < MaxBuilds
      /\ UNCHANGED <<job, selected, sent, staged, execution, events>>
      /\ LaunchJob \/ UNCHANGED pipelineVars
  BY DEF Launch, publisherVars
<1>2. PipelineInv'
  BY <1>1, OperateInv, PipelineAlone DEF BuildInv
<1>3. UNCHANGED <<waiting, bundle, rows, landing, dlq, published>>
  BY <1>1 DEF LaunchJob, pipelineVars
<1>4. TypeOK'
  <2>1. build' \in 0 .. MaxBuilds /\ execution' \in 0 .. build'
    BY <1>1 DEF BuildInv, TypeOK, BuildAssumption
  <2>2. step' \in Steps /\ filter' \in Filters /\ status' \in {"ok", "failed"}
    BY DEF Launch, Steps
  <2>3. /\ expected' \in Counts \cup {Unknown} /\ prev' \in Counts \cup {Unknown, -1}
        /\ stable' \in 0 .. StablePolls - 1 /\ polls' \in 0 .. MaxPolls
        /\ owed' \subseteq Records
    BY DEF Launch, BuildAssumption
  <2> QED BY <1>1, <1>2, <2>1, <2>2, <2>3 DEF BuildInv, TypeOK, PipelineInv
<1>5. Clock'
  <2>1. rows = {}
    BY <1>1 DEF BuildInv, PipelineInv, IdleEmpty, InFlight, Ids
  <2> QED BY <1>3, <2>1 DEF Clock
<1>6. StepOrder' /\ FromStaging' /\ CountTaken' /\ Seen'
  BY <1>1, <1>3 DEF Launch, BuildInv, StepOrder, FromStaging, CountTaken, Seen
<1>7. NothingLost'
  BY <1>1, <1>3 DEF BuildInv, NothingLost, Waiting, InFlight, Pulled, LandedSince
<1> QED BY <1>2, <1>4, <1>5, <1>6, <1>7 DEF BuildInv

LEMMA ExecuteInv ==
  ASSUME BuildAssumption, BuildInv, Execute PROVE BuildInv'
<1>1. /\ job # "publishing" /\ job' = "publishing" /\ selected' = Selected /\ sent' = {}
      /\ step = "publish" /\ step' = "publishing" /\ execution' = build
      /\ UNCHANGED <<pipelineVars, expected, prev, stable, polls, owed, build, filter,
                     staged, status, events>>
  BY DEF Execute, Publisher!Start, waitVars
<1>2. UNCHANGED <<rows, published, jobState, landing>>
  BY <1>1 DEF pipelineVars
<1>3. PipelineInv'
  BY <1>1, PipelineAlone DEF BuildInv
<1>4. Selected \subseteq staged /\ \A r \in Selected : r \in filter.rows
  BY DEF Selected
<1>5. TypeOK'
  <2>1. execution' \in 0 .. build' /\ step' \in Steps
    BY <1>1 DEF BuildInv, TypeOK, BuildAssumption, Steps
  <2> QED BY <1>1, <1>3, <1>4, <2>1 DEF BuildInv, TypeOK, PipelineInv
<1>6. Clock' /\ StepOrder' /\ NothingLost' /\ CountTaken'
  BY <1>1, <1>2 DEF BuildInv, Clock, StepOrder, NothingLost, CountTaken
<1>7. FromStaging'
  BY <1>1, <1>2, <1>4 DEF BuildInv, TypeOK, FromStaging
<1>8. Seen'
  BY <1>1, <1>2 DEF BuildInv, Seen, LandedSince
<1> QED BY <1>3, <1>5, <1>6, <1>7, <1>8 DEF BuildInv

LEMMA PublishInv ==
  ASSUME PipelineAssumption, BuildAssumption, BuildInv, Publish PROVE BuildInv'
<1>1. /\ job = "publishing" /\ job' \in {"publishing", "succeeded", "failed"}
      /\ UNCHANGED <<selected, expected, prev, stable, polls, owed, step, build, filter,
                     staged, execution, status, events>>
  BY DEF Publish, Publisher!Send, Publisher!Succeed, Publisher!Fail, waitVars
<1>2. step = "publishing" /\ expected = Unknown
  BY <1>1 DEF BuildInv, StepOrder
<1>3. CASE \E r \in Records : Publisher!Send(r) /\ Deliver(r)
  <2>1. PICK r \in Records : Publisher!Send(r) /\ Deliver(r)
    BY <1>3
  <2>2. /\ r \in selected /\ sent' = sent \cup {r}
        /\ published' = published \cup {r}
        /\ UNCHANGED <<jobState, bundle, rows, landing, dlq>>
    BY <2>1 DEF Publisher!Send, Deliver
  <2>3. PipelineInv' /\ Waiting' = Waiting \cup {r}
    BY <2>1, DeliverInv, DeliverWaiting DEF BuildInv, PipelineInv
  <2>4. TypeOK'
    BY <1>1, <2>2, <2>3 DEF BuildInv, TypeOK, PipelineInv
  <2>5. Clock' /\ StepOrder' /\ CountTaken' /\ Seen'
    BY <1>1, <1>2, <2>2 DEF BuildInv, Clock, StepOrder, CountTaken, Seen
  <2>6. NothingLost'
    BY <1>1, <2>2, <2>3 DEF BuildInv, NothingLost, InFlight, Pulled, LandedSince
  <2>7. FromStaging'
    BY <1>1, <2>2 DEF BuildInv, FromStaging
  <2> QED BY <2>3, <2>4, <2>5, <2>6, <2>7 DEF BuildInv
<1>4. CASE (Publisher!Succeed \/ Publisher!Fail) /\ UNCHANGED pipelineVars
  <2>1. UNCHANGED <<sent, rows, published, jobState, landing, waiting, bundle, dlq>>
    BY <1>4 DEF Publisher!Succeed, Publisher!Fail, pipelineVars
  <2>2. PipelineInv'
    BY <1>4, PipelineAlone DEF BuildInv
  <2>3. TypeOK'
    BY <1>1, <2>1, <2>2 DEF BuildInv, TypeOK, PipelineInv
  <2>4. Clock' /\ StepOrder' /\ CountTaken' /\ Seen' /\ FromStaging'
    BY <1>1, <1>2, <2>1 DEF BuildInv, Clock, StepOrder, CountTaken, Seen, FromStaging
  <2>5. NothingLost'
    BY <1>1, <2>1 DEF BuildInv, NothingLost, Waiting, InFlight, Pulled, LandedSince
  <2> QED BY <2>2, <2>3, <2>4, <2>5 DEF BuildInv
<1> QED BY <1>3, <1>4 DEF Publish

\* What was published for the window of the build is among what it selects.
LEMMA PublishedSelected ==
  ASSUME BuildInv PROVE published \cap filter.rows \subseteq Selected
BY DEF BuildInv, FromStaging, Selected

\* Every set of records has a count.
LEMMA CountType ==
  ASSUME BuildAssumption, NEW S \in SUBSET Records
  PROVE  IsFiniteSet(S) /\ Cardinality(S) \in Counts /\ Cardinality(S) \in Nat
<1>1. IsFiniteSet(Records) /\ Cardinality(Records) \in Nat
  BY FS_CardinalityType DEF BuildAssumption
<1>2. IsFiniteSet(S) /\ Cardinality(S) <= Cardinality(Records)
  BY <1>1, FS_Subset
<1>3. Cardinality(S) \in Nat
  BY <1>2, FS_CardinalityType
<1> QED BY <1>1, <1>2, <1>3 DEF Counts

\* Of two sets of records, the larger one has at least as many of its own.
LEMMA Unshared ==
  ASSUME BuildAssumption, NEW A \in SUBSET Records, NEW B \in SUBSET Records,
         Cardinality(A) <= Cardinality(B)
  PROVE  Cardinality(A \ B) <= Cardinality(B \ A)
<1> DEFINE both == Cardinality(A \cap B)
<1>1. /\ IsFiniteSet(A) /\ Cardinality(A) \in Nat
      /\ IsFiniteSet(B) /\ Cardinality(B) \in Nat
  BY CountType
<1>2. both \in Nat
  BY CountType
<1>3. Cardinality(A \ B) = Cardinality(A) - both
  BY <1>1, FS_Difference
<1>4. B \cap A = A \cap B
  OBVIOUS
<1>5. Cardinality(B \ A) = Cardinality(B) - both
  BY <1>1, <1>4, FS_Difference
<1> HIDE DEF both
<1> QED BY <1>1, <1>2, <1>3, <1>5

\* What more lands keeps it so.
LEMMA MoreLanded ==
  ASSUME BuildAssumption, NEW A \in SUBSET Records, NEW B \in SUBSET Records,
         NEW C \in SUBSET Records, B \subseteq C,
         Cardinality(A \ B) <= Cardinality(B \ A)
  PROVE  Cardinality(A \ C) <= Cardinality(C \ A)
<1>1. Cardinality(A \ C) <= Cardinality(A \ B)
  <2>1. A \ C \subseteq A \ B /\ IsFiniteSet(A \ B)
    BY CountType
  <2> QED BY <2>1, FS_Subset
<1>2. Cardinality(B \ A) <= Cardinality(C \ A)
  <2>1. B \ A \subseteq C \ A /\ IsFiniteSet(C \ A)
    BY CountType
  <2> QED BY <2>1, FS_Subset
<1>3. /\ Cardinality(A \ B) \in Nat /\ Cardinality(A \ C) \in Nat
      /\ Cardinality(B \ A) \in Nat /\ Cardinality(C \ A) \in Nat
  BY CountType
<1> QED BY <1>1, <1>2, <1>3

LEMMA CountInv ==
  ASSUME BuildAssumption, BuildInv, Count PROVE BuildInv'
<1>1. /\ step = "count" /\ step' = "wait" /\ owed' = Selected
      /\ UNCHANGED <<job, selected, sent, prev, stable, polls, build, filter, staged,
                     execution, status, events>>
      /\ UNCHANGED pipelineVars
  BY DEF Count, publisherVars
<1>2. expected = Unknown /\ status = "failed" /\ job # "publishing"
  BY <1>1 DEF BuildInv, StepOrder
<1>3. \/ expected' = Unknown
      \/ ~filter.event /\ expected' = Cardinality(owed')
  BY <1>1, <1>2 DEF Count
<1>4. UNCHANGED <<rows, published, jobState, landing, waiting, bundle, dlq>>
  BY <1>1 DEF pipelineVars
<1>5. PipelineInv'
  BY <1>1, PipelineAlone DEF BuildInv
<1>6. owed' \in SUBSET Records
  BY <1>1 DEF Selected, BuildInv, TypeOK
<1>7. TypeOK'
  <2>1. expected' \in Counts \cup {Unknown}
    BY <1>3, <1>6, CountType
  <2> QED BY <1>1, <1>5, <1>6, <2>1 DEF BuildInv, TypeOK, PipelineInv, Steps
<1>8. CountTaken'
  BY <1>1, <1>3, <1>4, PublishedSelected DEF CountTaken
<1>9. Clock' /\ StepOrder' /\ FromStaging' /\ Seen'
  BY <1>1, <1>2, <1>4 DEF BuildInv, Clock, StepOrder, FromStaging, Seen
<1>10. NothingLost'
  BY <1>1, <1>4 DEF BuildInv, NothingLost, Waiting, InFlight, Pulled, LandedSince
<1> QED BY <1>5, <1>7, <1>8, <1>9, <1>10 DEF BuildInv

\* Only published records have landed.
LEMMA LandedPublished ==
  ASSUME BuildInv PROVE LandedSince(build) \in SUBSET (published \cap Records)
<1>1. LandedSince(build) \subseteq Ids(landing)
  BY DEF LandedSince, Ids
<1>2. Ids(landing) \subseteq published /\ published \subseteq Records
  BY DEF BuildInv, PipelineInv, NothingInvented, PipelineTypeOK
<1> QED BY <1>1, <1>2

LEMMA PollInv ==
  ASSUME BuildAssumption, BuildInv, Poll PROVE BuildInv'
<1>1. /\ step = "wait" /\ polls < MaxPolls /\ polls' = polls + 1
      /\ UNCHANGED <<job, selected, sent, expected, owed, build, filter, staged, execution,
                     events>>
      /\ UNCHANGED pipelineVars
  BY DEF Poll, publisherVars
<1>2. PICK n \in {Landed, Unknown} : PollResult(n)
  BY DEF Poll
<1>3. UNCHANGED <<rows, published, jobState, landing, waiting, bundle, dlq>>
  BY <1>1 DEF pipelineVars
<1>4. PipelineInv'
  BY <1>1, PipelineAlone DEF BuildInv
<1>5. LandedSince(build) \in SUBSET Records /\ Landed \in Counts /\ Landed \in Nat
  BY LandedPublished, CountType DEF Landed
<1>6. \/ Completes(n) /\ step' = "drain" /\ status' = "ok" /\ UNCHANGED <<prev, stable>>
      \/ ~Completes(n) /\ prev' = n /\ UNCHANGED <<step, status>>
  BY <1>2 DEF PollResult
<1>7. TypeOK'
  <2>1. polls' \in 0 .. MaxPolls
    BY <1>1 DEF BuildInv, TypeOK, BuildAssumption
  <2>2. prev' \in Counts \cup {Unknown, -1}
    BY <1>5, <1>6 DEF BuildInv, TypeOK
  <2>3. stable' \in 0 .. StablePolls - 1
    BY <1>2 DEF PollResult, Completes, BuildInv, TypeOK, BuildAssumption
  <2> QED BY <1>1, <1>4, <1>6, <2>1, <2>2, <2>3 DEF BuildInv, TypeOK, PipelineInv, Steps
<1>8. Clock' /\ StepOrder' /\ FromStaging' /\ CountTaken'
  BY <1>1, <1>3, <1>6 DEF BuildInv, Clock, StepOrder, FromStaging, CountTaken
<1>9. NothingLost'
  BY <1>1, <1>3 DEF BuildInv, NothingLost, Waiting, InFlight, Pulled, LandedSince
<1>10. Seen'
  <2>1. LandedSince(build)' = LandedSince(build)
    BY <1>1, <1>3 DEF LandedSince
  <2>2. CASE ~Completes(n)
    BY <1>1, <1>6, <2>1, <2>2 DEF BuildInv, Seen
  <2>3. CASE Completes(n)
    <3> SUFFICES ASSUME expected # Unknown
                 PROVE  Cardinality(owed \ LandedSince(build))
                          <= Cardinality(LandedSince(build) \ owed)
      BY <1>1, <2>1 DEF Seen
    <3>1. n = Landed /\ n >= expected
      BY <1>2, <2>3 DEF Completes
    <3>2. expected = Cardinality(owed) /\ owed \in SUBSET Records
      BY DEF BuildInv, CountTaken, TypeOK
    <3>3. Cardinality(owed) \in Nat
      BY <3>2, CountType
    <3>4. Cardinality(owed) <= Cardinality(LandedSince(build))
      BY <1>5, <3>1, <3>2, <3>3 DEF Landed
    <3> QED BY <1>5, <3>2, <3>4, Unshared
  <2> QED BY <2>2, <2>3
<1> QED BY <1>4, <1>7, <1>8, <1>9, <1>10 DEF BuildInv

\* A drain request, by the build or by an operator.
LEMMA DrainInv ==
  ASSUME BuildInv, Drain \/ DrainFails \/ DrainByHand PROVE BuildInv'
<1>1. /\ step' \in {"draining", "idle", "stranded"}
      /\ step \in {"drain", "stranded"}
      /\ UNCHANGED <<publisherVars, waitVars, build, filter, staged, execution, status,
                     events>>
      /\ RequestDrain \/ UNCHANGED pipelineVars
  BY DEF Drain, DrainFails, DrainByHand
<1>2. UNCHANGED <<job, selected, sent, expected, prev, stable, polls, owed>>
  BY <1>1 DEF publisherVars, waitVars
<1>3. StepOrder'
  BY <1>1, <1>2 DEF BuildInv, StepOrder
<1>4. CASE UNCHANGED pipelineVars
  BY <1>1, <1>3, <1>4, MoveOn DEF Steps
<1>5. CASE RequestDrain
  <2>1. UNCHANGED <<rows, published, landing, waiting, bundle, dlq>>
    BY <1>5 DEF RequestDrain
  <2>2. PipelineInv'
    BY <1>5, OperateInv DEF BuildInv
  <2>3. TypeOK'
    BY <1>1, <1>2, <2>2 DEF BuildInv, TypeOK, PipelineInv, Steps
  <2>4. Clock' /\ FromStaging' /\ CountTaken'
    BY <1>1, <1>2, <2>1 DEF BuildInv, Clock, FromStaging, CountTaken
  <2>5. NothingLost' /\ Seen'
    BY <1>1, <1>2, <2>1
       DEF BuildInv, NothingLost, Seen, Waiting, InFlight, Pulled, LandedSince
  <2> QED BY <1>3, <2>2, <2>3, <2>4, <2>5 DEF BuildInv
<1> QED BY <1>1, <1>4, <1>5

LEMMA PromoteInv ==
  ASSUME BuildAssumption, BuildInv, Promote
  PROVE  BuildInv' /\ Covers(events', landing)
<1>1. /\ step = "promote" /\ step' = "report"
      /\ UNCHANGED <<job, selected, sent, expected, prev, stable, polls, owed, build, filter,
                     staged, execution, status>>
      /\ UNCHANGED pipelineVars
  BY DEF Promote, publisherVars, waitVars
<1>2. events' \in [Keys -> Rows \cup {Absent}] /\ Covers(events', landing)
  BY MergeCovers DEF Promote, BuildInv, TypeOK, PipelineTypeOK
<1>3. UNCHANGED <<rows, published, jobState, landing, waiting, bundle, dlq>>
  BY <1>1 DEF pipelineVars
<1>4. PipelineInv'
  BY <1>1, PipelineAlone DEF BuildInv
<1>5. TypeOK'
  BY <1>1, <1>2, <1>4 DEF BuildInv, TypeOK, PipelineInv, Steps
<1>6. Clock' /\ StepOrder' /\ FromStaging' /\ CountTaken'
  BY <1>1, <1>3 DEF BuildInv, Clock, StepOrder, FromStaging, CountTaken
<1>7. NothingLost' /\ Seen'
  BY <1>1, <1>3 DEF BuildInv, NothingLost, Seen, Waiting, InFlight, Pulled, LandedSince
<1> QED BY <1>2, <1>4, <1>5, <1>6, <1>7 DEF BuildInv

LEMMA PipelineStepInv ==
  ASSUME PipelineAssumption, BuildAssumption, BuildInv, Pipeline PROVE BuildInv'
<1>1. /\ Process(build)
      /\ UNCHANGED <<job, selected, sent, expected, prev, stable, polls, owed, step, build,
                     filter, staged, execution, status, events>>
  BY DEF Pipeline, publisherVars, waitVars
<1>2. build \in Nat /\ execution \in Nat /\ execution <= build
  BY DEF BuildInv, TypeOK, BuildAssumption
<1>3. PipelineInv'
  BY <1>1, <1>2, ProcessInv DEF BuildInv
<1>4. TypeOK'
  BY <1>1, <1>3 DEF BuildInv, TypeOK, PipelineInv
<1>5. Clock'
  BY <1>1, <1>2, ProcessRows DEF BuildInv, PipelineInv, Clock
<1>6. NothingLost'
  <2>1. \A row \in rows : row.at >= execution
    BY <1>2 DEF BuildInv, Clock
  <2>2. AccountedFrom(execution) \subseteq AccountedFrom(execution)'
    BY <1>1, <1>2, <2>1, ProcessAccount DEF BuildInv, PipelineInv
  <2> QED BY <1>1, <2>2 DEF BuildInv, NothingLost, AccountedFrom, LandedFrom, LandedSince
<1>7. published' = published /\ landing \subseteq landing'
      /\ (jobState \in {"drained", "failed"} => jobState' = jobState)
  BY <1>1 DEF Process, JobStarts, JobFails, DrainCompletes, Pull, BundleFails,
              CommitBundle, InsertRow, RouteFailedRow
<1>8. StepOrder' /\ FromStaging' /\ CountTaken'
  BY <1>1, <1>7 DEF BuildInv, StepOrder, FromStaging, CountTaken
<1>9. Seen'
  <2>1. LandedSince(build) \subseteq LandedSince(build)'
    BY <1>1, <1>7 DEF LandedSince, Ids
  <2>2. /\ LandedSince(build) \in SUBSET Records /\ LandedSince(build)' \in SUBSET Records
        /\ owed \in SUBSET Records
    <3>1. landing \subseteq Rows /\ landing' \subseteq Rows
      BY <1>3 DEF BuildInv, PipelineInv, PipelineTypeOK
    <3> QED BY <3>1 DEF LandedSince, Ids, Rows, BuildInv, TypeOK
  <2>3. UNCHANGED <<owed, expected, status>>
    BY <1>1
  <2> QED BY <2>1, <2>2, <2>3, MoreLanded DEF BuildInv, Seen
<1> QED BY <1>3, <1>4, <1>5, <1>6, <1>8, <1>9 DEF BuildInv

LEMMA BuildInvInit ==
  ASSUME PipelineAssumption, BuildAssumption, Init PROVE BuildInv
<1>1. PipelineInv
  BY PipelineInitInv DEF Init
<1>2. job = "idle" /\ selected = {} /\ sent = {} /\ rows = {} /\ published = {}
  BY DEF Init, Publisher!JobInit, PipelineInit
<1>3. TypeOK
  BY <1>1, <1>2 DEF Init, TypeOK, BuildAssumption, PipelineInv, Steps
<1> QED BY <1>1, <1>2, <1>3
        DEF Init, BuildInv, Clock, StepOrder, NothingLost, FromStaging, CountTaken, Seen

LEMMA BuildInvStep ==
  ASSUME PipelineAssumption, BuildAssumption, BuildInv, [Next]_vars PROVE BuildInv'
<1>1. CASE UNCHANGED vars
  <2>1. UNCHANGED <<pipelineVars, publisherVars, waitVars, build, filter, staged,
                    execution, status, events, step, jobState, job, expected>>
    BY <1>1 DEF vars, pipelineVars, publisherVars, waitVars
  <2>2. step' \in Steps /\ StepOrder'
    BY <2>1 DEF BuildInv, TypeOK, StepOrder
  <2> QED BY <2>1, <2>2, MoveOn
<1>2. CASE Build
  BY <1>2, ScriptInv, ExecuteInv, CountInv, PollInv, DrainInv, PromoteInv DEF Build
<1> QED BY <1>1, <1>2, LoadInv, LaunchInv, PublishInv, PipelineStepInv, DrainInv DEF Next

-----------------------------------------------------------------------------
(* Theorems *)

\* Every state of the build satisfies the invariant.
THEOREM BuildInvariant == Spec => []BuildInv
<1>1. Init => BuildInv
  BY BuildInvInit, PipelineAssumption, BuildAssumption
<1>2. BuildInv /\ [Next]_vars => BuildInv'
  BY BuildInvStep, PipelineAssumption, BuildAssumption
<1> QED BY <1>1, <1>2, PTL DEF Spec

\* Every state of the build is well typed.
THEOREM BuildTypeCorrect == Spec => []TypeOK
<1>1. BuildInv => TypeOK
  BY DEF BuildInv
<1> QED BY <1>1, BuildInvariant, PTL

\* Every message the last executed replay sent is somewhere, through failures,
\* drains and later builds (dataflow/pipeline.py:162).
THEOREM SentNotLost == Spec => []NothingLost
<1>1. BuildInv => NothingLost
  BY DEF BuildInv
<1> QED BY <1>1, BuildInvariant, PTL

\* "The promotion cannot run too early" (dataflow/README.md:144).
THEOREM PromotionAfterDrain == Spec => PromotedAfterDrain
<1>1. BuildInv /\ [Next]_vars => [Promote => InFlight = {} /\ Covers(events', landing)]_vars
  <2> SUFFICES ASSUME BuildInv, Promote PROVE InFlight = {} /\ Covers(events', landing)
    OBVIOUS
  <2>1. InFlight = {}
    BY DEF Promote, BuildInv, StepOrder, PipelineInv, IdleEmpty
  <2> QED BY <2>1, PromoteInv, BuildAssumption
<1> QED BY <1>1, BuildInvariant, PTL DEF Spec, PromotedAfterDrain

\* At a MERGE after a full count: what is not promoted, and what landed in its
\* place.
LEMMA PromoteMissing ==
  ASSUME PipelineAssumption, BuildAssumption, BuildInv, Promote, expected # Unknown
  PROVE  LET missing == {r \in owed : events'[r] = Absent \/ events'[r].at < build}
         IN /\ missing \in SUBSET Records
            /\ Cardinality(missing) <= Cardinality(LandedSince(build) \ filter.rows)
<1> DEFINE missing == {r \in owed : events'[r] = Absent \/ events'[r].at < build}
           landed == LandedSince(build)
<1>1. owed \in SUBSET Records /\ landed \in SUBSET Records /\ landed \subseteq published
  BY LandedPublished DEF BuildInv, TypeOK
<1>2. Covers(events', landing) /\ landing \subseteq Rows /\ build \in Nat
      /\ events' \in [Keys -> Rows \cup {Absent}]
  BY PromoteInv DEF BuildInv, TypeOK, PipelineTypeOK, BuildAssumption
<1>3. ASSUME NEW r \in missing PROVE r \notin landed
  <2> SUFFICES ASSUME r \in landed PROVE FALSE
    OBVIOUS
  <2>1. PICK row \in landing : row.id = r /\ row.at >= build
    BY DEF LandedSince, Ids
  <2>2. events'[r] # Absent /\ events'[r].at >= row.at
    BY <1>2, <2>1 DEF Covers
  <2>3. events'[r] \in Rows /\ row \in Rows
    BY <1>1, <1>2, <2>1, <2>2 DEF BuildAssumption
  <2>4. events'[r].at \in Nat /\ row.at \in Nat
    BY <2>3 DEF Rows
  <2> QED BY <1>2, <2>1, <2>2, <2>4
<1>4. missing \subseteq owed \ landed /\ missing \in SUBSET Records
  BY <1>1, <1>3
<1>5. landed \ owed \subseteq landed \ filter.rows
  BY <1>1 DEF BuildInv, CountTaken
<1>6. Cardinality(owed \ landed) <= Cardinality(landed \ owed)
  BY DEF BuildInv, Seen, Promote
<1> HIDE DEF missing, landed
<1>7. Cardinality(missing) <= Cardinality(owed \ landed)
  <2>1. IsFiniteSet(owed \ landed)
    BY <1>1, CountType
  <2> QED BY <1>4, <2>1, FS_Subset
<1>8. Cardinality(landed \ owed) <= Cardinality(landed \ filter.rows)
  <2>1. IsFiniteSet(landed \ filter.rows)
    BY <1>1, CountType
  <2> QED BY <1>5, <2>1, FS_Subset
<1>9. /\ Cardinality(missing) \in Nat /\ Cardinality(owed \ landed) \in Nat
      /\ Cardinality(landed \ owed) \in Nat /\ Cardinality(landed \ filter.rows) \in Nat
  BY <1>1, <1>4, CountType
<1>10. Cardinality(missing) <= Cardinality(landed \ filter.rows)
  BY <1>6, <1>7, <1>8, <1>9
<1> QED BY <1>4, <1>10 DEF missing, landed

\* What the completeness of a promotion is worth under any set of replays: for
\* every id that was counted and is not promoted an id that is not of this replay
\* has landed in its place.
THEOREM PromotionMissing == Spec => MissingReplaced
<1>1. BuildInv /\ [Next]_vars =>
        [Promote /\ expected # Unknown =>
           Cardinality({r \in owed : events'[r] = Absent \/ events'[r].at < build})
             <= Cardinality(LandedSince(build) \ filter.rows)]_vars
  BY PromoteMissing, PipelineAssumption, BuildAssumption
<1> QED BY <1>1, BuildInvariant, PTL DEF Spec, MissingReplaced

\* A replay whose ids are counted selects every row that any replay selects:
\* all replays are of one window, or the counted ones of the whole table.
CountedSelectAll == \A f, g \in Filters : ~g.event => f.rows \subseteq g.rows

\* Only replays without an event have their ids counted.
CountedOnly == expected # Unknown => ~filter.event

LEMMA CountedOnlyStep ==
  ASSUME CountedOnly, [Next]_vars PROVE CountedOnly'
<1>1. CASE Count
  BY <1>1 DEF Count, CountedOnly
<1>2. CASE \E f \in Filters : Launch(f)
  BY <1>2 DEF Launch, CountedOnly
<1>3. CASE UNCHANGED <<expected, filter>>
  BY <1>3 DEF CountedOnly
<1>4. CASE \/ \E r \in Records : Load(r)
           \/ AwaitStart \/ Execute \/ PublisherReturns \/ Poll \/ WaitTimesOut \/ Drain
           \/ DrainFails \/ DrainByHand \/ AwaitDrain \/ Promote \/ SkipPromotion \/ Report
           \/ Publish \/ Pipeline \/ UNCHANGED vars
  BY <1>3, <1>4 DEF Load, AwaitStart, Execute, PublisherReturns, Poll, WaitTimesOut, Drain,
                    DrainFails, DrainByHand, AwaitDrain, Promote, SkipPromotion, Report,
                    Publish, Pipeline, vars, waitVars
<1> QED BY <1>1, <1>2, <1>4 DEF Next, Build

\* "An incomplete replay is never promoted" (ADR 0002), as long as a counted
\* replay selects all that any replay does: then nothing else can land, and the
\* MERGE leaves this build's labels for every id that was counted.
THEOREM PromotionComplete == Spec /\ CountedSelectAll => PromotedComplete
<1> SUFFICES ASSUME CountedSelectAll PROVE Spec => PromotedComplete
  OBVIOUS
<1>1. Init => CountedOnly
  BY DEF Init, CountedOnly
<1>2. CountedOnly /\ [Next]_vars => CountedOnly'
  BY CountedOnlyStep
<1>3. BuildInv /\ CountedOnly /\ [Next]_vars =>
        [Promote /\ expected # Unknown =>
           \A r \in owed : events'[r] # Absent /\ events'[r].at >= build]_vars
  <2> SUFFICES ASSUME BuildInv, CountedOnly, Promote, expected # Unknown, NEW r \in owed
               PROVE  events'[r] # Absent /\ events'[r].at >= build
    OBVIOUS
  <2> DEFINE missing == {q \in owed : events'[q] = Absent \/ events'[q].at < build}
             others == LandedSince(build) \ filter.rows
  <2>1. published \subseteq filter.rows
    BY DEF BuildInv, FromStaging, TypeOK, CountedOnly, CountedSelectAll
  <2>2. others = {}
    BY <2>1, LandedPublished
  <2>3. missing \in SUBSET Records /\ Cardinality(missing) <= Cardinality(others)
    BY PromoteMissing, PipelineAssumption, BuildAssumption
  <2>4. Cardinality(others) = 0
    BY <2>2, FS_EmptySet
  <2>5. IsFiniteSet(missing) /\ Cardinality(missing) \in Nat
    BY <2>3, CountType, BuildAssumption
  <2> HIDE DEF missing
  <2>6. missing = {}
    BY <2>3, <2>4, <2>5, FS_EmptySet
  <2>7. events'[r] # Absent /\ ~(events'[r].at < build)
    BY <2>6 DEF missing
  <2>8. events'[r].at \in Nat /\ build \in Nat
    <3>1. events' \in [Keys -> Rows \cup {Absent}] /\ r \in Keys
      BY PromoteInv, BuildAssumption DEF BuildInv, TypeOK, BuildAssumption
    <3> QED BY <2>7, <3>1, BuildAssumption DEF BuildInv, TypeOK, Rows, BuildAssumption
  <2> QED BY <2>7, <2>8
<1> QED BY <1>1, <1>2, <1>3, BuildInvariant, PTL DEF Spec, PromotedComplete

\* Seen from the publisher's variables the build executes the publisher job over
\* and over and does nothing else to it. ReplayPublisher implements that job.
THEOREM BuildRunsPublishJob == Spec => Publisher!JobSpec
<1>1. Init => Publisher!JobInit
  BY DEF Init
<1>2. BuildInv /\ [Next]_vars => [Publisher!JobNext]_(Publisher!jobVars)
  <2> SUFFICES ASSUME BuildInv, [Next]_vars
               PROVE  Publisher!JobNext \/ UNCHANGED publisherVars
    BY DEF publisherVars, Publisher!jobVars
  <2>1. CASE Execute
    <3>1. Selected \in SUBSET Records
      BY DEF Selected, BuildInv, TypeOK
    <3> QED BY <2>1, <3>1 DEF Execute, Publisher!JobNext
  <2>2. CASE Publish
    BY <2>2 DEF Publish, Publisher!JobNext
  <2>3. CASE \/ \E r \in Records : Load(r)
             \/ \E f \in Filters : Launch(f)
             \/ AwaitStart \/ PublisherReturns \/ Count \/ Poll \/ WaitTimesOut
             \/ Drain \/ DrainFails \/ DrainByHand \/ AwaitDrain
             \/ Promote \/ SkipPromotion \/ Report \/ Pipeline \/ UNCHANGED vars
    BY <2>3 DEF Load, Launch, AwaitStart, PublisherReturns, Count, Poll, WaitTimesOut, Drain,
                DrainFails, DrainByHand, AwaitDrain, Promote, SkipPromotion, Report, Pipeline,
                vars
  <2> QED BY <2>1, <2>2, <2>3 DEF Next, Build
<1> QED BY <1>1, <1>2, BuildInvariant, PTL DEF Spec, Publisher!JobSpec

=============================================================================
