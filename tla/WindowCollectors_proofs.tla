----------------------- MODULE WindowCollectors_proofs ------------------------
(* Theorems about the load step and about the collectors in front of it. The   *)
(* first part is about LoadSpec, for every set of rows and loaders and every   *)
(* archive that only grows; the second part shows that the collectors' passes  *)
(* are such an archive, that a pass which ends is complete, and what the two   *)
(* parts say together of a record from the API to raw_staging.                 *)
EXTENDS WindowCollectors, FiniteSetTheorems, TLAPS

-----------------------------------------------------------------------------
(* The MERGE *)

\* What the window query returns: for every id of the source one of its
\* freshest rows.
LEMMA PickFreshest ==
  ASSUME NEW table, NEW pick \in Picks(table)
  PROVE  /\ DOMAIN pick = KeysOf(table)
         /\ \A k \in KeysOf(table) :
              pick[k] \in table /\ pick[k].id = k /\ Freshest(table, pick[k])
<1> DEFINE fresh == {row \in table : Freshest(table, row)}
<1>1. PICK rows \in SUBSET fresh :
        /\ \A k \in KeysOf(table) : \E row \in rows : row.id = k
        /\ pick = [k \in KeysOf(table) |-> CHOOSE row \in rows : row.id = k]
  BY DEF Picks
<1>2. ASSUME NEW k \in KeysOf(table)
      PROVE  pick[k] \in table /\ pick[k].id = k /\ Freshest(table, pick[k])
  <2>1. pick[k] \in rows /\ pick[k].id = k
    BY <1>1
  <2> QED BY <2>1
<1> QED BY <1>1, <1>2

\* A MERGE of rows into a table of rows gives such a table, and leaves no row
\* older than it was.
LEMMA OverlayFresh ==
  ASSUME LoadAssumption, landing \subseteq Rows, NEW pick \in Picks(landing),
         staging \in [Keys -> Rows \cup {Absent}]
  PROVE  /\ Overlay(staging, pick) \in [Keys -> Rows \cup {Absent}]
         /\ AsFresh(staging, Overlay(staging, pick))
         /\ Covers(Overlay(staging, pick), landing)
<1> DEFINE new == Overlay(staging, pick)
<1>1. \A row \in Rows : row.id \in Keys /\ row.at \in Nat /\ row # Absent
  BY LoadAssumption DEF LoadAssumption
<1>2. /\ DOMAIN pick = KeysOf(landing)
      /\ \A k \in KeysOf(landing) :
           pick[k] \in landing /\ pick[k].id = k /\ Freshest(landing, pick[k])
  BY PickFreshest
<1>3. ASSUME NEW k \in Keys
      PROVE  /\ new[k] \in Rows \cup {Absent}
             /\ staging[k] # Absent => new[k] # Absent /\ new[k].at >= staging[k].at
             /\ k \in KeysOf(landing) => new[k] # Absent /\ new[k].at >= pick[k].at
  BY <1>1, <1>2 DEF Overlay
<1>4. new \in [Keys -> Rows \cup {Absent}]
  BY <1>3 DEF Overlay
<1>5. AsFresh(staging, new)
  BY <1>3 DEF AsFresh
<1>6. ASSUME NEW row \in landing
      PROVE  new[row.id] # Absent /\ new[row.id].at >= row.at
  <2>1. row.id \in KeysOf(landing) /\ row.id \in Keys
    BY <1>1 DEF KeysOf
  <2>2. pick[row.id] \in Rows /\ pick[row.id].at >= row.at
    BY <1>1, <1>2, <2>1 DEF Freshest
  <2>3. new[row.id] # Absent /\ new[row.id].at >= pick[row.id].at /\ new[row.id] \in Rows
    BY <1>3, <2>1
  <2> QED BY <1>1, <2>2, <2>3
<1> QED BY <1>4, <1>5, <1>6 DEF Covers

\* A table that covers a source still does when none of its rows gets older.
LEMMA CoversMonotone ==
  ASSUME LoadAssumption, NEW table \in SUBSET Rows,
         NEW old \in [Keys -> Rows \cup {Absent}], NEW young \in [Keys -> Rows \cup {Absent}],
         Covers(old, table), AsFresh(old, young)
  PROVE  Covers(young, table)
<1> SUFFICES ASSUME NEW row \in table
             PROVE  young[row.id] # Absent /\ young[row.id].at >= row.at
  BY DEF Covers
<1>1. row.id \in Keys /\ row.at \in Nat
  BY LoadAssumption DEF LoadAssumption
<1>2. old[row.id] # Absent /\ old[row.id].at >= row.at
  BY DEF Covers
<1>3. young[row.id] # Absent /\ young[row.id].at >= old[row.id].at
  BY <1>1, <1>2 DEF AsFresh
<1>4. old[row.id] \in Rows /\ young[row.id] \in Rows
  BY <1>1, <1>2, <1>3
<1>5. old[row.id].at \in Nat /\ young[row.id].at \in Nat
  BY <1>4, LoadAssumption DEF LoadAssumption
<1> QED BY <1>1, <1>2, <1>3, <1>5

\* A MERGE of rows that the table covers changes nothing.
LEMMA OverlayCovered ==
  ASSUME LoadAssumption, landing \subseteq Rows, NEW pick \in Picks(landing),
         staging \in [Keys -> Rows \cup {Absent}], Covers(staging, landing)
  PROVE  Overlay(staging, pick) = staging
<1>1. ASSUME NEW k \in Keys, k \in DOMAIN pick
      PROVE  staging[k] # Absent /\ ~(pick[k].at > staging[k].at)
  <2>1. pick[k] \in landing /\ pick[k].id = k
    BY <1>1, PickFreshest
  <2>2. staging[k] # Absent /\ staging[k].at >= pick[k].at
    BY <2>1 DEF Covers
  <2>3. pick[k].at \in Nat /\ staging[k].at \in Nat
    BY <2>1, <2>2, LoadAssumption DEF LoadAssumption
  <2> QED BY <2>2, <2>3
<1> QED BY <1>1 DEF Overlay

-----------------------------------------------------------------------------
(* The inductive invariant *)

\* Runs that overlap know it; the landing of a run that is alone is what that
\* run listed; and staging covers all that was ever merged.
LoadInv ==
  /\ TypeOK
  /\ \A l, k \in Loaders : l # k /\ ~Idle(l) /\ ~Idle(k) => ~alone[l]
  /\ \A l \in Loaders : at[l] = "merging" /\ alone[l] => listed[l] = landing
  /\ LoadCovers
  /\ Covers(staging, merged)

\* It holds at the beginning, and every operation keeps it; a MERGE makes no row older.
LEMMA InitLoadInv == ASSUME LoadAssumption, Init PROVE LoadInv
BY LoadAssumption DEF LoadAssumption, Init, LoadInv, TypeOK, LoadCovers, Covers, Idle

LEMMA CollectInv == ASSUME LoadAssumption, LoadInv, Collect PROVE LoadInv'
BY DEF Collect, LoadInv, TypeOK, LoadCovers, Covers, Idle

LEMMA StartLoadInv ==
  ASSUME LoadAssumption, LoadInv, NEW l \in Loaders, StartLoad(l) PROVE LoadInv'
<1>1. TypeOK'
  <2>1. loads' \in 0 .. MaxLoads
    BY LoadAssumption DEF LoadAssumption, LoadInv, TypeOK, StartLoad
  <2> QED BY <2>1 DEF LoadInv, TypeOK, StartLoad
<1>2. ASSUME NEW j \in Loaders, NEW k \in Loaders, j # k, ~Idle(j)', ~Idle(k)'
      PROVE  ~alone'[j]
  <2>1. CASE j = l
    BY <1>2, <2>1 DEF LoadInv, TypeOK, StartLoad, Idle
  <2>2. CASE j # l
    BY <1>2, <2>2 DEF LoadInv, TypeOK, StartLoad, Idle
  <2> QED BY <2>1, <2>2
<1>3. ASSUME NEW j \in Loaders, at'[j] = "merging", alone'[j]
      PROVE  listed'[j] = landing'
  BY <1>3 DEF LoadInv, TypeOK, StartLoad, Idle
<1>4. ASSUME NEW j \in Loaders, at'[j] = "done", alone'[j]
      PROVE  Covers(staging', listed'[j])
  BY <1>4 DEF LoadInv, LoadCovers, TypeOK, StartLoad, Idle
<1>5. Covers(staging', merged')
  BY DEF LoadInv, StartLoad
<1> QED BY <1>1, <1>2, <1>3, <1>4, <1>5 DEF LoadInv, LoadCovers

LEMMA LoadLandingInv ==
  ASSUME LoadAssumption, LoadInv, NEW l \in Loaders, LoadLanding(l) PROVE LoadInv'
<1>1. TypeOK'
  BY DEF LoadInv, TypeOK, LoadLanding
<1>2. ASSUME NEW j \in Loaders, NEW k \in Loaders, j # k, ~Idle(j)', ~Idle(k)'
      PROVE  ~alone'[j]
  BY <1>2 DEF LoadInv, TypeOK, LoadLanding, Idle
<1>3. ASSUME NEW j \in Loaders, at'[j] = "merging", alone'[j]
      PROVE  listed'[j] = landing'
  BY <1>3 DEF LoadInv, TypeOK, LoadLanding, Idle
<1>4. ASSUME NEW j \in Loaders, at'[j] = "done", alone'[j]
      PROVE  Covers(staging', listed'[j])
  BY <1>4 DEF LoadInv, LoadCovers, TypeOK, LoadLanding
<1>5. Covers(staging', merged')
  BY DEF LoadInv, LoadLanding
<1> QED BY <1>1, <1>2, <1>3, <1>4, <1>5 DEF LoadInv, LoadCovers

LEMMA MergeStagingInv ==
  ASSUME LoadAssumption, LoadInv, NEW l \in Loaders, MergeStaging(l)
  PROVE  LoadInv' /\ AsFresh(staging, staging')
<1>1. /\ staging' \in [Keys -> Rows \cup {Absent}]
      /\ AsFresh(staging, staging')
      /\ Covers(staging', landing)
  BY OverlayFresh DEF LoadInv, TypeOK, MergeStaging
<1>2. TypeOK'
  BY <1>1 DEF LoadInv, TypeOK, MergeStaging
<1>3. ASSUME NEW j \in Loaders, NEW k \in Loaders, j # k, ~Idle(j)', ~Idle(k)'
      PROVE  ~alone'[j]
  BY <1>3 DEF LoadInv, TypeOK, MergeStaging, Idle
<1>4. ASSUME NEW j \in Loaders, at'[j] = "merging", alone'[j]
      PROVE  listed'[j] = landing'
  BY <1>4 DEF LoadInv, TypeOK, MergeStaging
<1>5. ASSUME NEW j \in Loaders, at'[j] = "done", alone'[j]
      PROVE  Covers(staging', listed'[j])
  <2>1. CASE j = l
    BY <1>1, <1>5, <2>1 DEF LoadInv, TypeOK, MergeStaging
  <2>2. CASE j # l
    <3>1. Covers(staging, listed[j]) /\ listed[j] \in SUBSET Rows
      BY <1>5, <2>2 DEF LoadInv, LoadCovers, TypeOK, MergeStaging
    <3>2. Covers(staging', listed[j])
      BY <1>1, <3>1, CoversMonotone DEF LoadInv, TypeOK
    <3> QED BY <3>2 DEF MergeStaging
  <2> QED BY <2>1, <2>2
<1>6. Covers(staging', merged')
  <2>1. Covers(staging', merged)
    BY <1>1, CoversMonotone DEF LoadInv, TypeOK
  <2> QED BY <1>1, <2>1 DEF Covers, MergeStaging
<1> QED BY <1>1, <1>2, <1>3, <1>4, <1>5, <1>6 DEF LoadInv, LoadCovers

LEMMA LoadFailsInv ==
  ASSUME LoadAssumption, LoadInv, NEW l \in Loaders, LoadFails(l) PROVE LoadInv'
BY DEF LoadInv, LoadCovers, TypeOK, LoadFails, Idle

\* So does every step.
LEMMA StepLoadInv ==
  ASSUME LoadAssumption, LoadInv, [Next]_vars
  PROVE  LoadInv'
<1>1. CASE Collect
  BY <1>1, CollectInv
<1>2. ASSUME NEW l \in Loaders, LoadStep(l)
      PROVE  LoadInv'
  BY <1>2, StartLoadInv, LoadLandingInv, MergeStagingInv, LoadFailsInv DEF LoadStep
<1>3. CASE UNCHANGED vars
  BY <1>3 DEF vars, LoadInv, TypeOK, LoadCovers, Covers, Idle
<1> QED BY <1>1, <1>2, <1>3 DEF Next

-----------------------------------------------------------------------------
(* Theorems *)

\* The invariant holds of every archive that only grows.
THEOREM LoadInvariant == LoadSpec => []LoadInv
<1>1. Init => LoadInv
  BY InitLoadInv, LoadAssumption
<1>2. LoadInv /\ [Next]_vars => LoadInv'
  BY StepLoadInv, LoadAssumption
<1> QED BY <1>1, <1>2, PTL DEF LoadSpec

\* Every state of the load step is well typed.
THEOREM LoadTypeCorrect == LoadSpec => []TypeOK
<1>1. LoadInv => TypeOK
  BY DEF LoadInv
<1> QED BY <1>1, LoadInvariant, PTL

\* A run that no other overlapped covers the archive it listed.
THEOREM LoadsCover == LoadSpec => []LoadCovers
<1>1. LoadInv => LoadCovers
  BY DEF LoadInv
<1> QED BY <1>1, LoadInvariant, PTL

\* Staging never goes back to an older copy of a record (load.py:70).
THEOREM StagingMonotone == LoadSpec => StagingNeverRegresses
<1>1. LoadInv /\ [Next]_vars => [AsFresh(staging, staging')]_vars
  <2> SUFFICES ASSUME LoadInv, Next PROVE AsFresh(staging, staging')
    OBVIOUS
  <2>1. \A k \in Keys : staging[k] # Absent => staging[k].at \in Nat
    BY LoadAssumption DEF LoadAssumption, LoadInv, TypeOK
  <2>2. staging' = staging => AsFresh(staging, staging')
    BY <2>1 DEF AsFresh
  <2>3. CASE Collect
    BY <2>2, <2>3 DEF Collect
  <2>4. ASSUME NEW l \in Loaders, LoadStep(l)
        PROVE  AsFresh(staging, staging')
    BY <2>2, <2>4, MergeStagingInv, LoadAssumption DEF LoadStep, StartLoad, LoadLanding, LoadFails
  <2> QED BY <2>3, <2>4 DEF Next
<1> QED BY <1>1, LoadInvariant, PTL DEF LoadSpec, StagingNeverRegresses

\* A MERGE of rows that were all merged before changes nothing (load.py:10).
THEOREM RerunChangesNothing == LoadSpec => RerunIsNoOp
<1>1. LoadInv /\ [Next]_vars
        => [landing \subseteq merged /\ merged' = merged => staging' = staging]_vars
  <2> SUFFICES ASSUME LoadInv, Next, landing \subseteq merged PROVE staging' = staging
    OBVIOUS
  <2>1. Covers(staging, landing)
    BY DEF LoadInv, Covers
  <2>2. ASSUME NEW l \in Loaders, MergeStaging(l)
        PROVE  staging' = staging
    BY <2>1, <2>2, OverlayCovered, LoadAssumption DEF MergeStaging, LoadInv, TypeOK
  <2> QED BY <2>2 DEF Next, Collect, LoadStep, StartLoad, LoadLanding, LoadFails
<1> QED BY <1>1, LoadInvariant, PTL DEF LoadSpec, RerunIsNoOp

-----------------------------------------------------------------------------
(* What a pass has still to keep *)

Sources == {"youtube", "reddit"}
Slices == [from : Nat, to : Nat]
Recs == [id : Keys, check : BOOLEAN]

\* What the loops of a collector run over.
TargetType(s) == IF s = "youtube" THEN ToSet(Videos) ELSE DOMAIN Posts
RequestType(s) ==
  IF s = "youtube" THEN Seq(Seq(Keys))
  ELSE [subreddit : DOMAIN Posts, slice : Slices]

\* The records that a pass keeps of an item, of an answer, of what requests are
\* answered with, of videos or subreddits.
ItemKeys(s, it) == {it[i].id : i \in {j \in DOMAIN it : Admits(s, it[j].id)}}
FeedKeys(s, f) == UNION {ItemKeys(s, it) : it \in ToSet(f)}
RequestKeys(s, qs) == UNION {FeedKeys(s, Answer(s, q)) : q \in ToSet(qs)}
TargetKeys(s, ts) == UNION {RequestKeys(s, Requests(s, t)) : t \in ToSet(ts)}

\* No record comes twice, at each of the four levels.
OnceItem(it) == \A i, j \in DOMAIN it : it[i].id = it[j].id => i = j
OnceFeed(s, f) ==
  /\ \A it \in ToSet(f) : OnceItem(it)
  /\ \A i, j \in DOMAIN f : i # j => ItemKeys(s, f[i]) \cap ItemKeys(s, f[j]) = {}
OnceRequests(s, qs) ==
  /\ \A q \in ToSet(qs) : OnceFeed(s, Answer(s, q))
  /\ \A i, j \in DOMAIN qs : i # j =>
       FeedKeys(s, Answer(s, qs[i])) \cap FeedKeys(s, Answer(s, qs[j])) = {}
OnceTargets(s, ts) ==
  /\ \A t \in ToSet(ts) : OnceRequests(s, Requests(s, t))
  /\ \A i, j \in DOMAIN ts : i # j =>
       RequestKeys(s, Requests(s, ts[i])) \cap RequestKeys(s, Requests(s, ts[j])) = {}

\* A sequence is its head and its tail.
LEMMA HeadAndTail ==
  ASSUME NEW S, NEW q \in Seq(S), q # <<>>
  PROVE  /\ 1 \in DOMAIN q /\ Head(q) = q[1] /\ Head(q) \in S /\ Head(q) \in ToSet(q)
         /\ Tail(q) \in Seq(S)
         /\ \A i \in DOMAIN Tail(q) :
              i \in Nat /\ i + 1 \in DOMAIN q /\ i + 1 # 1 /\ Tail(q)[i] = q[i + 1]
         /\ \A i \in DOMAIN q : i # 1 => i - 1 \in DOMAIN Tail(q) /\ Tail(q)[i - 1] = q[i]
         /\ ToSet(q) = {Head(q)} \cup ToSet(Tail(q))
<1>1. /\ Len(q) \in Nat \ {0} /\ DOMAIN q = 1 .. Len(q)
      /\ Head(q) = q[1] /\ Tail(q) \in Seq(S) /\ Len(Tail(q)) = Len(q) - 1
      /\ DOMAIN Tail(q) = 1 .. Len(q) - 1
      /\ \A i \in 1 .. Len(q) - 1 : Tail(q)[i] = q[i + 1]
  OBVIOUS
<1>2. \A i \in 1 .. Len(q) : q[i] \in S
  BY <1>1
<1>3. \A i \in 1 .. Len(q) : i # 1 => i - 1 \in 1 .. Len(q) - 1 /\ (i - 1) + 1 = i
  BY <1>1
<1>4. \A i \in DOMAIN q : i # 1 => i - 1 \in DOMAIN Tail(q) /\ Tail(q)[i - 1] = q[i]
  BY <1>1, <1>3
<1>5. \A i \in DOMAIN Tail(q) :
        i \in Nat /\ i + 1 \in DOMAIN q /\ i + 1 # 1 /\ Tail(q)[i] = q[i + 1]
  BY <1>1
<1>6. 1 \in DOMAIN q
  BY <1>1
<1>7. ToSet(q) = {Head(q)} \cup ToSet(Tail(q))
  <2>1. ASSUME NEW x \in ToSet(q) PROVE x \in {Head(q)} \cup ToSet(Tail(q))
    <3>1. PICK i \in DOMAIN q : x = q[i]
      BY DEF ToSet
    <3> QED BY <1>1, <1>4, <3>1 DEF ToSet
  <2>2. ASSUME NEW x \in ToSet(Tail(q)) PROVE x \in ToSet(q)
    <3>1. PICK i \in DOMAIN Tail(q) : x = Tail(q)[i]
      BY DEF ToSet
    <3> QED BY <1>5, <3>1 DEF ToSet
  <2> QED BY <1>1, <1>6, <2>1, <2>2 DEF ToSet
<1> QED BY <1>1, <1>2, <1>4, <1>5, <1>6, <1>7

\* An empty sequence has nothing left.
LEMMA NothingLeft ==
  ASSUME NEW s
  PROVE  /\ ToSet(<<>>) = {} /\ ItemKeys(s, <<>>) = {} /\ FeedKeys(s, <<>>) = {}
         /\ RequestKeys(s, <<>>) = {} /\ TargetKeys(s, <<>>) = {}
         /\ OnceItem(<<>>) /\ OnceFeed(s, <<>>) /\ OnceRequests(s, <<>>) /\ OnceTargets(s, <<>>)
         /\ IsInjective(<<>>)
<1>1. DOMAIN <<>> = {}
  OBVIOUS
<1>2. ToSet(<<>>) = {}
  BY <1>1 DEF ToSet
<1> QED BY <1>1, <1>2 DEF ItemKeys, FeedKeys, RequestKeys, TargetKeys, OnceItem, OnceFeed,
          OnceRequests, OnceTargets, IsInjective

\* What the next record, item, request and target leave for later.
LEMMA ItemTail ==
  ASSUME NEW s, NEW it \in Seq(Recs), it # <<>>
  PROVE  /\ Head(it) \in Recs /\ Tail(it) \in Seq(Recs)
         /\ ItemKeys(s, it) = (IF Admits(s, Head(it).id) THEN {Head(it).id} ELSE {})
                                \cup ItemKeys(s, Tail(it))
         /\ OnceItem(it) => OnceItem(Tail(it)) /\ Head(it).id \notin ItemKeys(s, Tail(it))
<1> DEFINE rest == Tail(it)
           first == IF Admits(s, Head(it).id) THEN {Head(it).id} ELSE {}
<1>1. /\ 1 \in DOMAIN it /\ Head(it) = it[1] /\ Head(it) \in Recs /\ rest \in Seq(Recs)
      /\ \A i \in DOMAIN rest : i \in Nat /\ i + 1 \in DOMAIN it /\ i + 1 # 1 /\ rest[i] = it[i + 1]
      /\ \A i \in DOMAIN it : i # 1 => i - 1 \in DOMAIN rest /\ rest[i - 1] = it[i]
  BY HeadAndTail
<1> HIDE DEF rest
<1>2. ASSUME NEW k \in ItemKeys(s, it) PROVE k \in first \cup ItemKeys(s, rest)
  <2>1. PICK i \in DOMAIN it : k = it[i].id /\ Admits(s, it[i].id)
    BY DEF ItemKeys
  <2>2. CASE i = 1
    BY <1>1, <2>1, <2>2
  <2>3. CASE i # 1
    BY <1>1, <2>1, <2>3 DEF ItemKeys
  <2> QED BY <2>2, <2>3
<1>3. ASSUME NEW k \in ItemKeys(s, rest)
      PROVE  \E i \in DOMAIN rest : /\ i \in Nat /\ i + 1 \in DOMAIN it /\ i + 1 # 1
                                    /\ k = it[i + 1].id /\ Admits(s, it[i + 1].id)
  <2>1. PICK i \in DOMAIN rest : k = rest[i].id /\ Admits(s, rest[i].id)
    BY DEF ItemKeys
  <2> QED BY <1>1, <2>1
<1>4. first \cup ItemKeys(s, rest) \subseteq ItemKeys(s, it)
  BY <1>1, <1>3 DEF ItemKeys
<1>5. ASSUME OnceItem(it) PROVE OnceItem(rest) /\ Head(it).id \notin ItemKeys(s, rest)
  <2>1. ASSUME NEW i \in DOMAIN rest, NEW j \in DOMAIN rest, rest[i].id = rest[j].id
        PROVE  i = j
    <3>1. /\ i \in Nat /\ j \in Nat /\ i + 1 \in DOMAIN it /\ j + 1 \in DOMAIN it
          /\ it[i + 1].id = it[j + 1].id
      BY <1>1, <2>1
    <3>2. i + 1 = j + 1
      BY <1>5, <3>1 DEF OnceItem
    <3> QED BY <3>1, <3>2
  <2>2. ASSUME Head(it).id \in ItemKeys(s, rest) PROVE FALSE
    <3>1. PICK i \in DOMAIN rest : i + 1 \in DOMAIN it /\ i + 1 # 1 /\ it[1].id = it[i + 1].id
      BY <1>1, <1>3, <2>2
    <3> QED BY <1>1, <1>5, <3>1 DEF OnceItem
  <2> QED BY <2>1, <2>2 DEF OnceItem
<1> QED BY <1>1, <1>2, <1>4, <1>5 DEF rest

\* The same of the items of an answer,
LEMMA FeedTail ==
  ASSUME NEW s, NEW f \in Seq(Seq(Recs)), f # <<>>
  PROVE  /\ Head(f) \in Seq(Recs) /\ Tail(f) \in Seq(Seq(Recs))
         /\ FeedKeys(s, f) = ItemKeys(s, Head(f)) \cup FeedKeys(s, Tail(f))
         /\ OnceFeed(s, f) => /\ OnceItem(Head(f)) /\ OnceFeed(s, Tail(f))
                              /\ ItemKeys(s, Head(f)) \cap FeedKeys(s, Tail(f)) = {}
<1> DEFINE rest == Tail(f)
<1>1. /\ 1 \in DOMAIN f /\ Head(f) = f[1] /\ Head(f) \in Seq(Recs) /\ rest \in Seq(Seq(Recs))
      /\ \A i \in DOMAIN rest : i \in Nat /\ i + 1 \in DOMAIN f /\ i + 1 # 1 /\ rest[i] = f[i + 1]
      /\ ToSet(f) = {Head(f)} \cup ToSet(rest)
  BY HeadAndTail
<1> HIDE DEF rest
<1>2. FeedKeys(s, f) = ItemKeys(s, Head(f)) \cup FeedKeys(s, rest)
  BY <1>1 DEF FeedKeys
<1>3. ASSUME OnceFeed(s, f)
      PROVE  /\ OnceItem(Head(f)) /\ OnceFeed(s, rest)
             /\ ItemKeys(s, Head(f)) \cap FeedKeys(s, rest) = {}
  <2>1. ASSUME NEW i \in DOMAIN rest, NEW j \in DOMAIN rest, i # j
        PROVE  ItemKeys(s, rest[i]) \cap ItemKeys(s, rest[j]) = {}
    <3>1. i + 1 \in DOMAIN f /\ j + 1 \in DOMAIN f /\ i + 1 # j + 1
      BY <1>1, <2>1
    <3> QED BY <1>1, <1>3, <3>1 DEF OnceFeed
  <2>2. ASSUME NEW it \in ToSet(rest) PROVE ItemKeys(s, Head(f)) \cap ItemKeys(s, it) = {}
    <3>1. PICK i \in DOMAIN rest : it = rest[i]
      BY DEF ToSet
    <3> QED BY <1>1, <1>3, <3>1 DEF OnceFeed
  <2>3. OnceItem(Head(f)) /\ \A it \in ToSet(rest) : OnceItem(it)
    BY <1>1, <1>3 DEF OnceFeed
  <2> QED BY <2>1, <2>2, <2>3 DEF OnceFeed, FeedKeys
<1> QED BY <1>1, <1>2, <1>3 DEF rest

\* of requests,
LEMMA RequestTail ==
  ASSUME NEW s, NEW T, NEW qs \in Seq(T), qs # <<>>
  PROVE  /\ Head(qs) \in T /\ Tail(qs) \in Seq(T)
         /\ RequestKeys(s, qs) = FeedKeys(s, Answer(s, Head(qs))) \cup RequestKeys(s, Tail(qs))
         /\ OnceRequests(s, qs) =>
              /\ OnceFeed(s, Answer(s, Head(qs))) /\ OnceRequests(s, Tail(qs))
              /\ FeedKeys(s, Answer(s, Head(qs))) \cap RequestKeys(s, Tail(qs)) = {}
<1> DEFINE rest == Tail(qs)
<1>1. /\ 1 \in DOMAIN qs /\ Head(qs) = qs[1] /\ Head(qs) \in T /\ rest \in Seq(T)
      /\ \A i \in DOMAIN rest : i \in Nat /\ i + 1 \in DOMAIN qs /\ i + 1 # 1 /\ rest[i] = qs[i + 1]
      /\ ToSet(qs) = {Head(qs)} \cup ToSet(rest)
  BY HeadAndTail
<1> HIDE DEF rest
<1>2. RequestKeys(s, qs) = FeedKeys(s, Answer(s, Head(qs))) \cup RequestKeys(s, rest)
  BY <1>1 DEF RequestKeys
<1>3. ASSUME OnceRequests(s, qs)
      PROVE  /\ OnceFeed(s, Answer(s, Head(qs))) /\ OnceRequests(s, rest)
             /\ FeedKeys(s, Answer(s, Head(qs))) \cap RequestKeys(s, rest) = {}
  <2>1. ASSUME NEW i \in DOMAIN rest, NEW j \in DOMAIN rest, i # j
        PROVE  FeedKeys(s, Answer(s, rest[i])) \cap FeedKeys(s, Answer(s, rest[j])) = {}
    <3>1. i + 1 \in DOMAIN qs /\ j + 1 \in DOMAIN qs /\ i + 1 # j + 1
      BY <1>1, <2>1
    <3> QED BY <1>1, <1>3, <3>1 DEF OnceRequests
  <2>2. ASSUME NEW q \in ToSet(rest)
        PROVE  FeedKeys(s, Answer(s, Head(qs))) \cap FeedKeys(s, Answer(s, q)) = {}
    <3>1. PICK i \in DOMAIN rest : q = rest[i]
      BY DEF ToSet
    <3> QED BY <1>1, <1>3, <3>1 DEF OnceRequests
  <2>3. OnceFeed(s, Answer(s, Head(qs))) /\ \A q \in ToSet(rest) : OnceFeed(s, Answer(s, q))
    BY <1>1, <1>3 DEF OnceRequests
  <2> QED BY <2>1, <2>2, <2>3 DEF OnceRequests, RequestKeys
<1> QED BY <1>1, <1>2, <1>3 DEF rest

\* and of videos or subreddits.
LEMMA TargetTail ==
  ASSUME NEW s, NEW T, NEW ts \in Seq(T), ts # <<>>
  PROVE  /\ Head(ts) \in T /\ Tail(ts) \in Seq(T)
         /\ TargetKeys(s, ts) = RequestKeys(s, Requests(s, Head(ts))) \cup TargetKeys(s, Tail(ts))
         /\ OnceTargets(s, ts) =>
              /\ OnceRequests(s, Requests(s, Head(ts))) /\ OnceTargets(s, Tail(ts))
              /\ RequestKeys(s, Requests(s, Head(ts))) \cap TargetKeys(s, Tail(ts)) = {}
<1> DEFINE rest == Tail(ts)
<1>1. /\ 1 \in DOMAIN ts /\ Head(ts) = ts[1] /\ Head(ts) \in T /\ rest \in Seq(T)
      /\ \A i \in DOMAIN rest : i \in Nat /\ i + 1 \in DOMAIN ts /\ i + 1 # 1 /\ rest[i] = ts[i + 1]
      /\ ToSet(ts) = {Head(ts)} \cup ToSet(rest)
  BY HeadAndTail
<1> HIDE DEF rest
<1>2. TargetKeys(s, ts) = RequestKeys(s, Requests(s, Head(ts))) \cup TargetKeys(s, rest)
  BY <1>1 DEF TargetKeys
<1>3. ASSUME OnceTargets(s, ts)
      PROVE  /\ OnceRequests(s, Requests(s, Head(ts))) /\ OnceTargets(s, rest)
             /\ RequestKeys(s, Requests(s, Head(ts))) \cap TargetKeys(s, rest) = {}
  <2>1. ASSUME NEW i \in DOMAIN rest, NEW j \in DOMAIN rest, i # j
        PROVE  RequestKeys(s, Requests(s, rest[i])) \cap RequestKeys(s, Requests(s, rest[j])) = {}
    <3>1. i + 1 \in DOMAIN ts /\ j + 1 \in DOMAIN ts /\ i + 1 # j + 1
      BY <1>1, <2>1
    <3> QED BY <1>1, <1>3, <3>1 DEF OnceTargets
  <2>2. ASSUME NEW t \in ToSet(rest)
        PROVE  RequestKeys(s, Requests(s, Head(ts))) \cap RequestKeys(s, Requests(s, t)) = {}
    <3>1. PICK i \in DOMAIN rest : t = rest[i]
      BY DEF ToSet
    <3> QED BY <1>1, <1>3, <3>1 DEF OnceTargets
  <2>3. /\ OnceRequests(s, Requests(s, Head(ts)))
        /\ \A t \in ToSet(rest) : OnceRequests(s, Requests(s, t))
    BY <1>1, <1>3 DEF OnceTargets
  <2> QED BY <2>1, <2>2, <2>3 DEF OnceTargets, TargetKeys
<1> QED BY <1>1, <1>2, <1>3 DEF rest

\* A function on an initial segment is a sequence.
LEMMA Segment ==
  ASSUME NEW S, NEW n \in Nat, NEW f, DOMAIN f = 1 .. n, f = [i \in DOMAIN f |-> f[i]],
         \A i \in 1 .. n : f[i] \in S
  PROVE  f \in Seq(S) /\ Len(f) = n
<1>1. f \in [1 .. n -> S]
  OBVIOUS
<1> QED BY <1>1

\* The elements of a sequence.
LEMMA Elements ==
  ASSUME NEW S, NEW q \in Seq(S)
  PROVE  /\ Len(q) \in Nat /\ DOMAIN q = 1 .. Len(q)
         /\ \A i \in DOMAIN q : q[i] \in S
         /\ ToSet(q) \subseteq S
<1>1. Len(q) \in Nat /\ DOMAIN q = 1 .. Len(q) /\ \A i \in DOMAIN q : q[i] \in S
  OBVIOUS
<1> QED BY <1>1 DEF ToSet

\* Multiples of a length are in order.
LEMMA Multiples ==
  ASSUME NEW len \in Nat \ {0}
  PROVE  /\ \A i \in Nat \ {0} : (i - 1) * len \in Nat /\ i * len \in Nat
         /\ \A i, j \in Nat \ {0} : i < j => i * len <= (j - 1) * len
<1>1. ASSUME NEW i \in Nat \ {0} PROVE (i - 1) * len \in Nat /\ i * len \in Nat
  <2>1. i - 1 \in Nat /\ i \in Nat
    OBVIOUS
  <2> QED BY <2>1
<1>2. ASSUME NEW i \in Nat \ {0}, NEW d \in Nat PROVE i * len <= (i + d) * len
  <2>1. (i + d) * len = i * len + d * len
    OBVIOUS
  <2>2. d * len \in Nat /\ i * len \in Nat
    OBVIOUS
  <2> QED BY <2>1, <2>2
<1>3. ASSUME NEW i \in Nat \ {0}, NEW j \in Nat \ {0}, i < j PROVE i * len <= (j - 1) * len
  <2>1. (j - 1) - i \in Nat /\ i + ((j - 1) - i) = j - 1
    BY <1>3
  <2> QED BY <1>2, <2>1
<1> QED BY <1>1, <1>3

\* The slices of the window: a time is in a slice if it is in the window, and it
\* is in one slice only.
LEMMA SliceBounds ==
  ASSUME CollectorAssumption
  PROVE  /\ \E n \in Nat : DOMAIN TimeSlices = 1 .. n
         /\ TimeSlices = [i \in DOMAIN TimeSlices |-> TimeSlices[i]]
         /\ \A i \in DOMAIN TimeSlices :
              /\ TimeSlices[i] \in Slices
              /\ i \in Nat \ {0}
              /\ (i - 1) * SliceLength \in Nat /\ i * SliceLength \in Nat
              /\ TimeSlices[i].from = WindowFrom + ((i - 1) * SliceLength)
              /\ TimeSlices[i].to = IF WindowFrom + (i * SliceLength) < WindowTo
                                    THEN WindowFrom + (i * SliceLength) ELSE WindowTo
<1> DEFINE n == (WindowTo - WindowFrom + SliceLength - 1) \div SliceLength
           m == IF n < 0 THEN 0 ELSE n
<1>1. WindowFrom \in Nat /\ WindowTo \in Nat /\ SliceLength \in Nat \ {0}
  BY DEF CollectorAssumption
<1>2. n \in Int
  BY <1>1
<1>3. DOMAIN TimeSlices = 1 .. n /\ TimeSlices = [i \in DOMAIN TimeSlices |-> TimeSlices[i]]
  BY DEF TimeSlices
<1>4. ASSUME NEW i \in 1 .. n
      PROVE  TimeSlices[i] = [from |-> WindowFrom + ((i - 1) * SliceLength),
                              to |-> IF WindowFrom + (i * SliceLength) < WindowTo
                                     THEN WindowFrom + (i * SliceLength) ELSE WindowTo]
  BY DEF TimeSlices
<1> HIDE DEF n
<1>5. m \in Nat /\ 1 .. n = 1 .. m
  BY <1>2
<1> HIDE DEF m
<1> DEFINE begin(i) == (i - 1) * SliceLength
           end(i) == i * SliceLength
<1>6. ASSUME NEW i \in 1 .. n
      PROVE  /\ i \in Nat \ {0} /\ begin(i) \in Nat /\ end(i) \in Nat
             /\ TimeSlices[i] = [from |-> WindowFrom + begin(i),
                                 to |-> IF WindowFrom + end(i) < WindowTo
                                        THEN WindowFrom + end(i) ELSE WindowTo]
  <2>1. i \in Nat \ {0}
    BY <1>2
  <2> QED BY <1>1, <1>4, <2>1, Multiples
<1> HIDE DEF begin, end
<1>7. ASSUME NEW i \in 1 .. n
      PROVE  TimeSlices[i] \in Slices
  <2> DEFINE b == begin(i)
             e == end(i)
  <2>1. /\ b \in Nat /\ e \in Nat
        /\ TimeSlices[i] = [from |-> WindowFrom + b,
                            to |-> IF WindowFrom + e < WindowTo THEN WindowFrom + e ELSE WindowTo]
    BY <1>6
  <2> HIDE DEF b, e
  <2>2. WindowFrom + b \in Nat /\ WindowFrom + e \in Nat
    BY <1>1, <2>1
  <2> QED BY <1>1, <2>1, <2>2 DEF Slices
<1>8. ASSUME NEW i \in DOMAIN TimeSlices
      PROVE  /\ TimeSlices[i] \in Slices
             /\ i \in Nat \ {0} /\ begin(i) \in Nat /\ end(i) \in Nat
             /\ TimeSlices[i].from = WindowFrom + begin(i)
             /\ TimeSlices[i].to = IF WindowFrom + end(i) < WindowTo
                                   THEN WindowFrom + end(i) ELSE WindowTo
  <2>1. i \in 1 .. n
    BY <1>3
  <2>2. TimeSlices[i] \in Slices
    BY <1>7, <2>1
  <2> DEFINE b == begin(i)
             e == end(i)
             slice == TimeSlices[i]
  <2>3. /\ i \in Nat \ {0} /\ b \in Nat /\ e \in Nat
        /\ slice = [from |-> WindowFrom + b,
                    to |-> IF WindowFrom + e < WindowTo THEN WindowFrom + e ELSE WindowTo]
    BY <1>6, <2>1
  <2> HIDE DEF b, e, slice
  <2>4. /\ slice.from = WindowFrom + b
        /\ slice.to = IF WindowFrom + e < WindowTo THEN WindowFrom + e ELSE WindowTo
    BY <2>3
  <2> QED BY <2>2, <2>3, <2>4 DEF b, e, slice
<1>9. \E size \in Nat : DOMAIN TimeSlices = 1 .. size
  BY <1>3, <1>5
<1> QED BY <1>3, <1>8, <1>9 DEF begin, end

\* The slices are intervals of the window.
LEMMA SlicesTyped ==
  ASSUME CollectorAssumption
  PROVE  TimeSlices \in Seq(Slices)
<1>1. PICK n \in Nat : DOMAIN TimeSlices = 1 .. n
  BY SliceBounds
<1>2. TimeSlices = [i \in DOMAIN TimeSlices |-> TimeSlices[i]]
  BY SliceBounds
<1>3. \A i \in DOMAIN TimeSlices : TimeSlices[i] \in Slices
  BY SliceBounds
<1> QED BY <1>1, <1>2, <1>3, Segment

\* A time in a window is in the slice that its distance from the start gives.
LEMMA SliceIndex ==
  ASSUME NEW a \in Nat, NEW b \in Nat, NEW t \in Nat, NEW len \in Nat \ {0}, a <= t, t < b
  PROVE  LET i == (t - a) \div len + 1
         IN /\ i \in 1 .. (b - a + len - 1) \div len
            /\ a + (i - 1) * len <= t /\ t < a + i * len
<1> DEFINE q == (t - a) \div len
           r == (t - a) % len
           n == (b - a + len - 1) \div len
           u == (b - a + len - 1) % len
<1>1. q \in Nat /\ r \in 0 .. len - 1 /\ t - a = len * q + r
  OBVIOUS
<1>2. n \in Nat /\ u \in 0 .. len - 1 /\ (b - a) + len - 1 = len * n + u
  OBVIOUS
<1> HIDE DEF q, r, n, u
<1>3. len * q \in Nat /\ len * n \in Nat /\ (q + 1) * len = len * q + len
  BY <1>1, <1>2
<1>4. q < n
  <2> SUFFICES ASSUME n <= q PROVE FALSE
    BY <1>1, <1>2
  <2>1. len * n <= len * q
    BY <1>1, <1>2
  <2> QED BY <1>1, <1>2, <1>3, <2>1
<1>5. (q + 1) - 1 = q /\ q * len = len * q
  BY <1>1
<1>6. q + 1 \in 1 .. n
  BY <1>1, <1>2, <1>4
<1>7. a + q * len <= t /\ t < a + (q + 1) * len
  BY <1>1, <1>3, <1>5
<1> QED BY <1>5, <1>6, <1>7 DEF q, n

\* The slices cover the window, and no time is in two of them.
LEMMA SlicesCover ==
  ASSUME CollectorAssumption, NEW k \in Keys
  PROVE  /\ InWindow(k, WindowFrom, WindowTo)
              <=> \E i \in DOMAIN TimeSlices : InWindow(k, TimeSlices[i].from, TimeSlices[i].to)
         /\ \A i, j \in DOMAIN TimeSlices :
              /\ InWindow(k, TimeSlices[i].from, TimeSlices[i].to)
              /\ InWindow(k, TimeSlices[j].from, TimeSlices[j].to)
              => i = j
<1>1. WindowFrom \in Nat /\ WindowTo \in Nat /\ SliceLength \in Nat \ {0} /\ Time[k] \in Nat
  BY DEF CollectorAssumption
<1> DEFINE begin(i) == (i - 1) * SliceLength
           end(i) == i * SliceLength
<1>2. ASSUME NEW i \in DOMAIN TimeSlices
      PROVE  /\ i \in Nat \ {0} /\ begin(i) \in Nat /\ end(i) \in Nat
             /\ TimeSlices[i].from = WindowFrom + begin(i)
             /\ TimeSlices[i].to = IF WindowFrom + end(i) < WindowTo
                                   THEN WindowFrom + end(i) ELSE WindowTo
  BY SliceBounds
<1>3. ASSUME NEW i \in Nat \ {0}, NEW j \in Nat \ {0}, i < j
      PROVE  end(i) <= begin(j)
  BY <1>1, <1>3, Multiples
<1>4. ASSUME InWindow(k, WindowFrom, WindowTo)
      PROVE  \E i \in DOMAIN TimeSlices :
               WindowFrom + begin(i) <= Time[k] /\ Time[k] < WindowFrom + end(i)
  <2> DEFINE i == (Time[k] - WindowFrom) \div SliceLength + 1
  <2>1. /\ i \in 1 .. (WindowTo - WindowFrom + SliceLength - 1) \div SliceLength
        /\ WindowFrom + begin(i) <= Time[k]
        /\ Time[k] < WindowFrom + end(i)
    BY <1>1, <1>4, SliceIndex DEF InWindow
  <2> HIDE DEF i
  <2>2. i \in DOMAIN TimeSlices
    BY <2>1 DEF TimeSlices
  <2> QED BY <2>1, <2>2
<1> HIDE DEF begin, end
<1>5. ASSUME NEW i \in DOMAIN TimeSlices, InWindow(k, TimeSlices[i].from, TimeSlices[i].to)
      PROVE  /\ InWindow(k, WindowFrom, WindowTo)
             /\ WindowFrom + begin(i) <= Time[k] /\ Time[k] < WindowFrom + end(i)
  <2>1. /\ begin(i) \in Nat /\ end(i) \in Nat
        /\ TimeSlices[i].from = WindowFrom + begin(i)
        /\ TimeSlices[i].to = IF WindowFrom + end(i) < WindowTo
                              THEN WindowFrom + end(i) ELSE WindowTo
    BY <1>2
  <2> DEFINE b == begin(i)
             e == end(i)
  <2>2. WindowFrom + b <= Time[k] /\ Time[k] < IF WindowFrom + e < WindowTo
                                               THEN WindowFrom + e ELSE WindowTo
    BY <1>5, <2>1 DEF InWindow
  <2> HIDE DEF b, e
  <2>3. b \in Nat /\ e \in Nat
    BY <2>1 DEF b, e
  <2>4. /\ WindowFrom <= Time[k] /\ Time[k] < WindowTo
        /\ WindowFrom + b <= Time[k] /\ Time[k] < WindowFrom + e
    BY <1>1, <2>2, <2>3
  <2> QED BY <2>4 DEF InWindow, b, e
<1>6. ASSUME InWindow(k, WindowFrom, WindowTo)
      PROVE  \E i \in DOMAIN TimeSlices : InWindow(k, TimeSlices[i].from, TimeSlices[i].to)
  <2>1. PICK i \in DOMAIN TimeSlices :
          WindowFrom + begin(i) <= Time[k] /\ Time[k] < WindowFrom + end(i)
    BY <1>4, <1>6
  <2>2. InWindow(k, TimeSlices[i].from, TimeSlices[i].to)
    BY <1>1, <1>2, <1>6, <2>1 DEF InWindow
  <2> QED BY <2>2
<1>7. ASSUME NEW i \in DOMAIN TimeSlices, NEW j \in DOMAIN TimeSlices, i < j,
             InWindow(k, TimeSlices[i].from, TimeSlices[i].to),
             InWindow(k, TimeSlices[j].from, TimeSlices[j].to)
      PROVE  FALSE
  <2>1. /\ i \in Nat \ {0} /\ j \in Nat \ {0} /\ end(i) \in Nat /\ begin(j) \in Nat
        /\ end(i) <= begin(j)
    BY <1>2, <1>3, <1>7
  <2>2. Time[k] < WindowFrom + end(i) /\ WindowFrom + begin(j) <= Time[k]
    BY <1>5, <1>7
  <2> QED BY <1>1, <2>1, <2>2
<1>8. ASSUME NEW i \in DOMAIN TimeSlices, NEW j \in DOMAIN TimeSlices,
             InWindow(k, TimeSlices[i].from, TimeSlices[i].to),
             InWindow(k, TimeSlices[j].from, TimeSlices[j].to)
      PROVE  i = j
  <2>1. i \in Nat /\ j \in Nat
    BY <1>2
  <2>2. i < j \/ j < i \/ i = j
    BY <2>1
  <2> QED BY <1>7, <1>8, <2>2
<1> QED BY <1>5, <1>6, <1>8

\* There are n numbers up to n.
LEMMA UpTo == ASSUME NEW n \in Nat PROVE IsFiniteSet(1 .. n) /\ Cardinality(1 .. n) = n
<1>1. 1 \in Int /\ n \in Int /\ n - 1 + 1 = n /\ (1 > n => n = 0)
  OBVIOUS
<1>2. /\ IsFiniteSet(1 .. n)
      /\ Cardinality(1 .. n) = IF 1 > n THEN 0 ELSE n - 1 + 1
  BY <1>1, FS_Interval
<1> QED BY <1>1, <1>2

\* A submission with its comments: each of them once.
LEMMA CommentsInOrder ==
  ASSUME CollectorAssumption, NEW post \in Keys
  PROVE  /\ CommentsOf[post] \subseteq Keys
         /\ SetToSeq(CommentsOf[post]) \in Seq(CommentsOf[post])
         /\ IsInjective(SetToSeq(CommentsOf[post]))
         /\ ToSet(SetToSeq(CommentsOf[post])) = CommentsOf[post]
<1> DEFINE S == CommentsOf[post]
           n == Cardinality(S)
           c == SetToSeq(S)
<1>1. S \subseteq Keys
  BY DEF CommentsOf
<1>2. IsFiniteSet(S)
  BY <1>1, FS_Subset DEF CollectorAssumption
<1>3. n \in Nat /\ ExistsBijection(1 .. n, S)
  BY <1>2, FS_CardinalityType
<1> HIDE DEF S, n
<1>4. \E f \in [1 .. n -> S] : IsInjective(f)
  BY <1>3 DEF ExistsBijection, Bijection, Injection
<1>5. c \in [1 .. n -> S] /\ IsInjective(c)
  BY <1>4 DEF SetToSeq, n
<1>6. IsFiniteSet(1 .. n) /\ Cardinality(1 .. n) = n
  BY <1>3, UpTo
<1>7. c \in Injection(1 .. n, S)
  BY <1>5 DEF Injection
<1> HIDE DEF c
<1>8. c \in Surjection(1 .. n, S)
  BY <1>2, <1>6, <1>7, FS_Injection DEF n
<1>9. ToSet(c) = S
  <2>1. \A x \in S : \E i \in 1 .. n : c[i] = x
    BY <1>8 DEF Surjection
  <2> QED BY <1>5, <2>1 DEF ToSet
<1>10. c \in Seq(S)
  BY <1>3, <1>5, Segment
<1> QED BY <1>1, <1>5, <1>9, <1>10 DEF c, S

\* A submission's item is the submission and its comments, each once.
LEMMA PostItemKeys ==
  ASSUME CollectorAssumption, NEW post \in Keys
  PROVE  /\ PostItem(post) \in Seq(Recs)
         /\ ItemKeys("reddit", PostItem(post)) = {post} \cup CommentsOf[post]
         /\ post \notin CommentsOf[post] => OnceItem(PostItem(post))
<1> DEFINE c == SetToSeq(CommentsOf[post])
           it == PostItem(post)
<1>1. /\ c \in Seq(CommentsOf[post]) /\ IsInjective(c) /\ ToSet(c) = CommentsOf[post]
      /\ CommentsOf[post] \subseteq Keys
  BY CommentsInOrder
<1>2. it = [i \in 1 .. Len(c) + 1 |->
              [id |-> IF i = 1 THEN post ELSE c[i - 1], check |-> i > 1 \/ c = <<>>]]
  BY DEF PostItem
<1> HIDE DEF c, it
<1>3. Len(c) \in Nat /\ DOMAIN c = 1 .. Len(c) /\ \A i \in 1 .. Len(c) : c[i] \in CommentsOf[post]
  BY <1>1
<1>4. DOMAIN it = 1 .. Len(c) + 1 /\ 1 \in DOMAIN it /\ it[1].id = post
  BY <1>2, <1>3
<1>5. ASSUME NEW i \in 1 .. Len(c) + 1
      PROVE  i # 1 => i - 1 \in DOMAIN c /\ it[i].id = c[i - 1]
  BY <1>2, <1>3
<1>6. ASSUME NEW i \in DOMAIN c
      PROVE  i \in Nat /\ i + 1 \in DOMAIN it /\ it[i + 1].id = c[i]
  <2>1. i \in Nat /\ i + 1 \in 1 .. Len(c) + 1 /\ i + 1 # 1 /\ (i + 1) - 1 = i
    BY <1>3
  <2> QED BY <1>2, <1>3, <2>1
<1>7. it \in Seq(Recs)
  <2>1. ASSUME NEW i \in 1 .. Len(c) + 1
        PROVE  [id |-> IF i = 1 THEN post ELSE c[i - 1], check |-> i > 1 \/ c = <<>>] \in Recs
    <3>1. (IF i = 1 THEN post ELSE c[i - 1]) \in Keys
      BY <1>1, <1>3, <1>5
    <3>2. (i > 1 \/ c = <<>>) \in BOOLEAN
      OBVIOUS
    <3> QED BY <3>1, <3>2 DEF Recs
  <2>2. Len(c) + 1 \in Nat
    BY <1>3
  <2> QED BY <1>2, <2>1, <2>2
<1>8. ItemKeys("reddit", it) = {it[i].id : i \in DOMAIN it}
  BY DEF ItemKeys, Admits
<1>9. {it[i].id : i \in DOMAIN it} = {post} \cup CommentsOf[post]
  <2> DEFINE ids == {it[i].id : i \in DOMAIN it}
  <2>1. ASSUME NEW k \in ids PROVE k \in {post} \cup CommentsOf[post]
    <3>1. PICK i \in DOMAIN it : k = it[i].id
      OBVIOUS
    <3> QED BY <1>3, <1>4, <1>5, <3>1
  <2>2. ASSUME NEW k \in CommentsOf[post] PROVE k \in ids
    <3>1. PICK i \in DOMAIN c : c[i] = k
      BY <1>1 DEF ToSet
    <3> QED BY <1>6, <3>1
  <2>3. post \in ids
    BY <1>4
  <2> HIDE DEF ids
  <2>4. ids = {post} \cup CommentsOf[post]
    BY <2>1, <2>2, <2>3
  <2> QED BY <2>4 DEF ids
<1>10. ASSUME post \notin CommentsOf[post] PROVE OnceItem(it)
  <2> SUFFICES ASSUME NEW i \in DOMAIN it, NEW j \in DOMAIN it, it[i].id = it[j].id
               PROVE  i = j
    BY DEF OnceItem
  <2>1. i \in Nat /\ j \in Nat
    BY <1>3, <1>4
  <2>2. CASE i = 1 \/ j = 1
    BY <1>3, <1>4, <1>5, <1>10, <2>2
  <2>3. CASE i # 1 /\ j # 1
    <3>1. i - 1 = j - 1
      BY <1>1, <1>4, <1>5, <2>3 DEF IsInjective
    <3> QED BY <2>1, <3>1
  <2> QED BY <2>2, <2>3
<1> QED BY <1>7, <1>8, <1>9, <1>10 DEF it

\* What the loops of a collector run over is what its requests and answers hold.
LEMMA LoopsTyped ==
  ASSUME CollectorAssumption, NEW s \in Sources
  PROVE  /\ Targets(s) \in Seq(TargetType(s))
         /\ \A t \in TargetType(s) : Requests(s, t) \in Seq(RequestType(s))
         /\ \A q \in RequestType(s) : Answer(s, q) \in Seq(Seq(Recs))
<1>1. CASE s = "youtube"
  <2>1. Targets(s) \in Seq(TargetType(s))
    BY <1>1 DEF Targets, TargetType, CollectorAssumption
  <2>2. ASSUME NEW t \in TargetType(s) PROVE Requests(s, t) \in Seq(RequestType(s))
    <3>1. Threads[t.id] \in Seq(Seq(Seq(Keys)))
      BY <1>1 DEF TargetType, CollectorAssumption
    <3> QED BY <1>1, <3>1 DEF Requests, RequestType
  <2>3. ASSUME NEW thread \in Seq(Keys) PROVE ThreadItem(thread) \in Seq(Recs)
    <3>1. Len(thread) \in Nat /\ DOMAIN thread = 1 .. Len(thread)
      OBVIOUS
    <3>2. ASSUME NEW i \in 1 .. Len(thread)
          PROVE  [id |-> thread[i], check |-> i = Len(thread)] \in Recs
      <4>1. (i = Len(thread)) \in BOOLEAN
        OBVIOUS
      <4> QED BY <3>1, <4>1 DEF Recs
    <3> QED BY <3>1, <3>2 DEF ThreadItem
  <2>4. ASSUME NEW q \in RequestType(s) PROVE Answer(s, q) \in Seq(Seq(Recs))
    <3>1. q \in Seq(Seq(Keys))
      BY <1>1 DEF RequestType
    <3>2. Len(q) \in Nat /\ DOMAIN q = 1 .. Len(q) /\ \A i \in 1 .. Len(q) : q[i] \in Seq(Keys)
      BY <3>1
    <3>3. /\ DOMAIN Answer(s, q) = 1 .. Len(q)
          /\ Answer(s, q) = [i \in DOMAIN Answer(s, q) |-> Answer(s, q)[i]]
          /\ \A i \in 1 .. Len(q) : Answer(s, q)[i] = ThreadItem(q[i])
      BY <1>1, <3>2 DEF Answer
    <3> HIDE DEF Answer
    <3>4. \A i \in 1 .. Len(q) : Answer(s, q)[i] \in Seq(Recs)
      BY <2>3, <3>2, <3>3
    <3> QED BY <3>2, <3>3, <3>4, Segment
  <2> QED BY <2>1, <2>2, <2>4
<1>2. CASE s = "reddit"
  <2>1. Targets(s) \in Seq(TargetType(s))
    BY <1>2 DEF Targets, TargetType, CollectorAssumption
  <2>2. ASSUME NEW t \in TargetType(s) PROVE Requests(s, t) \in Seq(RequestType(s))
    <3>1. t \in DOMAIN Posts
      BY <1>2 DEF TargetType
    <3>2. /\ Len(TimeSlices) \in Nat /\ DOMAIN TimeSlices = 1 .. Len(TimeSlices)
          /\ \A i \in DOMAIN TimeSlices : TimeSlices[i] \in Slices
      BY SlicesTyped, Elements
    <3>3. /\ DOMAIN Requests(s, t) = 1 .. Len(TimeSlices)
          /\ Requests(s, t) = [i \in DOMAIN Requests(s, t) |-> Requests(s, t)[i]]
          /\ \A i \in 1 .. Len(TimeSlices) :
               Requests(s, t)[i] = [subreddit |-> t, slice |-> TimeSlices[i]]
      BY <1>2, <3>2 DEF Requests
    <3>4. ASSUME NEW i \in 1 .. Len(TimeSlices) PROVE Requests(s, t)[i] \in RequestType(s)
      <4>1. TimeSlices[i] \in Slices
        BY <3>2
      <4>2. Requests(s, t)[i] = [subreddit |-> t, slice |-> TimeSlices[i]]
        BY <3>3
      <4> HIDE DEF Requests
      <4> QED BY <1>2, <3>1, <4>1, <4>2 DEF RequestType
    <3> QED BY <3>2, <3>3, <3>4, Segment
  <2>3. ASSUME NEW q \in RequestType(s) PROVE Answer(s, q) \in Seq(Seq(Recs))
    <3> DEFINE posts == Posts[q.subreddit]
               n == IF Len(posts) < Ceiling THEN Len(posts) ELSE Ceiling
               a == Answer(s, q)
    <3>1. posts \in Seq(Keys) /\ Ceiling \in Nat
      BY <1>2 DEF RequestType, CollectorAssumption
    <3>2. /\ DOMAIN a = 1 .. n /\ a = [i \in DOMAIN a |-> a[i]]
          /\ \A i \in 1 .. n : a[i] = PostItem(posts[i]) \/ a[i] = <<>>
      BY <1>2 DEF Answer, SearchAnswer
    <3> HIDE DEF a, posts
    <3>3. n \in Nat /\ \A i \in 1 .. n : posts[i] \in Keys
      BY <3>1
    <3>4. ASSUME NEW i \in 1 .. n PROVE a[i] \in Seq(Recs)
      <4>1. PostItem(posts[i]) \in Seq(Recs)
        BY <3>3, PostItemKeys
      <4>2. <<>> \in Seq(Recs)
        OBVIOUS
      <4> QED BY <3>2, <4>1, <4>2
    <3> HIDE DEF n
    <3>5. a \in Seq(Seq(Recs))
      BY <3>2, <3>3, <3>4, Segment
    <3> QED BY <3>5 DEF a
  <2> QED BY <2>1, <2>2, <2>3
<1> QED BY <1>1, <1>2 DEF Sources

Inside(S, from, to) == {k \in S : InWindow(k, from, to)}

\* A thread, a page and a video hold what of them is in the window.
LEMMA ThreadKeys ==
  ASSUME NEW thread
  PROVE  ItemKeys("youtube", ThreadItem(thread))
           = Inside(ToSet(thread), WindowFrom, WindowTo)
<1> DEFINE it == ThreadItem(thread)
           mine == Inside(ToSet(thread), WindowFrom, WindowTo)
<1>1. DOMAIN it = DOMAIN thread /\ \A i \in DOMAIN thread : it[i].id = thread[i]
  BY DEF ThreadItem
<1> HIDE DEF it
<1>2. ASSUME NEW k \in ItemKeys("youtube", it) PROVE k \in mine
  <2>1. PICK i \in DOMAIN it : k = it[i].id /\ Admits("youtube", it[i].id)
    BY DEF ItemKeys
  <2> QED BY <1>1, <2>1 DEF ToSet, Admits, Inside
<1>3. ASSUME NEW k \in mine PROVE k \in ItemKeys("youtube", it)
  <2>1. PICK i \in DOMAIN thread : k = thread[i] /\ InWindow(k, WindowFrom, WindowTo)
    BY DEF ToSet, Inside
  <2> QED BY <1>1, <2>1 DEF ItemKeys, Admits
<1> HIDE DEF mine
<1>4. ItemKeys("youtube", it) = mine
  BY <1>2, <1>3
<1> QED BY <1>4 DEF it, mine

\* The walk over a video keeps what the video has in the window.
LEMMA VideoWalk ==
  ASSUME NEW t
  PROVE  /\ \A page \in ToSet(Threads[t.id]) :
              FeedKeys("youtube", Answer("youtube", page))
                = Inside(PageKeys(page), WindowFrom, WindowTo)
         /\ Curated(t) => RequestKeys("youtube", Requests("youtube", t))
                = Inside(VideoKeys(t.id), WindowFrom, WindowTo)
         /\ ~Curated(t) => RequestKeys("youtube", Requests("youtube", t)) = {}
<1>1. ASSUME NEW page
      PROVE  FeedKeys("youtube", Answer("youtube", page))
               = Inside(PageKeys(page), WindowFrom, WindowTo)
  <2>1. ToSet(Answer("youtube", page)) = {ThreadItem(thread) : thread \in ToSet(page)}
    <3>1. /\ DOMAIN Answer("youtube", page) = DOMAIN page
          /\ \A i \in DOMAIN page : Answer("youtube", page)[i] = ThreadItem(page[i])
      BY DEF Answer
    <3> QED BY <3>1 DEF ToSet
  <2>2. FeedKeys("youtube", Answer("youtube", page))
          = UNION {ItemKeys("youtube", ThreadItem(thread)) : thread \in ToSet(page)}
    BY <2>1 DEF FeedKeys
  <2> QED BY <2>2, ThreadKeys DEF PageKeys, Inside
<1>2. ASSUME Curated(t)
      PROVE  RequestKeys("youtube", Requests("youtube", t))
                = Inside(VideoKeys(t.id), WindowFrom, WindowTo)
  <2>1. Requests("youtube", t) = Threads[t.id]
    BY <1>2 DEF Requests
  <2>2. RequestKeys("youtube", Requests("youtube", t))
          = UNION {FeedKeys("youtube", Answer("youtube", page)) : page \in ToSet(Threads[t.id])}
    BY <2>1 DEF RequestKeys
  <2> QED BY <1>1, <2>2 DEF VideoKeys, Inside
<1>3. ASSUME ~Curated(t)
      PROVE  RequestKeys("youtube", Requests("youtube", t)) = {}
  BY <1>3, NothingLeft DEF Requests
<1> QED BY <1>1, <1>2, <1>3

\* A search, seen through one slice, and a subreddit seen
\* through all of them.
WithComments(posts) == UNION {{post} \cup CommentsOf[post] : post \in posts}

\* The newest submissions are submissions of the subreddit.
LEMMA NewestKnown ==
  ASSUME CollectorAssumption, NEW r \in ToSet(Subreddits)
  PROVE  /\ Posts[r] \in Seq(Keys) /\ ToSet(Posts[r]) \subseteq Keys
         /\ Newest(r) \subseteq ToSet(Posts[r])
<1>1. r \in DOMAIN Posts
  BY DEF CollectorAssumption, ToSet
<1>2. Posts[r] \in Seq(Keys)
  BY <1>1 DEF CollectorAssumption
<1> QED BY <1>2 DEF ToSet, Newest

\* Where a search's answer comes from.
Top(r) == {i \in DOMAIN Posts[r] : i <= Ceiling}

\* A search answers with what the newest submissions have of the slice.
LEMMA SliceWalk ==
  ASSUME CollectorAssumption, NEW r \in ToSet(Subreddits),
         NEW slice \in Slices
  PROVE  LET answer == Answer("reddit", [subreddit |-> r, slice |-> slice])
         IN /\ DOMAIN answer = Top(r)
            /\ \A i \in DOMAIN answer :
                 answer[i] = IF InWindow(Posts[r][i], slice.from, slice.to)
                             THEN PostItem(Posts[r][i]) ELSE <<>>
            /\ FeedKeys("reddit", answer)
                 = WithComments(Inside(Newest(r), slice.from, slice.to))
<1> DEFINE q == [subreddit |-> r, slice |-> slice]
           a == Answer("reddit", q)
           posts == Posts[r]
           n == IF Len(posts) < Ceiling THEN Len(posts) ELSE Ceiling
           top == Top(r)
           found == Inside(Newest(r), slice.from, slice.to)
<1>1. Newest(r) = {posts[i] : i \in top}
  BY DEF Newest, Top
<1>2. posts \in Seq(Keys) /\ Ceiling \in Nat
  BY NewestKnown DEF CollectorAssumption
<1>3. 1 .. n = top
  <2>1. DOMAIN posts = 1 .. Len(posts) /\ Len(posts) \in Nat
    BY <1>2
  <2>2. top = {i \in 1 .. Len(posts) : i <= Ceiling}
    BY <2>1 DEF Top
  <2>3. n \in Nat /\ n <= Len(posts) /\ n <= Ceiling /\ (n = Len(posts) \/ n = Ceiling)
    BY <1>2, <2>1
  <2> HIDE DEF n, posts, top
  <2>4. \A i \in Int : i \in 1 .. n <=> i \in 1 .. Len(posts) /\ i <= Ceiling
    BY <1>2, <2>1, <2>3
  <2> QED BY <2>2, <2>4
<1>4. q.subreddit = r /\ q.slice = slice
  OBVIOUS
<1>5. a = [i \in 1 .. n |-> IF InWindow(posts[i], slice.from, slice.to)
                            THEN PostItem(posts[i]) ELSE <<>>]
  BY <1>4 DEF Answer, SearchAnswer
<1>10. \A i \in top : posts[i] \in Keys /\ posts[i] \in Newest(r)
  BY <1>1, <1>2 DEF Top
<1> HIDE DEF a, n, posts, top
<1>6. /\ DOMAIN a = top
      /\ \A i \in top : a[i] = IF InWindow(posts[i], slice.from, slice.to)
                                        THEN PostItem(posts[i]) ELSE <<>>
  BY <1>3, <1>5
<1>7. ASSUME NEW k \in FeedKeys("reddit", a) PROVE k \in WithComments(found)
  <2>1. PICK i \in DOMAIN a : k \in ItemKeys("reddit", a[i])
    BY DEF FeedKeys, ToSet
  <2>2. posts[i] \in Keys /\ posts[i] \in Newest(r)
    BY <1>6, <1>10, <2>1
  <2>3. InWindow(posts[i], slice.from, slice.to) /\ a[i] = PostItem(posts[i])
    BY <1>6, <2>1, NothingLeft
  <2>4. k \in {posts[i]} \cup CommentsOf[posts[i]]
    BY <2>1, <2>2, <2>3, PostItemKeys
  <2> QED BY <2>2, <2>3, <2>4 DEF WithComments, Inside
<1>8. ASSUME NEW k \in WithComments(found) PROVE k \in FeedKeys("reddit", a)
  <2>1. PICK post \in Newest(r) : /\ InWindow(post, slice.from, slice.to)
                                  /\ k \in {post} \cup CommentsOf[post]
    BY DEF WithComments, Inside
  <2>2. PICK i \in top : post = posts[i]
    BY <1>1, <2>1
  <2>3. a[i] = PostItem(post) /\ post \in Keys /\ i \in DOMAIN a
    BY <1>6, <1>10, <2>1, <2>2
  <2>4. k \in ItemKeys("reddit", a[i])
    BY <2>1, <2>3, PostItemKeys
  <2>5. a[i] \in ToSet(a)
    BY <2>3 DEF ToSet
  <2> QED BY <2>4, <2>5 DEF FeedKeys
<1> HIDE DEF found
<1>9. FeedKeys("reddit", a) = WithComments(found)
  BY <1>7, <1>8
<1> QED BY <1>6, <1>9 DEF a, found, posts, top

\* What such an answer keeps, for the steps that need no more of it.
LEMMA SliceKeys ==
  ASSUME CollectorAssumption, NEW r \in ToSet(Subreddits), NEW slice \in Slices
  PROVE  FeedKeys("reddit", Answer("reddit", [subreddit |-> r, slice |-> slice]))
           = WithComments(Inside(Newest(r), slice.from, slice.to))
BY SliceWalk

\* The walk over the slices of a subreddit keeps what a search returns of the window.
LEMMA SubredditWalk ==
  ASSUME CollectorAssumption, NEW r \in ToSet(Subreddits)
  PROVE  RequestKeys("reddit", Requests("reddit", r))
           = WithComments(Inside(Newest(r), WindowFrom, WindowTo))
<1> DEFINE qs == Requests("reddit", r)
           mine == Inside(Newest(r), WindowFrom, WindowTo)
           slice(i) == [subreddit |-> r, slice |-> TimeSlices[i]]
           seen(i) == Inside(Newest(r), TimeSlices[i].from, TimeSlices[i].to)
<1>1. DOMAIN qs = DOMAIN TimeSlices /\ \A i \in DOMAIN TimeSlices : qs[i] = slice(i)
  BY DEF Requests
<1>2. ASSUME NEW i \in DOMAIN TimeSlices
      PROVE  FeedKeys("reddit", Answer("reddit", slice(i))) = WithComments(seen(i))
  <2>1. TimeSlices[i] \in Slices
    BY SlicesTyped, Elements
  <2> QED BY <2>1, SliceKeys
<1>3. Newest(r) \subseteq Keys
  BY NewestKnown
<1> HIDE DEF qs, slice
<1>4. RequestKeys("reddit", qs) = UNION {WithComments(seen(i)) : i \in DOMAIN TimeSlices}
  <2>1. ToSet(qs) = {slice(i) : i \in DOMAIN TimeSlices}
    BY <1>1 DEF ToSet
  <2>2. RequestKeys("reddit", qs)
          = UNION {FeedKeys("reddit", Answer("reddit", slice(i))) : i \in DOMAIN TimeSlices}
    BY <2>1 DEF RequestKeys
  <2> QED BY <1>2, <2>2
<1>5. ASSUME NEW k \in Newest(r)
      PROVE  k \in mine <=> \E i \in DOMAIN TimeSlices : k \in seen(i)
  <2>1. k \in Keys
    BY <1>3
  <2> QED BY <2>1, SlicesCover DEF Inside
<1>6. \A i \in DOMAIN TimeSlices : seen(i) \subseteq Newest(r)
  BY DEF Inside
<1>7. mine \subseteq Newest(r)
  BY DEF Inside
<1> HIDE DEF mine, seen
<1>8. UNION {WithComments(seen(i)) : i \in DOMAIN TimeSlices} = WithComments(mine)
  <2>1. \A k : k \in mine <=> \E i \in DOMAIN TimeSlices : k \in seen(i)
    BY <1>5, <1>6, <1>7
  <2>2. ASSUME NEW k PROVE k \in WithComments(mine)
                             <=> \E i \in DOMAIN TimeSlices : k \in WithComments(seen(i))
    <3>1. \A posts : k \in WithComments(posts) <=> \E post \in posts : k \in {post} \cup CommentsOf[post]
      BY DEF WithComments
    <3> QED BY <2>1, <3>1
  <2> QED BY <2>2
<1> QED BY <1>4, <1>8 DEF qs, mine

\* What a whole walk keeps is what the API returns of the window.
LEMMA WalkReached ==
  ASSUME CollectorAssumption, NEW s \in Sources
  PROVE  TargetKeys(s, Targets(s)) = Reached[s]
<1>1. CASE s = "youtube"
  <2> DEFINE curated == {w \in ToSet(Videos) : Curated(w)}
             inside(S) == Inside(S, WindowFrom, WindowTo)
  <2>1. TargetKeys(s, Targets(s)) = UNION {RequestKeys("youtube", Requests("youtube", t)) :
                                             t \in ToSet(Videos)}
    BY <1>1 DEF TargetKeys, Targets
  <2>2. \A t \in ToSet(Videos) : RequestKeys("youtube", Requests("youtube", t))
                                   = IF Curated(t) THEN inside(VideoKeys(t.id)) ELSE {}
    BY VideoWalk
  <2>3. TargetKeys(s, Targets(s)) = UNION {inside(VideoKeys(t.id)) : t \in curated}
    BY <2>1, <2>2
  <2>4. Reached[s] = inside(UNION {VideoKeys(t.id) : t \in curated})
    BY <1>1 DEF Reached, Within, VideoKeys, PageKeys, Inside
  <2> HIDE DEF curated
  <2> QED BY <2>3, <2>4 DEF Inside
<1>2. CASE s = "reddit"
  <2> DEFINE mine(r) == Inside(Newest(r), WindowFrom, WindowTo)
             all == Inside(UNION {Newest(r) : r \in ToSet(Subreddits)}, WindowFrom, WindowTo)
  <2>1. TargetKeys(s, Targets(s)) = UNION {RequestKeys("reddit", Requests("reddit", r)) :
                                             r \in ToSet(Subreddits)}
    BY <1>2 DEF TargetKeys, Targets
  <2>2. ASSUME NEW r \in ToSet(Subreddits)
        PROVE  RequestKeys("reddit", Requests("reddit", r)) = WithComments(mine(r))
    BY SubredditWalk
  <2> HIDE DEF mine
  <2>3. TargetKeys(s, Targets(s)) = UNION {WithComments(mine(r)) : r \in ToSet(Subreddits)}
    BY <2>1, <2>2
  <2>4. Reached[s] = WithComments(all)
    BY <1>2 DEF Reached, Within, WithComments, Inside
  <2>5. UNION {WithComments(mine(r)) : r \in ToSet(Subreddits)} = WithComments(all)
    BY DEF WithComments, mine, Inside
  <2> QED BY <2>3, <2>4, <2>5
<1> QED BY <1>1, <1>2 DEF Sources

\* A walk meets no record twice.
LEMMA VideoOnce ==
  ASSUME CollectorAssumption, AnswersOnce, NEW t \in ToSet(Videos), Curated(t)
  PROVE  /\ OnceRequests("youtube", Requests("youtube", t))
         /\ RequestKeys("youtube", Requests("youtube", t)) \subseteq VideoKeys(t.id)
<1> DEFINE pages == Threads[t.id]
<1>1. t.id \in DOMAIN Threads
  BY DEF CollectorAssumption
<1>2. /\ \A page \in ToSet(pages) :
           /\ \A thread \in ToSet(page) : IsInjective(thread)
           /\ \A i, j \in DOMAIN page : i # j => ToSet(page[i]) \cap ToSet(page[j]) = {}
      /\ \A i, j \in DOMAIN pages : i # j => PageKeys(pages[i]) \cap PageKeys(pages[j]) = {}
  BY <1>1 DEF AnswersOnce
<1>3. Requests("youtube", t) = pages
  BY DEF Requests
<1>4. ASSUME NEW thread, IsInjective(thread) PROVE OnceItem(ThreadItem(thread))
  BY <1>4 DEF OnceItem, ThreadItem, IsInjective
<1>5. ASSUME NEW page \in ToSet(pages) PROVE OnceFeed("youtube", Answer("youtube", page))
  <2> DEFINE a == Answer("youtube", page)
  <2>1. DOMAIN a = DOMAIN page /\ \A i \in DOMAIN page : a[i] = ThreadItem(page[i])
    BY DEF Answer
  <2> HIDE DEF a
  <2>2. \A i \in DOMAIN page : ItemKeys("youtube", a[i]) \subseteq ToSet(page[i])
    BY <2>1, ThreadKeys DEF Inside
  <2>3. \A i, j \in DOMAIN a : i # j =>
          ItemKeys("youtube", a[i]) \cap ItemKeys("youtube", a[j]) = {}
    BY <1>2, <2>1, <2>2
  <2>4. ASSUME NEW it \in ToSet(a) PROVE OnceItem(it)
    <3>1. PICK i \in DOMAIN page : it = ThreadItem(page[i])
      BY <2>1 DEF ToSet
    <3>2. IsInjective(page[i])
      BY <1>2 DEF ToSet
    <3> QED BY <1>4, <3>1, <3>2
  <2>5. OnceFeed("youtube", a)
    BY <2>3, <2>4 DEF OnceFeed
  <2> QED BY <2>5 DEF a
<1>6. \A page \in ToSet(pages) :
        FeedKeys("youtube", Answer("youtube", page)) \subseteq PageKeys(page)
  BY VideoWalk DEF Inside
<1>7. \A i \in DOMAIN pages : pages[i] \in ToSet(pages)
  BY DEF ToSet
<1> HIDE DEF pages
<1>8. OnceRequests("youtube", pages)
  BY <1>2, <1>5, <1>6, <1>7 DEF OnceRequests
<1>9. RequestKeys("youtube", Requests("youtube", t)) \subseteq VideoKeys(t.id)
  BY VideoWalk DEF Inside
<1> QED BY <1>3, <1>8, <1>9

AllPosts == UNION {ToSet(Posts[r]) : r \in ToSet(Subreddits)}

\* A submission or comment belongs to one submission.
LEMMA OneSubmission ==
  ASSUME AnswersOnce, NEW a \in AllPosts, NEW b \in AllPosts, NEW k,
         k \in {a} \cup CommentsOf[a], k \in {b} \cup CommentsOf[b]
  PROVE  a = b
BY DEF AnswersOnce, AllPosts

\* The walk over a subreddit meets no record twice,
LEMMA SubredditOnce ==
  ASSUME CollectorAssumption, AnswersOnce, NEW r \in ToSet(Subreddits)
  PROVE  OnceRequests("reddit", Requests("reddit", r))
<1> DEFINE posts == Posts[r]
           query(i) == [subreddit |-> r, slice |-> TimeSlices[i]]
           qs == Requests("reddit", r)
<1>2. posts \in Seq(Keys) /\ Newest(r) \subseteq ToSet(posts)
  BY NewestKnown
<1>3. ToSet(posts) \subseteq AllPosts
  BY DEF AllPosts
<1>4. IsInjective(posts) /\ \A k \in ToSet(posts) : k \notin CommentsOf[k]
  BY <1>3 DEF AnswersOnce, AllPosts
<1>5. ToSet(posts) \subseteq Keys
  BY <1>2, Elements
<1>6. DOMAIN qs = DOMAIN TimeSlices /\ \A i \in DOMAIN TimeSlices : qs[i] = query(i)
  BY DEF Requests
<1>7. ASSUME NEW i \in DOMAIN TimeSlices PROVE TimeSlices[i] \in Slices
  BY SlicesTyped, Elements
<1>8. ASSUME NEW i \in DOMAIN TimeSlices PROVE OnceFeed("reddit", Answer("reddit", query(i)))
  <2> DEFINE slice == TimeSlices[i]
             a == Answer("reddit", [subreddit |-> r, slice |-> slice])
  <2>1. /\ DOMAIN a \subseteq DOMAIN posts
        /\ \A j \in DOMAIN a : a[j] = IF InWindow(posts[j], slice.from, slice.to)
                                          THEN PostItem(posts[j]) ELSE <<>>
    <3>1. DOMAIN a = Top(r)
          /\ \A j \in DOMAIN a : a[j] = IF InWindow(posts[j], slice.from, slice.to)
                                        THEN PostItem(posts[j]) ELSE <<>>
      BY <1>7, SliceWalk
    <3> QED BY <3>1 DEF Top
  <2> HIDE DEF a, slice, posts
  <2>2. ASSUME NEW j \in DOMAIN a
        PROVE  /\ posts[j] \in ToSet(posts) /\ posts[j] \in Keys
               /\ OnceItem(a[j])
               /\ ItemKeys("reddit", a[j]) \subseteq {posts[j]} \cup CommentsOf[posts[j]]
    <3>1. posts[j] \in ToSet(posts)
      BY <2>1 DEF ToSet
    <3>2. /\ posts[j] \in Keys /\ OnceItem(PostItem(posts[j]))
          /\ ItemKeys("reddit", PostItem(posts[j])) = {posts[j]} \cup CommentsOf[posts[j]]
      BY <1>4, <1>5, <3>1, PostItemKeys
    <3> QED BY <2>1, <3>1, <3>2, NothingLeft
  <2>3. ASSUME NEW j \in DOMAIN a, NEW k \in DOMAIN a, j # k,
               NEW x \in ItemKeys("reddit", a[j]), x \in ItemKeys("reddit", a[k])
        PROVE  FALSE
    <3>1. posts[j] \in AllPosts /\ posts[k] \in AllPosts
      BY <1>3, <2>1, <2>2
    <3>2. x \in {posts[j]} \cup CommentsOf[posts[j]] /\ x \in {posts[k]} \cup CommentsOf[posts[k]]
      BY <2>1, <2>2, <2>3
    <3>3. posts[j] = posts[k]
      BY <3>1, <3>2, OneSubmission
    <3> QED BY <1>4, <2>1, <2>3, <3>3 DEF IsInjective
  <2>4. \A it \in ToSet(a) : OnceItem(it)
    BY <2>1, <2>2 DEF ToSet
  <2>5. OnceFeed("reddit", a)
    BY <2>3, <2>4 DEF OnceFeed
  <2> QED BY <2>5 DEF a, slice
<1>9. ASSUME NEW i \in DOMAIN TimeSlices, NEW j \in DOMAIN TimeSlices, i # j,
             NEW k \in FeedKeys("reddit", Answer("reddit", query(i))),
             k \in FeedKeys("reddit", Answer("reddit", query(j)))
      PROVE  FALSE
  <2>1. \A n \in DOMAIN TimeSlices :
          FeedKeys("reddit", Answer("reddit", query(n)))
            = WithComments(Inside(Newest(r), TimeSlices[n].from, TimeSlices[n].to))
    BY <1>7, SliceKeys
  <2>2. PICK a \in Inside(Newest(r), TimeSlices[i].from, TimeSlices[i].to) :
          k \in {a} \cup CommentsOf[a]
    BY <1>9, <2>1 DEF WithComments
  <2>3. PICK b \in Inside(Newest(r), TimeSlices[j].from, TimeSlices[j].to) :
          k \in {b} \cup CommentsOf[b]
    BY <1>9, <2>1 DEF WithComments
  <2>4. a \in ToSet(posts) /\ b \in ToSet(posts)
    BY <1>2 DEF Inside
  <2>5. a = b
    BY <1>3, <2>2, <2>3, <2>4, OneSubmission
  <2>6. InWindow(a, TimeSlices[i].from, TimeSlices[i].to) /\ a \in Keys
        /\ InWindow(a, TimeSlices[j].from, TimeSlices[j].to)
    BY <1>5, <2>4, <2>5 DEF Inside
  <2> QED BY <1>9, <2>6, SlicesCover
<1> HIDE DEF qs, query
<1>10. \A q \in ToSet(qs) : OnceFeed("reddit", Answer("reddit", q))
  BY <1>6, <1>8 DEF ToSet
<1>11. \A i, j \in DOMAIN qs : i # j =>
         FeedKeys("reddit", Answer("reddit", qs[i]))
           \cap FeedKeys("reddit", Answer("reddit", qs[j])) = {}
  BY <1>6, <1>9
<1>12. OnceRequests("reddit", qs)
  BY <1>10, <1>11 DEF OnceRequests
<1> QED BY <1>12 DEF qs

\* nor does a whole pass.
LEMMA WalkOnce ==
  ASSUME CollectorAssumption, AnswersOnce, NEW s \in Sources
  PROVE  OnceTargets(s, Targets(s))
<1>1. CASE s = "youtube"
  <2>1. Targets(s) = Videos
    BY <1>1 DEF Targets
  <2>2. ASSUME NEW t \in ToSet(Videos)
        PROVE  /\ OnceRequests("youtube", Requests("youtube", t))
               /\ RequestKeys("youtube", Requests("youtube", t))
                    \subseteq IF Curated(t) THEN VideoKeys(t.id) ELSE {}
    <3>1. CASE Curated(t)
      BY <3>1, VideoOnce
    <3>2. CASE ~Curated(t)
      BY <3>2, VideoWalk, NothingLeft DEF Requests
    <3> QED BY <3>1, <3>2
  <2>3. \A i \in DOMAIN Videos : Videos[i] \in ToSet(Videos)
    BY DEF ToSet
  <2>4. \A i, j \in DOMAIN Videos : i # j =>
          RequestKeys("youtube", Requests("youtube", Videos[i]))
            \cap RequestKeys("youtube", Requests("youtube", Videos[j])) = {}
    BY <2>2, <2>3 DEF AnswersOnce
  <2> QED BY <1>1, <2>1, <2>2, <2>4 DEF OnceTargets
<1>2. CASE s = "reddit"
  <2>1. Targets(s) = Subreddits
    BY <1>2 DEF Targets
  <2>2. \A i \in DOMAIN Subreddits : Subreddits[i] \in ToSet(Subreddits)
    BY DEF ToSet
  <2>3. ASSUME NEW i \in DOMAIN Subreddits, NEW j \in DOMAIN Subreddits, i # j,
               NEW k \in RequestKeys("reddit", Requests("reddit", Subreddits[i])),
               k \in RequestKeys("reddit", Requests("reddit", Subreddits[j]))
        PROVE  FALSE
    <3> DEFINE mine(n) == Inside(Newest(Subreddits[n]), WindowFrom, WindowTo)
    <3>1. \A n \in DOMAIN Subreddits :
            RequestKeys("reddit", Requests("reddit", Subreddits[n])) = WithComments(mine(n))
      BY <2>2, SubredditWalk
    <3>2. PICK a \in mine(i) : k \in {a} \cup CommentsOf[a]
      BY <2>3, <3>1 DEF WithComments
    <3>3. PICK b \in mine(j) : k \in {b} \cup CommentsOf[b]
      BY <2>3, <3>1 DEF WithComments
    <3>4. a \in ToSet(Posts[Subreddits[i]]) /\ b \in ToSet(Posts[Subreddits[j]])
      BY <2>2, NewestKnown DEF Inside
    <3>5. a \in AllPosts /\ b \in AllPosts
      BY <2>2, <3>4 DEF AllPosts
    <3>6. a = b
      BY <3>2, <3>3, <3>5, OneSubmission
    <3> QED BY <2>3, <3>4, <3>6 DEF AnswersOnce
  <2>4. \A t \in ToSet(Subreddits) : OnceRequests("reddit", Requests("reddit", t))
    BY SubredditOnce
  <2> QED BY <1>2, <2>1, <2>3, <2>4 DEF OnceTargets
<1> QED BY <1>1, <1>2 DEF Sources

-----------------------------------------------------------------------------
(* The collectors implement the archive that the load step reads *)

\* A pass holds well-typed records, and rows are archived under its number only
\* while it runs.
PassTyped ==
  /\ archive \subseteq Rows
  /\ source \in Sources \cup {"none"}
  /\ passes \in 0 .. MaxPasses
  /\ item \in Seq(Recs) /\ feed \in Seq(Seq(Recs))
  /\ requests \in Seq(RequestType(source)) /\ targets \in Seq(TargetType(source))
  /\ buffer \in Seq(Keys)
  /\ written \in Nat
  /\ reported \in [1 .. MaxPasses -> [source : Sources \cup {"none"}, total : Nat]]
  /\ source = "none" => item = <<>> /\ feed = <<>> /\ requests = <<>> /\ targets = <<>>
  /\ source # "none" => passes \in 1 .. MaxPasses /\ reported[passes].source = "none"
  /\ \A p \in 1 .. MaxPasses : p > passes => reported[p].source = "none"
  /\ \A row \in archive : row.pass <= passes

\* The records in hand are records of the system.
LEMMA KeptTyped ==
  ASSUME PassTyped, item # <<>>
  PROVE  /\ Kept \in Seq(Keys) /\ Head(item) \in Recs /\ Tail(item) \in Seq(Recs)
         /\ ToSet(Kept) \subseteq Keys /\ ToSet(buffer) \subseteq Keys
<1>1. Head(item) \in Recs /\ Tail(item) \in Seq(Recs)
  BY HeadAndTail DEF PassTyped
<1>2. Head(item).id \in Keys
  BY <1>1 DEF Recs
<1>3. Kept \in Seq(Keys)
  BY <1>2 DEF Kept, PassTyped
<1> QED BY <1>1, <1>3, Elements DEF PassTyped

\* What a step of a pass does to the archive: nothing, or it adds a pass's rows.
LEMMA ArchiveGrows ==
  ASSUME CollectorAssumption, PassTyped, Keep \/ EndPass
  PROVE  /\ \/ archive' = archive
            \/ archive' = archive \cup Copies(ToSet(IF item # <<>> THEN Kept ELSE buffer))
         /\ archive \subseteq archive' /\ archive' \subseteq Rows
         /\ \A row \in archive' : row.pass <= passes
<1> DEFINE ids == ToSet(IF item # <<>> THEN Kept ELSE buffer)
<1>1. /\ source # "none" /\ ids \subseteq Keys
      /\ archive' = archive \/ archive' = archive \cup Copies(ids)
  <2>1. ToSet(buffer) \subseteq Keys
    BY Elements DEF PassTyped
  <2>2. CASE Keep
    BY <2>2, KeptTyped DEF Keep, Write, UploadFails, PassTyped
  <2>3. CASE EndPass
    BY <2>1, <2>3 DEF EndPass, Write, UploadFails
  <2> QED BY <2>2, <2>3
<1> HIDE DEF ids
<1>2. Copies(ids) \subseteq Rows
  <2>1. passes \in 1 .. MaxPasses
    BY <1>1 DEF PassTyped
  <2> QED BY <1>1, <2>1 DEF Copies, CollectorAssumption
<1>5. \A row \in Copies(ids) : row.pass = passes
  BY DEF Copies
<1>3. passes \in Nat /\ archive \subseteq Rows /\ \A row \in archive : row.pass <= passes
  BY DEF PassTyped
<1>4. \A row \in archive' : row.pass <= passes
  BY <1>1, <1>3, <1>5
<1> QED BY <1>1, <1>2, <1>3, <1>4 DEF ids

\* It holds at the beginning.
LEMMA InitTyped ==
  ASSUME CollectorAssumption, CollectInit PROVE PassTyped
<1>1. <<>> \in Seq(Recs) /\ <<>> \in Seq(Seq(Recs)) /\ <<>> \in Seq(Keys)
      /\ \A T : <<>> \in Seq(T)
  OBVIOUS
<1>2. 0 \in 0 .. MaxPasses
  BY DEF CollectorAssumption
<1> QED BY <1>1, <1>2 DEF CollectInit, Init, PassTyped

\* The end of a pass, normal or not.
LEMMA EndsTyped ==
  ASSUME PassTyped, Ends, passes' = passes,
         archive' \subseteq Rows, \A row \in archive' : row.pass <= passes,
         written' \in Nat,
         \/ reported' = reported
         \/ /\ source # "none"
            /\ reported' = [reported EXCEPT ![passes] = [source |-> source, total |-> written']]
  PROVE  PassTyped'
<1>1. <<>> \in Seq(Recs) /\ <<>> \in Seq(Seq(Recs)) /\ <<>> \in Seq(Keys)
      /\ \A T : <<>> \in Seq(T)
  OBVIOUS
<1>2. reported' \in [1 .. MaxPasses -> [source : Sources \cup {"none"}, total : Nat]]
  BY DEF PassTyped
<1>3. ASSUME NEW p \in 1 .. MaxPasses, p > passes PROVE reported'[p].source = "none"
  <2>1. p # passes
    BY <1>3 DEF PassTyped
  <2>2. reported'[p] = reported[p]
    BY <2>1 DEF PassTyped
  <2> QED BY <1>3, <2>2 DEF PassTyped
<1> QED BY <1>1, <1>2, <1>3 DEF Ends, PassTyped

\* Every step keeps it.
LEMMA StepTyped ==
  ASSUME CollectorAssumption, PassTyped, [CollectNext]_collectVars PROVE PassTyped'
<1>0. \A T : <<>> \in Seq(T)
  OBVIOUS
<1>1. ASSUME NEW s \in Sources, StartPass(s) PROVE PassTyped'
  <2>1. Targets(s) \in Seq(TargetType(s))
    BY LoopsTyped
  <2>2. passes' \in 0 .. MaxPasses /\ passes' \in 1 .. MaxPasses /\ passes' = passes + 1
        /\ passes \in Nat
    BY <1>1 DEF StartPass, PassTyped, CollectorAssumption
  <2>3. /\ archive' \subseteq Rows /\ \A row \in archive' : row.pass <= passes'
    <3>1. archive' = archive /\ archive \subseteq Rows
      BY <1>1 DEF StartPass, PassTyped
    <3>2. \A row \in Rows : row.pass \in 1 .. MaxPasses
      BY DEF CollectorAssumption
    <3>3. ASSUME NEW row \in archive PROVE row.pass <= passes'
      <4>1. row.pass \in Nat /\ row.pass <= passes
        BY <3>1, <3>2 DEF PassTyped
      <4> QED BY <2>2, <4>1
    <3> QED BY <3>1, <3>3
  <2>4. /\ reported'[passes'].source = "none"
        /\ \A p \in 1 .. MaxPasses : p > passes' => reported'[p].source = "none"
    BY <1>1, <2>2 DEF StartPass, PassTyped
  <2> QED BY <1>0, <1>1, <2>1, <2>2, <2>3, <2>4 DEF StartPass, PassTyped, Sources
<1>2. CASE Turn
  <2>1. source \in Sources
    BY <1>2 DEF Turn, PassTyped
  <2>2. Head(targets) \in TargetType(source) /\ Tail(targets) \in Seq(TargetType(source))
    BY <1>2, HeadAndTail DEF Turn, PassTyped
  <2>3. Requests(source, Head(targets)) \in Seq(RequestType(source))
    BY <2>1, <2>2, LoopsTyped
  <2> QED BY <1>2, <2>1, <2>2, <2>3 DEF Turn, PassTyped, vars, Sources
<1>3. CASE Ask
  <2>1. source \in Sources
    BY <1>3 DEF Ask, PassTyped
  <2>2. Head(requests) \in RequestType(source) /\ Tail(requests) \in Seq(RequestType(source))
    BY <1>3, HeadAndTail DEF Ask, PassTyped
  <2>3. Answer(source, Head(requests)) \in Seq(Seq(Recs))
    BY <2>1, <2>2, LoopsTyped
  <2> QED BY <1>3, <2>1, <2>2, <2>3 DEF Ask, PassTyped, vars, Sources
<1>4. CASE AskFails
  <2>1. CASE Ends
    BY <1>4, <2>1, EndsTyped DEF AskFails, PassTyped, vars
  <2>2. CASE UNCHANGED <<source, ahead, buffer>>
    BY <1>4, <2>2 DEF AskFails, PassTyped, vars, ahead
  <2> QED BY <1>4, <2>1, <2>2 DEF AskFails
<1>5. CASE Take
  <2>1. source \in Sources
    BY <1>5 DEF Take, PassTyped
  <2>2. Head(feed) \in Seq(Recs) /\ Tail(feed) \in Seq(Seq(Recs))
    BY <1>5, HeadAndTail DEF Take, PassTyped
  <2> QED BY <1>5, <2>1, <2>2 DEF Take, PassTyped, vars, Sources
<1>6. CASE Keep
  <2>1. /\ Kept \in Seq(Keys) /\ Tail(item) \in Seq(Recs)
        /\ archive' \subseteq Rows /\ \A row \in archive' : row.pass <= passes
    <3>1. item # <<>>
      BY <1>6 DEF Keep
    <3> QED BY <1>6, <3>1, KeptTyped, ArchiveGrows
  <2>2. source # "none" /\ passes' = passes
    BY <1>6 DEF Keep, PassTyped
  <2>3. CASE UploadFails(Kept)
    <3>1. written' \in Nat /\ reported' = reported /\ Ends
      BY <2>3 DEF UploadFails, PassTyped
    <3> QED BY <2>1, <2>2, <3>1, EndsTyped
  <2>4. CASE /\ Write(Kept) /\ buffer' = <<>> /\ item' = Tail(item)
             /\ UNCHANGED <<source, targets, requests, feed, attempts, reported, faults>>
    <3>1. written' \in Nat
      <4>1. Len(Kept) \in Nat /\ written \in Nat
        BY <2>1 DEF PassTyped
      <4> QED BY <2>4, <4>1 DEF Write
    <3> QED BY <1>0, <2>1, <2>2, <2>4, <3>1 DEF PassTyped
  <2>5. CASE /\ buffer' = Kept /\ item' = Tail(item)
             /\ UNCHANGED <<archive, source, targets, requests, feed, attempts, written,
                            reported, faults>>
    BY <2>1, <2>2, <2>5 DEF PassTyped
  <2> QED BY <1>6, <2>3, <2>4, <2>5 DEF Keep
<1>7. CASE EndPass
  <2>1. /\ archive' \subseteq Rows /\ \A row \in archive' : row.pass <= passes
    BY <1>7, ArchiveGrows
  <2>2. /\ Ends /\ passes' = passes
    BY <1>7 DEF EndPass, UploadFails
  <2>3. written' \in Nat
    <3>1. Len(buffer) \in Nat
      BY DEF PassTyped
    <3> QED BY <1>7, <3>1 DEF EndPass, Write, UploadFails, PassTyped
  <2>4. \/ reported' = reported
        \/ /\ source # "none"
           /\ reported' = [reported EXCEPT ![passes] = [source |-> source, total |-> written']]
    BY <1>7 DEF EndPass, UploadFails
  <2> QED BY <2>1, <2>2, <2>3, <2>4, EndsTyped
<1>8. CASE Crash
  BY <1>8, EndsTyped DEF Crash, PassTyped, vars
<1>9. ASSUME NEW l \in Loaders, Load(l) PROVE PassTyped'
  BY <1>9 DEF Load, LoadStep, StartLoad, LoadLanding, MergeStaging, LoadFails, walk, ahead,
              PassTyped
<1>10. CASE UNCHANGED collectVars
  BY <1>10 DEF collectVars, vars, walk, ahead, PassTyped
<1> QED BY <1>1, <1>2, <1>3, <1>4, <1>5, <1>6, <1>7, <1>8, <1>9, <1>10 DEF CollectNext, Sources

\* To the load step every step of a pass is an archive that grows, or nothing.
LEMMA StepIsLoadStep ==
  ASSUME CollectorAssumption, PassTyped, [CollectNext]_collectVars PROVE [Next]_vars
<1>1. ASSUME NEW s \in Sources, StartPass(s) PROVE UNCHANGED vars
  BY <1>1 DEF StartPass, vars, loading
<1>2. CASE Turn \/ Ask \/ AskFails \/ Take \/ Crash
  BY <1>2 DEF Turn, Ask, AskFails, Take, Crash
<1>3. CASE Keep \/ EndPass
  <2>1. archive \subseteq archive' /\ archive' \subseteq Rows
    BY <1>3, ArchiveGrows
  <2>2. UNCHANGED <<landing, staging, at, listed, alone, merged, loads>>
    BY <1>3 DEF Keep, EndPass, loading
  <2> QED BY <2>1, <2>2 DEF Next, Collect
<1>4. ASSUME NEW l \in Loaders, Load(l) PROVE Next
  BY <1>4 DEF Load, Next
<1>5. CASE UNCHANGED collectVars
  BY <1>5 DEF collectVars
<1> QED BY <1>1, <1>2, <1>3, <1>4, <1>5 DEF CollectNext, Sources

-----------------------------------------------------------------------------
(* The walk of a pass, one level at a time *)

\* What a pass has still to keep.
Ahead(s, it, f, qs, ts) ==
  ItemKeys(s, it) \cup FeedKeys(s, f) \cup RequestKeys(s, qs) \cup TargetKeys(s, ts)

\* None of it comes twice, and none of it is done.
Apart(s, done, it, f, qs, ts) ==
  /\ OnceItem(it) /\ OnceFeed(s, f) /\ OnceRequests(s, qs) /\ OnceTargets(s, ts)
  /\ ItemKeys(s, it) \cap (FeedKeys(s, f) \cup RequestKeys(s, qs) \cup TargetKeys(s, ts)) = {}
  /\ FeedKeys(s, f) \cap (RequestKeys(s, qs) \cup TargetKeys(s, ts)) = {}
  /\ RequestKeys(s, qs) \cap TargetKeys(s, ts) = {}
  /\ done \cap Ahead(s, it, f, qs, ts) = {}

\* The next target, request and item move what they hold one level down.
LEMMA NextTarget ==
  ASSUME NEW s, NEW T, NEW ts \in Seq(T), ts # <<>>, NEW done
  PROVE  /\ Ahead(s, <<>>, <<>>, Requests(s, Head(ts)), Tail(ts)) = Ahead(s, <<>>, <<>>, <<>>, ts)
         /\ Apart(s, done, <<>>, <<>>, <<>>, ts) =>
              Apart(s, done, <<>>, <<>>, Requests(s, Head(ts)), Tail(ts))
<1>1. /\ TargetKeys(s, ts) = RequestKeys(s, Requests(s, Head(ts))) \cup TargetKeys(s, Tail(ts))
      /\ OnceTargets(s, ts) =>
           /\ OnceRequests(s, Requests(s, Head(ts))) /\ OnceTargets(s, Tail(ts))
           /\ RequestKeys(s, Requests(s, Head(ts))) \cap TargetKeys(s, Tail(ts)) = {}
  BY TargetTail
<1>2. /\ ItemKeys(s, <<>>) = {} /\ FeedKeys(s, <<>>) = {} /\ RequestKeys(s, <<>>) = {}
      /\ OnceItem(<<>>) /\ OnceFeed(s, <<>>)
  BY NothingLeft
<1> QED BY <1>1, <1>2 DEF Ahead, Apart

LEMMA NextRequest ==
  ASSUME NEW s, NEW T, NEW qs \in Seq(T), qs # <<>>, NEW ts, NEW done
  PROVE  /\ Ahead(s, <<>>, Answer(s, Head(qs)), Tail(qs), ts) = Ahead(s, <<>>, <<>>, qs, ts)
         /\ Apart(s, done, <<>>, <<>>, qs, ts) =>
              Apart(s, done, <<>>, Answer(s, Head(qs)), Tail(qs), ts)
<1>1. /\ RequestKeys(s, qs) = FeedKeys(s, Answer(s, Head(qs))) \cup RequestKeys(s, Tail(qs))
      /\ OnceRequests(s, qs) =>
           /\ OnceFeed(s, Answer(s, Head(qs))) /\ OnceRequests(s, Tail(qs))
           /\ FeedKeys(s, Answer(s, Head(qs))) \cap RequestKeys(s, Tail(qs)) = {}
  BY RequestTail
<1>2. ItemKeys(s, <<>>) = {} /\ FeedKeys(s, <<>>) = {} /\ OnceItem(<<>>)
  BY NothingLeft
<1> QED BY <1>1, <1>2 DEF Ahead, Apart

LEMMA NextItem ==
  ASSUME NEW s, NEW f \in Seq(Seq(Recs)), f # <<>>, NEW qs, NEW ts, NEW done
  PROVE  /\ Ahead(s, Head(f), Tail(f), qs, ts) = Ahead(s, <<>>, f, qs, ts)
         /\ Apart(s, done, <<>>, f, qs, ts) => Apart(s, done, Head(f), Tail(f), qs, ts)
<1>1. /\ FeedKeys(s, f) = ItemKeys(s, Head(f)) \cup FeedKeys(s, Tail(f))
      /\ OnceFeed(s, f) => /\ OnceItem(Head(f)) /\ OnceFeed(s, Tail(f))
                           /\ ItemKeys(s, Head(f)) \cap FeedKeys(s, Tail(f)) = {}
  BY FeedTail
<1>2. ItemKeys(s, <<>>) = {}
  BY NothingLeft
<1> QED BY <1>1, <1>2 DEF Ahead, Apart

-----------------------------------------------------------------------------
(* A pass that ends has archived what its API exposes *)

Done == ToSet(buffer) \cup StoredBy(passes)

\* What a pass has and what is ahead of it is what its API exposes.
PassCovers ==
  /\ source # "none" => Done \cup Ahead(source, item, feed, requests, targets) = Reached[source]
  /\ \A p \in Ended : StoredBy(p) = Reached[reported[p].source]

\* A write adds its records to the pass's own, and to no other's.
LEMMA WriteStores ==
  ASSUME NEW ids, archive' = archive \cup Copies(ids), passes' = passes
  PROVE  /\ StoredBy(passes)' = StoredBy(passes) \cup ids
         /\ \A p : p # passes => {r \in archive' : r.pass = p} = {r \in archive : r.pass = p}
<1>1. \A row \in Copies(ids) : row.id \in ids /\ row.pass = passes
  BY DEF Copies
<1>2. ASSUME NEW k \in ids PROVE \E row \in Copies(ids) : row.id = k /\ row.pass = passes
  <2> DEFINE row == [id |-> k, at |-> Second[passes], pass |-> passes]
  <2>1. row \in Copies(ids) /\ row.id = k /\ row.pass = passes
    BY DEF Copies
  <2> QED BY <2>1
<1>3. StoredBy(passes)' = {row.id : row \in {r \in archive' : r.pass = passes}}
  BY DEF StoredBy
<1>4. StoredBy(passes)' \subseteq StoredBy(passes) \cup ids
  BY <1>1, <1>3 DEF StoredBy
<1>5. StoredBy(passes) \cup ids \subseteq StoredBy(passes)'
  BY <1>2, <1>3 DEF StoredBy
<1> QED BY <1>1, <1>4, <1>5

\* What an earlier pass has archived stays as it is.
LEMMA OthersStay ==
  ASSUME CollectorAssumption, PassTyped, [CollectNext]_collectVars, NEW p \in Ended
  PROVE  /\ {r \in archive' : r.pass = p} = {r \in archive : r.pass = p}
         /\ StoredBy(p)' = StoredBy(p)
         /\ p \in Ended' /\ reported'[p] = reported[p]
<1>1. source # "none" => p # passes
  BY DEF Ended, PassTyped
<1>2. /\ reported'[p] = reported[p]
      /\ \/ archive' = archive
         \/ \E ids : archive' = archive \cup Copies(ids) /\ passes' = passes /\ source # "none"
  <2>1. ASSUME NEW s \in Sources, StartPass(s) PROVE reported' = reported /\ archive' = archive
    BY <2>1 DEF StartPass
  <2>2. CASE Turn \/ Ask \/ AskFails \/ Take \/ Crash
    BY <2>2 DEF Turn, Ask, AskFails, Take, Crash, vars
  <2>3. CASE Keep
    BY <2>3, <1>1 DEF Keep, Write, UploadFails, PassTyped
  <2>4. CASE EndPass
    <3>1. p # passes /\ p \in DOMAIN reported
      BY <1>1, <2>4 DEF EndPass, Ended, PassTyped
    <3>2. \/ reported' = reported
          \/ \E r : reported' = [reported EXCEPT ![passes] = r]
      BY <2>4 DEF EndPass, UploadFails
    <3>3. reported'[p] = reported[p]
      BY <3>1, <3>2
    <3> QED BY <2>4, <3>3 DEF EndPass, Write, UploadFails
  <2>5. ASSUME NEW l \in Loaders, Load(l) PROVE reported' = reported /\ archive' = archive
    BY <2>5 DEF Load, LoadStep, StartLoad, LoadLanding, MergeStaging, LoadFails, walk
  <2>6. CASE UNCHANGED collectVars
    BY <2>6 DEF collectVars, vars, walk
  <2> QED BY <2>1, <2>2, <2>3, <2>4, <2>5, <2>6 DEF CollectNext, Sources
<1>3. {r \in archive' : r.pass = p} = {r \in archive : r.pass = p}
  <2>1. CASE archive' = archive
    BY <2>1
  <2>2. ASSUME NEW ids, archive' = archive \cup Copies(ids), passes' = passes, source # "none"
        PROVE  {r \in archive' : r.pass = p} = {r \in archive : r.pass = p}
    BY <1>1, <2>2, WriteStores
  <2> QED BY <1>2, <2>1, <2>2
<1>4. p \in Ended'
  BY <1>2 DEF Ended
<1> QED BY <1>2, <1>3, <1>4 DEF StoredBy

\* The next record, if it is admitted.
First == IF Admits(source, Head(item).id) THEN {Head(item).id} ELSE {}

\* It is done next.
LEMMA NextRecord ==
  ASSUME PassTyped, item # <<>>
  PROVE  /\ Done \cup Ahead(source, item, feed, requests, targets)
              = Done \cup First \cup Ahead(source, Tail(item), feed, requests, targets)
         /\ Apart(source, Done, item, feed, requests, targets) =>
              /\ First \cap Done = {}
              /\ \A done : done = Done \cup First =>
                   Apart(source, done, Tail(item), feed, requests, targets)
<1>1. /\ ItemKeys(source, item) = First \cup ItemKeys(source, Tail(item))
      /\ OnceItem(item) => /\ OnceItem(Tail(item))
                           /\ First \cap ItemKeys(source, Tail(item)) = {}
  <2>1. item \in Seq(Recs)
    BY DEF PassTyped
  <2>2. /\ ItemKeys(source, item) = (IF Admits(source, Head(item).id) THEN {Head(item).id} ELSE {})
                                       \cup ItemKeys(source, Tail(item))
        /\ OnceItem(item) => /\ OnceItem(Tail(item))
                             /\ Head(item).id \notin ItemKeys(source, Tail(item))
    BY <2>1, ItemTail
  <2> QED BY <2>2 DEF First
<1> QED BY <1>1 DEF Ahead, Apart

\* The buffer takes it.
LEMMA KeptHolds ==
  ASSUME PassTyped, item # <<>> PROVE ToSet(Kept) = ToSet(buffer) \cup First
<1>1. CASE ~Admits(source, Head(item).id)
  BY <1>1 DEF Kept, First
<1>2. CASE Admits(source, Head(item).id)
  <2> DEFINE k == Head(item).id
  <2>1. k \in Keys /\ buffer \in Seq(Keys)
    BY KeptTyped DEF Recs, PassTyped
  <2>2. Kept = Append(buffer, k)
    BY <1>2 DEF Kept
  <2> HIDE DEF k
  <2>3. /\ Len(buffer) \in Nat /\ DOMAIN buffer = 1 .. Len(buffer)
        /\ DOMAIN Kept = 1 .. Len(buffer) + 1
        /\ Kept[Len(buffer) + 1] = k
        /\ \A i \in 1 .. Len(buffer) : Kept[i] = buffer[i]
    BY <2>1, <2>2
  <2>4. \A i \in DOMAIN Kept : i = Len(buffer) + 1 \/ i \in DOMAIN buffer
    BY <2>3
  <2>5. DOMAIN buffer \subseteq DOMAIN Kept /\ Len(buffer) + 1 \in DOMAIN Kept
    BY <2>3
  <2>6. ToSet(Kept) = ToSet(buffer) \cup {k}
    <3>1. ASSUME NEW x \in ToSet(Kept) PROVE x \in ToSet(buffer) \cup {k}
      BY <2>3, <2>4 DEF ToSet
    <3>2. ASSUME NEW x \in ToSet(buffer) \cup {k} PROVE x \in ToSet(Kept)
      BY <2>3, <2>5 DEF ToSet
    <3> QED BY <3>1, <3>2
  <2> QED BY <1>2, <2>6 DEF k, First
<1> QED BY <1>1, <1>2

\* Keys are finitely many, so are the records a pass stores.
LEMMA StoredFinite ==
  ASSUME CollectorAssumption, PassTyped, NEW p PROVE IsFiniteSet(StoredBy(p))
<1>1. \A row \in Rows : row.id \in Keys
  BY LoadAssumption DEF LoadAssumption
<1>2. StoredBy(p) \subseteq Keys
  BY <1>1 DEF StoredBy, PassTyped
<1> QED BY <1>2, FS_Subset DEF CollectorAssumption

\* A pass begins with everything ahead of it, and archives nothing by that.
LEMMA StartWalks ==
  ASSUME CollectorAssumption, PassTyped, NEW s \in Sources, StartPass(s)
  PROVE  /\ source' = s /\ Done' = {} /\ StoredBy(passes)' = {} /\ buffer' = <<>> /\ written' = 0
         /\ Ahead(source, item, feed, requests, targets)' = TargetKeys(s, Targets(s))
         /\ item' = <<>> /\ feed' = <<>> /\ requests' = <<>> /\ targets' = Targets(s)
<1>1. /\ source' = s /\ buffer' = <<>> /\ written' = 0 /\ archive' = archive
      /\ item' = <<>> /\ feed' = <<>> /\ requests' = <<>> /\ targets' = Targets(s)
      /\ passes' = passes + 1 /\ passes \in Nat
  BY DEF StartPass, PassTyped, CollectorAssumption
<1>2. \A row \in archive : row.pass # passes'
  <2>1. \A row \in Rows : row.pass \in 1 .. MaxPasses
    BY DEF CollectorAssumption
  <2>2. ASSUME NEW row \in archive PROVE row.pass # passes'
    <3>1. row.pass \in Nat /\ row.pass <= passes
      BY <2>1 DEF PassTyped
    <3> QED BY <1>1, <3>1
  <2> QED BY <2>2
<1>3. StoredBy(passes)' = {}
  BY <1>1, <1>2 DEF StoredBy
<1>4. Done' = {}
  BY <1>1, <1>3, NothingLeft DEF Done
<1>5. Ahead(source, item, feed, requests, targets)' = TargetKeys(s, Targets(s))
  BY <1>1, NothingLeft DEF Ahead
<1> QED BY <1>1, <1>3, <1>4, <1>5

\* Before the next target, request and item nothing is left at the lower levels,
\* and nothing is done by going on.
LEMMA WalkGoesOn ==
  ASSUME CollectorAssumption, PassTyped, Turn \/ Ask \/ Take
  PROVE  /\ source' = source /\ source \in Sources /\ Done' = Done
         /\ buffer' = buffer /\ written' = written /\ StoredBy(passes)' = StoredBy(passes)
         /\ Ahead(source, item, feed, requests, targets)'
              = Ahead(source, item, feed, requests, targets)
         /\ Apart(source, Done, item, feed, requests, targets) =>
              Apart(source, Done, item', feed', requests', targets')
<1>1. /\ source' = source /\ source \in Sources /\ passes' = passes /\ archive' = archive
      /\ buffer' = buffer /\ written' = written
  BY DEF Turn, Ask, Take, PassTyped, vars
<1>2. CASE Turn
  <2>1. /\ item = <<>> /\ feed = <<>> /\ requests = <<>> /\ targets # <<>>
        /\ requests' = Requests(source, Head(targets)) /\ targets' = Tail(targets)
        /\ item' = <<>> /\ feed' = <<>> /\ targets \in Seq(TargetType(source))
    BY <1>2 DEF Turn, PassTyped
  <2> QED BY <1>1, <2>1, NextTarget DEF Done, StoredBy
<1>3. CASE Ask
  <2>1. /\ item = <<>> /\ feed = <<>> /\ requests # <<>>
        /\ feed' = Answer(source, Head(requests)) /\ requests' = Tail(requests)
        /\ item' = <<>> /\ targets' = targets /\ requests \in Seq(RequestType(source))
    BY <1>3 DEF Ask, PassTyped
  <2> QED BY <1>1, <2>1, NextRequest DEF Done, StoredBy
<1>4. CASE Take
  <2>1. /\ item = <<>> /\ feed # <<>> /\ item' = Head(feed) /\ feed' = Tail(feed)
        /\ requests' = requests /\ targets' = targets /\ feed \in Seq(Seq(Recs))
    BY <1>4 DEF Take, PassTyped
  <2> QED BY <1>1, <2>1, NextItem DEF Done, StoredBy
<1> QED BY <1>2, <1>3, <1>4

\* A record goes to the buffer or into an object: either way it is done.
LEMMA KeepWalks ==
  ASSUME CollectorAssumption, PassTyped, Keep, source' # "none"
  PROVE  /\ source' = source /\ item # <<>> /\ item' = Tail(item)
         /\ feed' = feed /\ requests' = requests /\ targets' = targets
         /\ Done' = ToSet(Kept) \cup StoredBy(passes)
         /\ \/ buffer' = Kept /\ written' = written /\ StoredBy(passes)' = StoredBy(passes)
            \/ /\ buffer' = <<>> /\ written' = written + Len(Kept)
               /\ StoredBy(passes)' = StoredBy(passes) \cup ToSet(Kept)
<1>1. item # <<>> /\ passes' = passes
  BY DEF Keep
<1>2. CASE /\ Write(Kept) /\ buffer' = <<>> /\ item' = Tail(item)
           /\ UNCHANGED <<source, targets, requests, feed, attempts, reported, faults>>
  <2>1. StoredBy(passes)' = StoredBy(passes) \cup ToSet(Kept)
    BY <1>1, <1>2, WriteStores DEF Write
  <2>2. Done' = ToSet(Kept) \cup StoredBy(passes)
    BY <1>2, <2>1, NothingLeft DEF Done
  <2> QED BY <1>1, <1>2, <2>1, <2>2 DEF Write
<1>3. CASE /\ buffer' = Kept /\ item' = Tail(item)
           /\ UNCHANGED <<archive, source, targets, requests, feed, attempts, written,
                          reported, faults>>
  <2>1. StoredBy(passes)' = StoredBy(passes)
    BY <1>1, <1>3 DEF StoredBy
  <2> QED BY <1>1, <1>3, <2>1 DEF Done
<1> QED BY <1>2, <1>3 DEF Keep, UploadFails, Ends

\* A pass that ends normally has archived all it had.
LEMMA EndWalks ==
  ASSUME CollectorAssumption, PassTyped, EndPass, reported' # reported
  PROVE  /\ source # "none" /\ passes \in 1 .. MaxPasses
         /\ reported' = [reported EXCEPT ![passes] =
              [source |-> source, total |-> written + Len(buffer)]]
         /\ Ended' = Ended \cup {passes} /\ passes' = passes
         /\ Ahead(source, item, feed, requests, targets) = {}
         /\ StoredBy(passes)' = Done
<1>1. /\ source # "none" /\ passes \in 1 .. MaxPasses /\ Write(buffer) /\ passes' = passes
      /\ item = <<>> /\ feed = <<>> /\ requests = <<>> /\ targets = <<>>
      /\ reported' = [reported EXCEPT ![passes] =
           [source |-> source, total |-> written + Len(buffer)]]
  BY DEF EndPass, UploadFails, Write, PassTyped
<1>2. StoredBy(passes)' = Done
  BY <1>1, WriteStores DEF Write, Done
<1>3. Ended' = Ended \cup {passes}
  <2>1. /\ \A p \in 1 .. MaxPasses : p # passes => reported'[p] = reported[p]
        /\ reported'[passes].source # "none"
    BY <1>1 DEF PassTyped
  <2> QED BY <1>1, <2>1 DEF Ended
<1>4. Ahead(source, item, feed, requests, targets) = {}
  BY <1>1, NothingLeft DEF Ahead
<1> QED BY <1>1, <1>2, <1>3, <1>4

\* A step either keeps the pass that runs, or begins one, or ends it; only its
\* normal end is reported.
LEMMA StepsOfPass ==
  ASSUME CollectorAssumption, PassTyped, [CollectNext]_collectVars, source' # "none"
  PROVE  \/ \E s \in Sources : StartPass(s)
         \/ Turn \/ Ask \/ Take
         \/ Keep
         \/ UNCHANGED <<archive, source, passes, targets, requests, feed, item, buffer, written>>
<1>1. ASSUME NEW l \in Loaders, Load(l)
      PROVE  UNCHANGED <<archive, source, passes, targets, requests, feed, item, buffer, written>>
  BY <1>1 DEF Load, LoadStep, StartLoad, LoadLanding, MergeStaging, LoadFails, walk, ahead
<1>2. CASE AskFails
  BY <1>2 DEF AskFails, Ends, vars, ahead
<1>3. ~EndPass /\ ~Crash
  BY DEF EndPass, Crash, UploadFails, Ends
<1>4. CASE UNCHANGED collectVars
  BY <1>4 DEF collectVars, vars, walk, ahead
<1> QED BY <1>1, <1>2, <1>3, <1>4 DEF CollectNext, Sources

\* Nothing but the end of a pass reports one.
LEMMA EndedOnlyByEnd ==
  ASSUME CollectorAssumption, PassTyped, [CollectNext]_collectVars, reported' # reported
  PROVE  EndPass
<1>1. ASSUME NEW s \in Sources, StartPass(s) PROVE reported' = reported
  BY <1>1 DEF StartPass
<1>2. ASSUME NEW l \in Loaders, Load(l) PROVE reported' = reported
  BY <1>2 DEF Load, walk
<1>3. CASE Turn \/ Ask \/ AskFails \/ Take \/ Crash
  BY <1>3 DEF Turn, Ask, AskFails, Take, Crash
<1>4. CASE Keep
  BY <1>4 DEF Keep, UploadFails
<1>5. CASE UNCHANGED collectVars
  BY <1>5 DEF collectVars, walk
<1> QED BY <1>1, <1>2, <1>3, <1>4, <1>5 DEF CollectNext, Sources

\* It holds at the beginning, and every step keeps it.
LEMMA InitCovers == ASSUME CollectInit PROVE PassCovers
<1>1. \A p \in 1 .. MaxPasses : reported[p].source = "none"
  BY DEF CollectInit
<1> QED BY <1>1 DEF CollectInit, PassCovers, Ended

LEMMA StepCovers ==
  ASSUME CollectorAssumption, PassTyped, PassCovers, [CollectNext]_collectVars
  PROVE  PassCovers'
<1>1. ASSUME source' # "none"
      PROVE  (Done \cup Ahead(source, item, feed, requests, targets))' = Reached[source']
  <2>1. ASSUME NEW s \in Sources, StartPass(s)
        PROVE  (Done \cup Ahead(source, item, feed, requests, targets))' = Reached[source']
    BY <2>1, StartWalks, WalkReached
  <2>2. CASE Turn \/ Ask \/ Take
    <3>1. /\ source' = source /\ Done' = Done
          /\ Ahead(source, item, feed, requests, targets)'
               = Ahead(source, item, feed, requests, targets)
      BY <2>2, WalkGoesOn
    <3> QED BY <1>1, <3>1 DEF PassCovers
  <2>3. CASE Keep
    <3>1. /\ source' = source /\ item # <<>> /\ item' = Tail(item)
          /\ feed' = feed /\ requests' = requests /\ targets' = targets
          /\ Done' = ToSet(Kept) \cup StoredBy(passes)
      BY <1>1, <2>3, KeepWalks
    <3>2. ToSet(Kept) = ToSet(buffer) \cup First
      BY <3>1, KeptHolds
    <3>3. Done' = Done \cup First
      BY <3>1, <3>2 DEF Done
    <3>4. Done \cup Ahead(source, item, feed, requests, targets)
            = Done \cup First \cup Ahead(source, Tail(item), feed, requests, targets)
      BY <3>1, NextRecord
    <3>5. (Done \cup Ahead(source, item, feed, requests, targets))'
            = Done \cup First \cup Ahead(source, Tail(item), feed, requests, targets)
      BY <3>1, <3>3
    <3> QED BY <1>1, <3>1, <3>4, <3>5 DEF PassCovers
  <2>4. CASE UNCHANGED <<archive, source, passes, targets, requests, feed, item, buffer, written>>
    <3>1. Done' = Done /\ source' = source
      BY <2>4 DEF Done, StoredBy
    <3>2. Ahead(source, item, feed, requests, targets)'
            = Ahead(source, item, feed, requests, targets)
      BY <2>4
    <3> QED BY <1>1, <3>1, <3>2 DEF PassCovers
  <2> QED BY <1>1, <2>1, <2>2, <2>3, <2>4, StepsOfPass
<1>2. ASSUME NEW p \in Ended' PROVE StoredBy(p)' = Reached[reported'[p].source]
  <2>1. CASE p \in Ended
    <3>1. StoredBy(p)' = StoredBy(p) /\ reported'[p] = reported[p]
      BY <2>1, OthersStay
    <3>2. StoredBy(p) = Reached[reported[p].source]
      BY <2>1 DEF PassCovers
    <3> QED BY <3>1, <3>2
  <2>2. CASE p \notin Ended
    <3>1. reported' # reported
      BY <1>2, <2>2 DEF Ended
    <3>2. EndPass
      BY <3>1, EndedOnlyByEnd
    <3>3. /\ source # "none" /\ passes \in 1 .. MaxPasses /\ passes' = passes
          /\ reported' = [reported EXCEPT ![passes] =
               [source |-> source, total |-> written + Len(buffer)]]
          /\ Ended' = Ended \cup {passes}
          /\ Ahead(source, item, feed, requests, targets) = {}
          /\ StoredBy(passes)' = Done
      BY <3>1, <3>2, EndWalks
    <3>4. p = passes
      BY <1>2, <2>2, <3>3
    <3>5. reported'[passes].source = source
      BY <3>3 DEF PassTyped
    <3>6. Done = Reached[source]
      BY <3>3 DEF PassCovers
    <3>7. StoredBy(p)' = StoredBy(passes)'
      BY <3>3, <3>4 DEF StoredBy
    <3>8. StoredBy(p)' = Done
      BY <3>3, <3>7
    <3>9. reported'[p].source = source
      BY <3>4, <3>5
    <3> QED BY <3>6, <3>8, <3>9
  <2> QED BY <2>1, <2>2
<1> QED BY <1>1, <1>2 DEF PassCovers

-----------------------------------------------------------------------------
(* It reports their number *)

\* A record that is ahead is not done and is not ahead twice; the total counts
\* what is stored, and the buffer will add its length to it.
PassCounts ==
  /\ source # "none" =>
       /\ Apart(source, Done, item, feed, requests, targets)
       /\ IsInjective(buffer) /\ ToSet(buffer) \cap StoredBy(passes) = {}
       /\ written = Cardinality(StoredBy(passes))
  /\ \A p \in Ended : reported[p].total = Cardinality(StoredBy(p))

\* A sequence without repetitions is as long as its elements are many.
LEMMA InjectiveLen ==
  ASSUME NEW S, NEW q \in Seq(S), IsInjective(q)
  PROVE  IsFiniteSet(ToSet(q)) /\ Cardinality(ToSet(q)) = Len(q)
<1> DEFINE n == Len(q)
           T == ToSet(q)
<1>1. n \in Nat /\ DOMAIN q = 1 .. n /\ q \in [1 .. n -> T]
  <2>1. n \in Nat /\ DOMAIN q = 1 .. n /\ q \in [1 .. n -> S]
    OBVIOUS
  <2>2. \A i \in 1 .. n : q[i] \in T
    BY <2>1 DEF ToSet
  <2> QED BY <2>1, <2>2
<1>2. \A x \in T : \E i \in 1 .. n : q[i] = x
  BY <1>1 DEF ToSet
<1> HIDE DEF n, T
<1>3. q \in Injection(1 .. n, T) /\ q \in Surjection(1 .. n, T)
  BY <1>1, <1>2 DEF Injection, Surjection
<1>4. IsFiniteSet(1 .. n) /\ Cardinality(1 .. n) = n
  BY <1>1, UpTo
<1>5. IsFiniteSet(T) /\ Cardinality(T) = Cardinality(1 .. n)
  BY <1>3, <1>4, FS_Surjection
<1> QED BY <1>4, <1>5 DEF n, T

\* The buffer takes an admitted record that is new to it.
LEMMA KeptOnce ==
  ASSUME PassTyped, item # <<>>, IsInjective(buffer),
         Admits(source, Head(item).id) => Head(item).id \notin ToSet(buffer)
  PROVE  IsInjective(Kept)
<1>1. CASE ~Admits(source, Head(item).id)
  BY <1>1 DEF Kept
<1>2. CASE Admits(source, Head(item).id)
  <2> DEFINE k == Head(item).id
             n == Len(buffer)
  <2>1. k \in Keys /\ buffer \in Seq(Keys)
    BY KeptTyped DEF Recs, PassTyped
  <2>2. Kept = Append(buffer, k) /\ k \notin ToSet(buffer)
    BY <1>2 DEF Kept
  <2> HIDE DEF k
  <2>3. /\ n \in Nat /\ DOMAIN buffer = 1 .. n /\ DOMAIN Kept = 1 .. n + 1
        /\ Kept[n + 1] = k
        /\ \A i \in 1 .. n : Kept[i] = buffer[i]
    BY <2>1, <2>2
  <2>4. \A i \in DOMAIN Kept : i = n + 1 \/ i \in 1 .. n
    BY <2>3
  <2>5. \A i \in 1 .. n : Kept[i] # k
    BY <2>2, <2>3 DEF ToSet
  <2>6. \A i, j \in 1 .. n : buffer[i] = buffer[j] => i = j
    BY <2>3 DEF IsInjective
  <2> HIDE DEF n
  <2> QED BY <2>3, <2>4, <2>5, <2>6 DEF IsInjective
<1> QED BY <1>1, <1>2

\* A sequence that shares nothing with a set adds its length to it.
LEMMA WriteCounts ==
  ASSUME NEW S, NEW q \in Seq(S), IsInjective(q), NEW old, IsFiniteSet(old),
         NEW new, new = old \cup ToSet(q), old \cap ToSet(q) = {}
  PROVE  Cardinality(new) = Cardinality(old) + Len(q)
<1>1. IsFiniteSet(ToSet(q)) /\ Cardinality(ToSet(q)) = Len(q) /\ Len(q) \in Nat
  BY InjectiveLen
<1>2. Cardinality(old) \in Nat
  BY FS_CardinalityType
<1>3. Cardinality(old \cap ToSet(q)) = 0
  BY FS_EmptySet
<1>4. Cardinality(old \cup ToSet(q))
        = Cardinality(old) + Cardinality(ToSet(q)) - Cardinality(old \cap ToSet(q))
  BY <1>1, FS_Union
<1> QED BY <1>1, <1>2, <1>3, <1>4

\* It holds at the beginning, and every step keeps it.
LEMMA InitCounts == ASSUME CollectInit PROVE PassCounts
<1>1. \A p \in 1 .. MaxPasses : reported[p].source = "none"
  BY DEF CollectInit
<1> QED BY <1>1 DEF CollectInit, PassCounts, Ended

LEMMA StepCounts ==
  ASSUME CollectorAssumption, AnswersOnce, PassTyped, PassCounts,
         [CollectNext]_collectVars
  PROVE  PassCounts'
<1>1. ASSUME source' # "none"
      PROVE  /\ Apart(source', Done', item', feed', requests', targets')
             /\ IsInjective(buffer') /\ ToSet(buffer') \cap StoredBy(passes)' = {}
             /\ written' = Cardinality(StoredBy(passes)')
  <2>1. ASSUME NEW s \in Sources, StartPass(s)
        PROVE  /\ Apart(source', Done', item', feed', requests', targets')
               /\ IsInjective(buffer') /\ ToSet(buffer') \cap StoredBy(passes)' = {}
               /\ written' = Cardinality(StoredBy(passes)')
    <3>1. /\ source' = s /\ Done' = {} /\ StoredBy(passes)' = {} /\ buffer' = <<>>
          /\ written' = 0 /\ item' = <<>> /\ feed' = <<>> /\ requests' = <<>>
          /\ targets' = Targets(s)
      BY <2>1, StartWalks
    <3>2. OnceTargets(s, Targets(s))
      BY WalkOnce
    <3>3. /\ ItemKeys(s, <<>>) = {} /\ FeedKeys(s, <<>>) = {} /\ RequestKeys(s, <<>>) = {}
          /\ OnceItem(<<>>) /\ OnceFeed(s, <<>>) /\ OnceRequests(s, <<>>)
          /\ ToSet(<<>>) = {} /\ IsInjective(<<>>)
      BY NothingLeft
    <3>4. Apart(s, {}, <<>>, <<>>, <<>>, Targets(s))
      BY <3>2, <3>3 DEF Apart
    <3> QED BY <3>1, <3>3, <3>4, FS_EmptySet
  <2>2. CASE Turn \/ Ask \/ Take
    <3>1. /\ source' = source /\ Done' = Done /\ buffer' = buffer /\ written' = written
          /\ StoredBy(passes)' = StoredBy(passes)
          /\ Apart(source, Done, item, feed, requests, targets) =>
               Apart(source', Done, item', feed', requests', targets')
      BY <2>2, WalkGoesOn
    <3> QED BY <1>1, <3>1 DEF PassCounts
  <2>3. CASE Keep
    <3>1. /\ source' = source /\ item # <<>> /\ item' = Tail(item)
          /\ feed' = feed /\ requests' = requests /\ targets' = targets
          /\ Done' = ToSet(Kept) \cup StoredBy(passes)
          /\ \/ buffer' = Kept /\ written' = written /\ StoredBy(passes)' = StoredBy(passes)
             \/ /\ buffer' = <<>> /\ written' = written + Len(Kept)
                /\ StoredBy(passes)' = StoredBy(passes) \cup ToSet(Kept)
      BY <1>1, <2>3, KeepWalks
    <3>2. /\ Apart(source, Done, item, feed, requests, targets)
          /\ IsInjective(buffer) /\ ToSet(buffer) \cap StoredBy(passes) = {}
          /\ written = Cardinality(StoredBy(passes))
      BY <1>1, <3>1 DEF PassCounts
    <3>3. ToSet(Kept) = ToSet(buffer) \cup First
      BY <3>1, KeptHolds
    <3>4. Done' = Done \cup First
      BY <3>1, <3>3 DEF Done
    <3>5. First \cap Done = {}
      BY <3>1, <3>2, NextRecord
    <3>6. \A done : done = Done \cup First =>
            Apart(source, done, Tail(item), feed, requests, targets)
      BY <3>1, <3>2, NextRecord
    <3>7. Apart(source', Done', item', feed', requests', targets')
      BY <3>1, <3>4, <3>6
    <3>8. IsInjective(Kept) /\ Kept \in Seq(Keys)
      BY <3>1, <3>2, <3>5, KeptOnce, KeptTyped DEF Done, First
    <3>9. ToSet(Kept) \cap StoredBy(passes) = {}
      BY <3>2, <3>3, <3>5 DEF Done
    <3>10. CASE buffer' = Kept /\ written' = written /\ StoredBy(passes)' = StoredBy(passes)
      BY <3>2, <3>7, <3>8, <3>9, <3>10
    <3>11. CASE /\ buffer' = <<>> /\ written' = written + Len(Kept)
                /\ StoredBy(passes)' = StoredBy(passes) \cup ToSet(Kept)
      <4>1. Cardinality(StoredBy(passes)') = Cardinality(StoredBy(passes)) + Len(Kept)
        <5>1. IsFiniteSet(StoredBy(passes))
          BY StoredFinite
        <5> QED BY <3>8, <3>9, <3>11, <5>1, WriteCounts
      <4>2. written' = Cardinality(StoredBy(passes)')
        BY <3>2, <3>11, <4>1
      <4> QED BY <3>7, <3>11, <4>2, NothingLeft
    <3> QED BY <3>1, <3>10, <3>11
  <2>4. CASE UNCHANGED <<archive, source, passes, targets, requests, feed, item, buffer, written>>
    <3>1. Done' = Done /\ StoredBy(passes)' = StoredBy(passes)
      BY <2>4 DEF Done, StoredBy
    <3> QED BY <1>1, <2>4, <3>1 DEF PassCounts
  <2> QED BY <1>1, <2>1, <2>2, <2>3, <2>4, StepsOfPass
<1>2. ASSUME NEW p \in Ended' PROVE reported'[p].total = Cardinality(StoredBy(p)')
  <2>1. CASE p \in Ended
    <3>1. StoredBy(p)' = StoredBy(p) /\ reported'[p] = reported[p]
      BY <2>1, OthersStay
    <3>2. reported[p].total = Cardinality(StoredBy(p))
      BY <2>1 DEF PassCounts
    <3> QED BY <3>1, <3>2
  <2>2. CASE p \notin Ended
    <3>1. reported' # reported
      BY <1>2, <2>2 DEF Ended
    <3>2. EndPass
      BY <3>1, EndedOnlyByEnd
    <3>3. /\ source # "none" /\ passes \in 1 .. MaxPasses /\ passes' = passes
          /\ reported' = [reported EXCEPT ![passes] =
               [source |-> source, total |-> written + Len(buffer)]]
          /\ Ended' = Ended \cup {passes}
          /\ StoredBy(passes)' = Done
      BY <3>1, <3>2, EndWalks
    <3>4. p = passes /\ reported'[passes].total = written + Len(buffer)
      BY <1>2, <2>2, <3>3 DEF PassTyped
    <3>5. Cardinality(Done) = Cardinality(StoredBy(passes)) + Len(buffer)
      <4>1. /\ buffer \in Seq(Keys) /\ IsInjective(buffer)
            /\ ToSet(buffer) \cap StoredBy(passes) = {}
        BY <3>3 DEF PassCounts, PassTyped
      <4>2. Done = StoredBy(passes) \cup ToSet(buffer)
        BY DEF Done
      <4>3. IsFiniteSet(StoredBy(passes))
        BY StoredFinite
      <4> QED BY <4>1, <4>2, <4>3, WriteCounts
    <3>6. written = Cardinality(StoredBy(passes))
      BY <3>3 DEF PassCounts
    <3>7. StoredBy(p)' = StoredBy(passes)'
      BY <3>3, <3>4 DEF StoredBy
    <3> QED BY <3>3, <3>4, <3>5, <3>6, <3>7
  <2> QED BY <2>1, <2>2
<1>3. /\ Done' = ToSet(buffer') \cup StoredBy(passes)'
      /\ ToSet(buffer)' = ToSet(buffer')
  BY DEF Done
<1> QED BY <1>1, <1>2, <1>3 DEF PassCounts

-----------------------------------------------------------------------------
(* A load that began after a pass had ended has listed its rows *)

WholeListed ==
  \A l \in Loaders : \A p \in whole[l] :
    p \in Ended /\ {row \in archive : row.pass = p} \subseteq listed[l]

\* Rows of an ended pass are complete when a load lists them, and stay so.
LEMMA StepListed ==
  ASSUME CollectorAssumption, LoadInv, PassTyped, WholeListed, whole \in [Loaders -> SUBSET Nat],
         [CollectNext]_collectVars
  PROVE  WholeListed' /\ whole' \in [Loaders -> SUBSET Nat]
<1>1. ASSUME NEW l \in Loaders, Load(l)
      PROVE  WholeListed' /\ whole' \in [Loaders -> SUBSET Nat]
  <2>1. /\ archive' = archive /\ reported' = reported /\ Ended' = Ended
        /\ Ended \subseteq Nat
    BY <1>1 DEF Load, LoadStep, StartLoad, LoadLanding, MergeStaging, LoadFails, walk, Ended,
                CollectorAssumption
  <2>2. CASE StartLoad(l)
    <3>1. listed' = [listed EXCEPT ![l] = archive] /\ at[l] # "loading" /\ at'[l] = "loading"
      BY <2>2 DEF StartLoad, Idle, LoadInv, TypeOK
    <3>2. whole' = [whole EXCEPT ![l] = Ended]
      BY <1>1, <3>1 DEF Load
    <3> QED BY <2>1, <3>1, <3>2 DEF WholeListed, LoadInv, TypeOK
  <2>3. CASE LoadLanding(l) \/ MergeStaging(l) \/ LoadFails(l)
    <3>1. listed' = listed /\ at'[l] # "loading"
      BY <2>3 DEF LoadLanding, MergeStaging, LoadFails, LoadInv, TypeOK
    <3>2. whole' = whole
      BY <1>1, <3>1 DEF Load
    <3> QED BY <2>1, <3>1, <3>2 DEF WholeListed
  <2> QED BY <1>1, <2>2, <2>3 DEF Load, LoadStep
<1>2. CASE whole' = whole /\ listed' = listed
  <2>1. ASSUME NEW l \in Loaders, NEW p \in whole[l]
        PROVE  p \in Ended' /\ {row \in archive' : row.pass = p} \subseteq listed'[l]
    <3>1. p \in Ended /\ {row \in archive : row.pass = p} \subseteq listed[l]
      BY DEF WholeListed
    <3> QED BY <1>2, <3>1, OthersStay
  <2> QED BY <1>2, <2>1 DEF WholeListed
<1>3. ASSUME NEW s \in Sources, StartPass(s) PROVE whole' = whole /\ listed' = listed
  BY <1>3 DEF StartPass, loading
<1>4. CASE Turn \/ Ask \/ AskFails \/ Take \/ Keep \/ EndPass \/ Crash
  BY <1>2, <1>4 DEF Turn, Ask, AskFails, Take, Keep, EndPass, Crash, vars, loading
<1>5. CASE UNCHANGED collectVars
  BY <1>2, <1>5 DEF collectVars, vars
<1> QED BY <1>1, <1>2, <1>3, <1>4, <1>5 DEF CollectNext, Sources

-----------------------------------------------------------------------------
(* Theorems about the collectors *)

\* To the load step the passes are an archive that grows: every behaviour of the
\* collectors and the load step together is one of LoadSpec, so that whatever is
\* proved of the load step holds behind the collectors.
THEOREM CollectorsAreArchive == CollectSpec => LoadSpec /\ []PassTyped
<1>1. CollectInit => Init /\ PassTyped
  BY InitTyped, CollectorAssumption DEF CollectInit
<1>2. PassTyped /\ [CollectNext]_collectVars => PassTyped' /\ [Next]_vars
  BY StepTyped, StepIsLoadStep, CollectorAssumption
<1> QED BY <1>1, <1>2, PTL DEF CollectSpec, LoadSpec

\* A pass that ends normally has archived exactly what its API exposes of the
\* window, and reports that number, for every answer of the APIs that is below
\* the search ceiling and repeats nothing, every slice length, batch size, retry
\* budget and number of passes, whatever failed before.
THEOREM PassesComplete == CollectSpec /\ AnswersOnce => []PassComplete
<1> SUFFICES ASSUME AnswersOnce PROVE CollectSpec => []PassComplete
  OBVIOUS
<1>1. CollectInit => PassCovers /\ PassCounts
  BY InitCovers, InitCounts
<1>2. PassTyped /\ PassCovers /\ PassCounts
        /\ [CollectNext]_collectVars => PassCovers' /\ PassCounts'
  BY StepCovers, StepCounts, CollectorAssumption
<1>3. PassCovers /\ PassCounts => PassComplete
  BY DEF PassCovers, PassCounts, PassComplete
<1> QED BY <1>1, <1>2, <1>3, CollectorsAreArchive, PTL DEF CollectSpec

\* From the API to raw_staging: a load that no other overlapped leaves there
\* every record of the window that a pass completed before it saw, at least as
\* fresh as that pass saw it. It needs nothing of how often an API repeats itself.
THEOREM RecordsStaged == CollectSpec => []StagedWhole
<1>1. CollectInit => PassCovers /\ WholeListed /\ whole \in [Loaders -> SUBSET Nat]
  BY InitCovers DEF CollectInit, WholeListed
<1>2. LoadInv /\ PassTyped /\ PassCovers
        /\ WholeListed /\ whole \in [Loaders -> SUBSET Nat] /\ [CollectNext]_collectVars
        => PassCovers' /\ WholeListed' /\ (whole \in [Loaders -> SUBSET Nat])'
  BY StepCovers, StepListed, CollectorAssumption
<1>3. LoadInv /\ PassTyped /\ PassCovers /\ WholeListed => StagedWhole
  <2> SUFFICES ASSUME LoadInv, PassTyped, PassCovers, WholeListed,
                      NEW l \in Loaders, at[l] = "done", alone[l],
                      NEW p \in whole[l], NEW k \in Reached[reported[p].source]
               PROVE  staging[k] # Absent /\ staging[k].at >= Second[p]
    BY DEF StagedWhole
  <2>1. p \in Ended /\ {row \in archive : row.pass = p} \subseteq listed[l]
    BY DEF WholeListed
  <2>2. PICK row \in archive : row.pass = p /\ row.id = k
    BY <2>1 DEF PassCovers, StoredBy
  <2>3. row.at = Second[p]
    BY <2>2, CollectorAssumption DEF PassTyped, CollectorAssumption
  <2>4. staging[row.id] # Absent /\ staging[row.id].at >= row.at
    BY <2>1, <2>2 DEF LoadInv, LoadCovers, Covers
  <2> QED BY <2>2, <2>3, <2>4
<1> QED BY <1>1, <1>2, <1>3, CollectorsAreArchive, LoadInvariant, PTL DEF CollectSpec

\* No submission of the window is behind as many newer ones as a search returns.
WithinReach ==
  \A r \in ToSet(Subreddits) : \A i \in DOMAIN Posts[r] :
    InWindow(Posts[r][i], WindowFrom, WindowTo) => i <= Ceiling

\* Everything the APIs have of the window, and a pass that ends with it.
Exposed == Within(AllPosts)
WindowComplete ==
  \A p \in Ended :
    /\ StoredBy(p) = Exposed[reported[p].source]
    /\ reported[p].total = Cardinality(Exposed[reported[p].source])

\* Then the searches return all the API has of the window.
LEMMA ReachExposes ==
  ASSUME CollectorAssumption, WithinReach
  PROVE  /\ Reached = Exposed
         /\ \A r \in ToSet(Subreddits) : \A k \in ToSet(Posts[r]) :
              InWindow(k, WindowFrom, WindowTo) => k \in Newest(r)
<1>1. \A r \in ToSet(Subreddits) : \A k \in ToSet(Posts[r]) :
        InWindow(k, WindowFrom, WindowTo) => k \in Newest(r)
  BY DEF WithinReach, ToSet, Newest
<1>2. \A r \in ToSet(Subreddits) : Newest(r) \subseteq ToSet(Posts[r])
  BY NewestKnown
<1> DEFINE found == UNION {Newest(r) : r \in ToSet(Subreddits)}
<1>3. {k \in found : InWindow(k, WindowFrom, WindowTo)}
        = {k \in AllPosts : InWindow(k, WindowFrom, WindowTo)}
  BY <1>1, <1>2 DEF AllPosts
<1> HIDE DEF found
<1>4. Within(found) = Within(AllPosts)
  BY <1>3 DEF Within
<1> QED BY <1>1, <1>4 DEF Reached, Exposed, found

\* A slice is a part of the window.
LEMMA SliceWithin ==
  ASSUME CollectorAssumption, NEW slice \in ToSet(TimeSlices), NEW k \in Keys,
         InWindow(k, slice.from, slice.to)
  PROVE  InWindow(k, WindowFrom, WindowTo)
<1>1. PICK i \in DOMAIN TimeSlices : slice = TimeSlices[i]
  BY DEF ToSet
<1> QED BY <1>1, SlicesCover

\* The window has to be within reach of one search, whatever the length of the
\* slices: then a pass that ends has archived all the API has of the window.
THEOREM WindowsComplete == CollectSpec /\ AnswersOnce /\ WithinReach => []WindowComplete
<1> SUFFICES ASSUME AnswersOnce, WithinReach PROVE CollectSpec => []WindowComplete
  OBVIOUS
<1>1. PassComplete => WindowComplete
  BY ReachExposes, CollectorAssumption DEF PassComplete, WindowComplete
<1> QED BY <1>1, PassesComplete, PTL

\* The reason the code gives for its slices: "Reddit search returns at most ~1000
\* results per query, so the window is walked in narrow slices to stay well
\* under that ceiling" (reddit/main.py:36): a slice with fewer matches than the
\* ceiling is archived whole by a pass that ends. It is not so in general: the
\* slice is no part of the query (reddit/main.py:252).
SliceComplete ==
  \A p \in Ended : reported[p].source = "reddit" =>
    \A r \in ToSet(Subreddits), slice \in ToSet(TimeSlices) :
      LET matches == {k \in ToSet(Posts[r]) : InWindow(k, slice.from, slice.to)}
      IN Cardinality(matches) < Ceiling => matches \subseteq StoredBy(p)
\* A pass over such a window keeps the promise of the comment above SLICE_HOURS,
\* that a slice below the ceiling is archived whole: it is the window's size
\* that keeps it, not the slice's.
THEOREM SlicesComplete == CollectSpec /\ WithinReach => []SliceComplete
<1> SUFFICES ASSUME WithinReach PROVE CollectSpec => []SliceComplete
  OBVIOUS
<1>1. CollectInit => PassCovers
  BY InitCovers
<1>2. PassTyped /\ PassCovers /\ [CollectNext]_collectVars => PassCovers'
  BY StepCovers, CollectorAssumption
<1>3. PassCovers => SliceComplete
  <2> SUFFICES ASSUME PassCovers, NEW p \in Ended, reported[p].source = "reddit",
                      NEW r \in ToSet(Subreddits), NEW slice \in ToSet(TimeSlices),
                      NEW k \in ToSet(Posts[r]), InWindow(k, slice.from, slice.to)
               PROVE  k \in StoredBy(p)
    BY DEF SliceComplete
  <2>1. k \in Keys
    BY NewestKnown, CollectorAssumption
  <2>2. InWindow(k, WindowFrom, WindowTo) /\ k \in Newest(r)
    BY <2>1, SliceWithin, ReachExposes, CollectorAssumption
  <2>3. k \in Reached["reddit"]
    BY <2>2 DEF Reached, Within
  <2> QED BY <2>3 DEF PassCovers
<1> QED BY <1>1, <1>2, <1>3, CollectorsAreArchive, PTL DEF CollectSpec
===============================================================================
