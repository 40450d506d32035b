---------------------------- MODULE GoldSet_proofs ----------------------------
(* The gold set, for all candidates, labels, chunk sizes and seat numbers:   *)
(* its files are well typed, held-out rows stay out of training, and the two *)
(* rounds of seating fill holdout and dev with rows that a human has read.   *)
EXTENDS GoldSet, FiniteSetTheorems, SequenceTheorems, TLAPS

\* min: how many of n seats a set of m rows fills.
Filled(n, m) == IF n <= m THEN n ELSE m

\* The rows that a seating puts into split s.
Seated(a, s) == {i \in DOMAIN a : a[i] = s}

-----------------------------------------------------------------------------
(* Seating *)

\* pick_stratified picks exactly as many rows as there are seats, or all.
LEMMA PickSize ==
  ASSUME NEW label, NEW rows, IsFiniteSet(rows), NEW n \in Nat,
         NEW c \in PickStratified(label, rows, n)
  PROVE  c \subseteq rows /\ IsFiniteSet(c) /\ Cardinality(c) = Filled(n, Cardinality(rows))
<1>0. Cardinality(rows) \in Nat
  BY FS_CardinalityType
<1>1. CASE n >= Cardinality(rows)
  BY <1>0, <1>1 DEF PickStratified, Filled
<1>2. CASE ~(n >= Cardinality(rows))
  <2>1. c \in TakeRoundRobin(label, rows, n)
    BY <1>2 DEF PickStratified
  <2>2. c \in kSubset(n, rows)
    BY <2>1 DEF TakeRoundRobin
  <2>3. c \in SUBSET rows /\ Cardinality(c) = n
    BY <2>2 DEF kSubset
  <2>4. IsFiniteSet(c)
    BY <2>3, FS_Subset
  <2> QED BY <1>0, <1>2, <2>3, <2>4 DEF Filled
<1> QED BY <1>1, <1>2

\* allocate_new_splits: the seats that are filled, holdout before dev.
LEMMA AllocationSizes ==
  ASSUME NEW label, NEW rows, IsFiniteSet(rows), NEW holdout \in Nat, NEW dev \in Nat,
         NEW a \in AllocateNewSplits(label, rows, holdout, dev)
  PROVE  /\ a \in [rows -> Splits]
         /\ IsFiniteSet(Seated(a, "holdout")) /\ IsFiniteSet(Seated(a, "dev"))
         /\ Cardinality(rows) \in Nat
         /\ Cardinality(Seated(a, "holdout")) = Filled(holdout, Cardinality(rows))
         /\ Cardinality(Seated(a, "dev"))
              = Filled(dev, Cardinality(rows) - Filled(holdout, Cardinality(rows)))
         /\ Cardinality(Seated(a, "holdout")) + Cardinality(Seated(a, "dev"))
              + Cardinality(Seated(a, "train")) = Cardinality(rows)
         /\ IsFiniteSet(Seated(a, "train"))
<1> DEFINE seats(h, d) ==
             [i \in rows |-> IF i \in h THEN "holdout" ELSE IF i \in d THEN "dev" ELSE "train"]
           after(h) == {seats(h, d) : d \in PickStratified(label, rows \ h, dev)}
<1>0. \E h \in PickStratified(label, rows, holdout) : a \in after(h)
  <2>1. a \in UNION {after(h) : h \in PickStratified(label, rows, holdout)}
    BY DEF AllocateNewSplits
  <2> HIDE DEF after
  <2> QED BY <2>1
<1>1. PICK h \in PickStratified(label, rows, holdout) : a \in after(h)
  BY <1>0
<1>2. PICK d \in PickStratified(label, rows \ h, dev) : a = seats(h, d)
  BY <1>1
<1>3. h \subseteq rows /\ IsFiniteSet(h) /\ Cardinality(h) = Filled(holdout, Cardinality(rows))
  BY PickSize
<1>4. /\ IsFiniteSet(rows \ h)
      /\ Cardinality(rows \ h) = Cardinality(rows) - Cardinality(h)
  <2>1. rows \cap h = h
    BY <1>3
  <2> QED BY <2>1, FS_Difference
<1>5. d \subseteq rows \ h /\ IsFiniteSet(d) /\ Cardinality(d) = Filled(dev, Cardinality(rows \ h))
  BY <1>4, PickSize
<1>6. /\ IsFiniteSet((rows \ h) \ d)
      /\ Cardinality((rows \ h) \ d) = Cardinality(rows \ h) - Cardinality(d)
  <2>1. (rows \ h) \cap d = d
    BY <1>5
  <2> QED BY <1>4, <2>1, FS_Difference
<1>7. /\ Seated(a, "holdout") = h /\ Seated(a, "dev") = d
      /\ Seated(a, "train") = (rows \ h) \ d
  BY <1>2, <1>3, <1>5 DEF Seated
<1>8. a \in [rows -> Splits]
  BY <1>2 DEF Splits
<1>9. Cardinality(rows) \in Nat /\ Cardinality(h) \in Nat /\ Cardinality(d) \in Nat
  BY <1>3, <1>5, FS_CardinalityType
<1>10. Cardinality(h) + Cardinality(d) + Cardinality((rows \ h) \ d) = Cardinality(rows)
  BY <1>4, <1>6, <1>9
<1> QED BY <1>3, <1>4, <1>5, <1>6, <1>7, <1>8, <1>9, <1>10

\* Rows that include every seat are as many as the seats, or all rows.
LEMMA FlaggedEnough ==
  ASSUME NEW label, NEW rows, IsFiniteSet(rows), NEW holdout \in Nat, NEW dev \in Nat,
         NEW a \in AllocateNewSplits(label, rows, holdout, dev),
         NEW flagged \in SUBSET rows,
         Seated(a, "holdout") \cup Seated(a, "dev") \subseteq flagged
  PROVE  Cardinality(flagged) >= holdout + dev \/ flagged = rows
<1> DEFINE H == Seated(a, "holdout")
           D == Seated(a, "dev")
           n == Cardinality(rows)
<1>1. /\ a \in [rows -> Splits] /\ IsFiniteSet(H) /\ IsFiniteSet(D) /\ n \in Nat
      /\ Cardinality(H) = Filled(holdout, n)
      /\ Cardinality(D) = Filled(dev, n - Filled(holdout, n))
  BY AllocationSizes DEF Filled
<1>2. H \cap D = {} /\ H \cup D \subseteq flagged
  BY DEF Seated
<1> HIDE DEF H, D, n
<1>3. IsFiniteSet(H \cup D) /\ Cardinality(H \cup D) = Cardinality(H) + Cardinality(D)
  <2>1. Cardinality(H \cap D) = 0
    BY <1>2, FS_EmptySet
  <2>2. Cardinality(H \cup D) = Cardinality(H) + Cardinality(D) - Cardinality(H \cap D)
    BY <1>1, FS_Union
  <2>3. Cardinality(H) \in Nat /\ Cardinality(D) \in Nat
    BY <1>1, FS_CardinalityType
  <2> QED BY <1>1, <2>1, <2>2, <2>3, FS_Union
<1>4. IsFiniteSet(flagged) /\ Cardinality(flagged) \in Nat
  BY FS_Subset, FS_CardinalityType
<1>5. Cardinality(H) + Cardinality(D) <= Cardinality(flagged)
  BY <1>2, <1>3, <1>4, FS_Subset
<1>6. CASE holdout + dev <= n
  <2>1. Cardinality(H) = holdout /\ Cardinality(D) = dev
    BY <1>1, <1>6 DEF Filled
  <2> QED BY <1>4, <1>5, <2>1
<1>7. CASE ~(holdout + dev <= n)
  <2>1. Cardinality(H) + Cardinality(D) = n
    BY <1>1, <1>7 DEF Filled
  <2>2. H \cup D = rows
    BY <1>2, <1>3, <2>1, FS_Subset DEF n
  <2> QED BY <1>2, <2>2
<1> QED BY <1>6, <1>7

\* What Joined makes of two seatings of different rows.
LEMMA JoinedSeats ==
  ASSUME NEW A, NEW B, A \cap B = {}, NEW a \in [A -> Splits], NEW b \in [B -> Splits]
  PROVE  /\ Joined(a, b) \in [A \cup B -> Splits]
         /\ \A i \in A : (Joined(a, b))[i] = a[i]
         /\ \A i \in B : (Joined(a, b))[i] = b[i]
         /\ \A s : Seated(Joined(a, b), s) = Seated(a, s) \cup Seated(b, s)
                     /\ Seated(a, s) \cap Seated(b, s) = {}
<1>1. Joined(a, b) = [i \in A \cup B |-> IF i \in A THEN a[i] ELSE b[i]]
  BY DEF Joined
<1> QED BY <1>1 DEF Seated

\* The seats that a set of rows leaves open.
LEMMA SeatsLeft ==
  ASSUME NEW rows, IsFiniteSet(rows), NEW n \in Nat, Cardinality(rows) <= n
  PROVE  Seats(rows, n) = n - Cardinality(rows) /\ Seats(rows, n) \in Nat
<1>1. Cardinality(rows) \in Nat
  BY FS_CardinalityType
<1> QED BY <1>1 DEF Seats

LEMMA NothingSeated ==
  ASSUME NEW S, IsFiniteSet(S), Cardinality(S) = 0 PROVE S = {}
BY FS_EmptySet

\* merge_gold_rows: the two rounds fill the seats as one round would, and
\* human rows that are enough leave no seat to the LLM's.
LEMMA SeatRowsFill ==
  ASSUME NEW label, NEW human, NEW others, IsFiniteSet(human), IsFiniteSet(others),
         human \cap others = {}, NEW holdout \in Nat, NEW dev \in Nat,
         NEW seats \in SeatRows(label, human, others, holdout, dev)
  PROVE  /\ seats \in [human \cup others -> Splits]
         /\ Cardinality(Seated(seats, "holdout")) <= holdout
         /\ Cardinality(Seated(seats, "dev")) <= dev
         /\ Cardinality(Seated(seats, "holdout")) < holdout =>
              Seated(seats, "dev") = {} /\ Seated(seats, "train") = {}
         /\ Cardinality(Seated(seats, "dev")) < dev => Seated(seats, "train") = {}
         /\ Cardinality(human) >= holdout + dev \/ others = {} =>
              Seated(seats, "holdout") \cup Seated(seats, "dev") \subseteq human
<1> DEFINE left(h, s, n) == Seats({i \in human : h[i] = s}, n)
           after(h) == {Joined(h, l) : l \in AllocateNewSplits(label, others,
                                               left(h, "holdout", holdout), left(h, "dev", dev))}
<1>1. PICK h \in AllocateNewSplits(label, human, holdout, dev) : seats \in after(h)
  <2>1. seats \in UNION {after(h) : h \in AllocateNewSplits(label, human, holdout, dev)}
    BY DEF SeatRows
  <2> HIDE DEF after
  <2> QED BY <2>1
<1>2. PICK l \in AllocateNewSplits(label, others, left(h, "holdout", holdout), left(h, "dev", dev)) :
        seats = Joined(h, l)
  BY <1>1
<1> DEFINE size(a, s) == Cardinality(Seated(a, s))
           H == Cardinality(human)
           L == Cardinality(others)
<1>3. /\ h \in [human -> Splits] /\ H \in Nat
      /\ size(h, "holdout") = Filled(holdout, H)
      /\ size(h, "dev") = Filled(dev, H - Filled(holdout, H))
      /\ size(h, "holdout") + size(h, "dev") + size(h, "train") = H
      /\ \A s \in Splits : IsFiniteSet(Seated(h, s))
  BY AllocationSizes DEF Splits
<1>4. \A s : {i \in human : h[i] = s} = Seated(h, s)
  BY <1>3 DEF Seated
<1>5. /\ left(h, "holdout", holdout) = holdout - size(h, "holdout")
      /\ left(h, "dev", dev) = dev - size(h, "dev")
      /\ left(h, "holdout", holdout) \in Nat /\ left(h, "dev", dev) \in Nat
  <2>1. size(h, "holdout") <= holdout /\ size(h, "dev") <= dev
    BY <1>3 DEF Filled
  <2>2. IsFiniteSet(Seated(h, "holdout")) /\ IsFiniteSet(Seated(h, "dev"))
    BY <1>3 DEF Splits
  <2> QED BY <1>4, <2>1, <2>2, SeatsLeft
<1> HIDE DEF left
<1>6. /\ l \in [others -> Splits] /\ L \in Nat
      /\ size(l, "holdout") = Filled(left(h, "holdout", holdout), L)
      /\ size(l, "dev") = Filled(left(h, "dev", dev), L - Filled(left(h, "holdout", holdout), L))
      /\ size(l, "holdout") + size(l, "dev") + size(l, "train") = L
      /\ \A s \in Splits : IsFiniteSet(Seated(l, s))
  BY <1>5, AllocationSizes DEF Splits
<1>7. /\ seats \in [human \cup others -> Splits]
      /\ \A s \in Splits : /\ Seated(seats, s) = Seated(h, s) \cup Seated(l, s)
                           /\ Seated(h, s) \cap Seated(l, s) = {}
  <2>1. /\ Joined(h, l) \in [human \cup others -> Splits]
        /\ \A s : /\ Seated(Joined(h, l), s) = Seated(h, s) \cup Seated(l, s)
                  /\ Seated(h, s) \cap Seated(l, s) = {}
    BY <1>3, <1>6, JoinedSeats
  <2> QED BY <1>2, <2>1
<1>8. ASSUME NEW s \in Splits
      PROVE  /\ IsFiniteSet(Seated(seats, s))
             /\ size(h, s) \in Nat /\ size(l, s) \in Nat
             /\ size(seats, s) = size(h, s) + size(l, s)
  <2>1. IsFiniteSet(Seated(h, s)) /\ IsFiniteSet(Seated(l, s))
    BY <1>3, <1>6
  <2>2. size(h, s) \in Nat /\ size(l, s) \in Nat
    BY <2>1, FS_CardinalityType
  <2>3. Seated(h, s) \cap Seated(l, s) = {} /\ Seated(seats, s) = Seated(h, s) \cup Seated(l, s)
    BY <1>7
  <2>4. /\ IsFiniteSet(Seated(h, s) \cup Seated(l, s))
        /\ Cardinality(Seated(h, s) \cup Seated(l, s)) =
             size(h, s) + size(l, s) - Cardinality(Seated(h, s) \cap Seated(l, s))
    BY <2>1, FS_Union
  <2>5. Cardinality(Seated(h, s) \cap Seated(l, s)) = 0
    BY <2>3, FS_EmptySet
  <2>6. size(seats, s) = size(h, s) + size(l, s)
    BY <2>2, <2>3, <2>4, <2>5
  <2> QED BY <2>2, <2>3, <2>4, <2>6
<1>9. /\ "holdout" \in Splits /\ "dev" \in Splits /\ "train" \in Splits
  BY DEF Splits
<1> HIDE DEF size
<1>10. /\ size(seats, "holdout") <= holdout
       /\ size(seats, "dev") <= dev
       /\ size(seats, "holdout") < holdout => size(seats, "dev") = 0 /\ size(seats, "train") = 0
       /\ size(seats, "dev") < dev => size(seats, "train") = 0
       /\ H >= holdout + dev => size(l, "holdout") = 0 /\ size(l, "dev") = 0
  <2> HIDE DEF H, L
  <2>1. \A s \in Splits : size(h, s) \in Nat /\ size(l, s) \in Nat
    BY <1>8 DEF size
  <2>2. /\ size(l, "holdout") = Filled(holdout - size(h, "holdout"), L)
        /\ size(l, "dev") = Filled(dev - size(h, "dev"), L - size(l, "holdout"))
    BY <1>5, <1>6 DEF size
  <2>3. /\ size(h, "dev") = Filled(dev, H - size(h, "holdout"))
        /\ size(h, "holdout") = Filled(holdout, H) /\ H \in Nat /\ L \in Nat
        /\ size(h, "holdout") + size(h, "dev") + size(h, "train") = H
        /\ size(l, "holdout") + size(l, "dev") + size(l, "train") = L
    BY <1>3, <1>6 DEF size
  <2>4. \A s \in Splits : size(seats, s) = size(h, s) + size(l, s)
    BY <1>8 DEF size
  <2>5. /\ size(h, "holdout") + size(l, "holdout") <= holdout
        /\ size(h, "dev") + size(l, "dev") <= dev
        /\ size(h, "holdout") + size(l, "holdout") < holdout =>
             /\ size(h, "dev") + size(l, "dev") = 0
             /\ size(h, "train") + size(l, "train") = 0
        /\ size(h, "dev") + size(l, "dev") < dev => size(h, "train") + size(l, "train") = 0
        /\ H >= holdout + dev => size(l, "holdout") = 0 /\ size(l, "dev") = 0
    <3>1. /\ size(h, "holdout") \in Nat /\ size(h, "dev") \in Nat /\ size(h, "train") \in Nat
          /\ size(l, "holdout") \in Nat /\ size(l, "dev") \in Nat /\ size(l, "train") \in Nat
      BY <1>9, <2>1
    <3>2. PICK h1 \in Nat, d1 \in Nat, t1 \in Nat :
            h1 = size(h, "holdout") /\ d1 = size(h, "dev") /\ t1 = size(h, "train")
      BY <3>1
    <3>3. PICK h2 \in Nat, d2 \in Nat, t2 \in Nat :
            h2 = size(l, "holdout") /\ d2 = size(l, "dev") /\ t2 = size(l, "train")
      BY <3>1
    <3>4. /\ h1 = Filled(holdout, H) /\ d1 = Filled(dev, H - h1) /\ h1 + d1 + t1 = H
          /\ h2 = Filled(holdout - h1, L) /\ d2 = Filled(dev - d1, L - h2) /\ h2 + d2 + t2 = L
          /\ H \in Nat /\ L \in Nat
      BY <2>2, <2>3, <3>2, <3>3
    <3>5. /\ h1 + h2 <= holdout /\ d1 + d2 <= dev
          /\ h1 + h2 < holdout => d1 + d2 = 0 /\ t1 + t2 = 0
          /\ d1 + d2 < dev => t1 + t2 = 0
          /\ H >= holdout + dev => h2 = 0 /\ d2 = 0
      BY <3>4 DEF Filled
    <3> QED BY <3>2, <3>3, <3>5
  <2> QED BY <1>9, <2>4, <2>5
<1>11. others = {} => Seated(l, "holdout") = {} /\ Seated(l, "dev") = {}
  BY <1>6 DEF Seated
<1>12. ASSUME H >= holdout + dev \/ others = {}
       PROVE  Seated(seats, "holdout") \cup Seated(seats, "dev") \subseteq human
  <2>1. Seated(l, "holdout") = {} /\ Seated(l, "dev") = {}
    BY <1>6, <1>9, <1>10, <1>11, <1>12, NothingSeated DEF size
  <2>2. Seated(h, "holdout") \subseteq human /\ Seated(h, "dev") \subseteq human
    BY <1>3 DEF Seated
  <2> QED BY <1>7, <1>9, <2>1, <2>2
<1>13. ASSUME NEW s \in Splits, size(seats, s) = 0 PROVE Seated(seats, s) = {}
  BY <1>8, <1>13, NothingSeated DEF size
<1> QED BY <1>7, <1>9, <1>10, <1>12, <1>13 DEF size

-----------------------------------------------------------------------------
(* Chunks *)

\* Counting the members of a finite set of numbers up to each of them meets
\* every count once.
LEMMA RankOnto ==
  ASSUME NEW S \in SUBSET Nat, IsFiniteSet(S)
  PROVE  /\ Cardinality(S) \in Nat
         /\ \A k \in 1 .. Cardinality(S) : \E n \in S : Cardinality({m \in S : m <= n}) = k
<1> DEFINE upTo(n) == {m \in S : m <= n}
           rank == [n \in S |-> Cardinality(upTo(n))]
           N == Cardinality(S)
<1>1. N \in Nat
  BY FS_CardinalityType
<1>2. ASSUME NEW n \in S
      PROVE  /\ IsFiniteSet(upTo(n)) /\ Cardinality(upTo(n)) \in 1 .. N
  <2>1. upTo(n) \in SUBSET S /\ n \in upTo(n)
    OBVIOUS
  <2>2. IsFiniteSet(upTo(n)) /\ Cardinality(upTo(n)) <= N
    BY <2>1, FS_Subset
  <2>3. Cardinality(upTo(n)) \in Nat /\ Cardinality(upTo(n)) # 0
    BY <2>1, <2>2, FS_CardinalityType, FS_EmptySet
  <2> QED BY <1>1, <2>2, <2>3
<1>3. ASSUME NEW n \in S, NEW m \in S, n < m PROVE Cardinality(upTo(n)) # Cardinality(upTo(m))
  <2>1. upTo(n) \in SUBSET upTo(m) /\ m \in upTo(m) /\ m \notin upTo(n)
    <3>1. n \in Nat /\ m \in Nat
      OBVIOUS
    <3>2. ASSUME NEW p \in S, p <= n PROVE p <= m
      <4>1. p \in Nat
        OBVIOUS
      <4> QED BY <1>3, <3>1, <3>2, <4>1
    <3>3. m \in upTo(m) /\ m \notin upTo(n)
      BY <1>3, <3>1
    <3> QED BY <3>2, <3>3
  <2> HIDE DEF upTo
  <2> QED BY <1>2, <2>1, FS_Subset
<1> HIDE DEF upTo
<1>4. rank \in Injection(S, 1 .. N)
  <2>1. rank \in [S -> 1 .. N]
    BY <1>2
  <2>2. ASSUME NEW n \in S, NEW m \in S, rank[n] = rank[m] PROVE n = m
    <3>1. n < m \/ m < n \/ n = m
      OBVIOUS
    <3> QED BY <1>3, <2>2, <3>1
  <2> QED BY <2>1, <2>2 DEF Injection, IsInjective
<1>5. IsFiniteSet(1 .. N) /\ Cardinality(1 .. N) = N
  BY <1>1, FS_Interval
<1>6. rank \in Surjection(S, 1 .. N)
  BY <1>4, <1>5, FS_Injection
<1>7. \A k \in 1 .. N : \E n \in S : Cardinality(upTo(n)) = k
  BY <1>6 DEF Surjection
<1> QED BY <1>1, <1>7 DEF upTo

\* filter_candidates returns candidates, none of them twice.
LEMMA FilteredRows ==
  ASSUME GoldAssumption, NEW x \in Exports, NEW exclude, DOMAIN Gold \subseteq exclude
  PROVE  LET rows == FilterCandidates(x, exclude) IN
         /\ rows \in Seq(Candidates)
         /\ \A a, b \in 1 .. Len(rows) : rows[a] = rows[b] => a = b
<1> DEFINE first == FirstRows(x, exclude)
           before(n) == {m \in first : m <= n}
           at(k) == CHOOSE n \in first : Cardinality(before(n)) = k
           rows == FilterCandidates(x, exclude)
<1>1. x \in Seq(ToSet(x)) /\ Len(x) \in Nat /\ DOMAIN x = 1 .. Len(x)
  BY DEF GoldAssumption
<1>2. first \in SUBSET (1 .. Len(x)) /\ first \in SUBSET Nat
  BY <1>1 DEF FirstRows
<1>3. IsFiniteSet(first)
  <2>1. 1 \in Int /\ Len(x) \in Int
    BY <1>1
  <2>2. IsFiniteSet(1 .. Len(x))
    BY <2>1, FS_Interval
  <2> QED BY <1>2, <2>2, FS_Subset
<1>4. rows = [k \in 1 .. Cardinality(first) |-> x[at(k)]]
  BY DEF FilterCandidates
<1>5. /\ Cardinality(first) \in Nat
      /\ \A k \in 1 .. Cardinality(first) : \E n \in first : Cardinality(before(n)) = k
  BY <1>2, <1>3, RankOnto
<1>6. \A k \in 1 .. Cardinality(first) : at(k) \in first /\ Cardinality(before(at(k))) = k
  BY <1>5
<1>7. \A n \in first : x[n] \in Candidates
  <2> SUFFICES ASSUME NEW n \in first PROVE x[n] \in Candidates
    OBVIOUS
  <2>1. n \in DOMAIN x /\ x[n] \notin exclude
    BY DEF FirstRows
  <2>2. x[n] \in ToSet(x)
    BY <2>1 DEF ToSet
  <2>3. x[n] \in UNION {ToSet(y) : y \in Exports}
    BY <2>2
  <2>4. x[n] \notin DOMAIN Gold
    BY <2>1
  <2> QED BY <2>3, <2>4 DEF Candidates
<1>8. ASSUME NEW n \in first, NEW m \in first, n < m PROVE x[n] # x[m]
  <2>1. n \in 1 .. m - 1 /\ x[n] \notin exclude
    BY <1>2, <1>8 DEF FirstRows
  <2> QED BY <2>1 DEF FirstRows
<1>9. ASSUME NEW n \in first, NEW m \in first, x[n] = x[m] PROVE n = m
  <2>1. n < m \/ m < n \/ n = m
    BY <1>2
  <2> QED BY <1>8, <1>9, <2>1
<1> HIDE DEF first, before, at
<1>10. rows \in Seq(Candidates) /\ Len(rows) = Cardinality(first)
  BY <1>4, <1>5, <1>6, <1>7
<1>11. ASSUME NEW a \in 1 .. Len(rows), NEW b \in 1 .. Len(rows), rows[a] = rows[b] PROVE a = b
  <2>1. a \in 1 .. Cardinality(first) /\ b \in 1 .. Cardinality(first)
    BY <1>10
  <2>2. rows[a] = x[at(a)] /\ rows[b] = x[at(b)]
    BY <1>4, <2>1
  <2>3. at(a) \in first /\ at(b) \in first
    BY <1>6, <2>1
  <2>4. at(a) = at(b)
    BY <1>9, <1>11, <2>2, <2>3
  <2>5. Cardinality(before(at(a))) = a /\ Cardinality(before(at(b))) = b
    BY <1>6, <2>1
  <2> QED BY <2>4, <2>5
<1> QED BY <1>10, <1>11

\* Where the chunks of n rows end: each but the last is full, none is empty.
LEMMA ChunkBounds ==
  ASSUME NEW size \in Nat \ {0}, NEW n \in Nat, NEW k \in 1 .. (n + size - 1) \div size
  PROVE  (k - 1) * size \in Nat /\ (k - 1) * size < n /\ k * size = (k - 1) * size + size
<1> DEFINE q == (n + size - 1) \div size
<1>1. q \in Nat /\ q * size <= n + size - 1 /\ k \in Nat /\ k <= q
  OBVIOUS
<1> HIDE DEF q
<1>2. k * size <= q * size
  BY <1>1
<1>3. k * size = (k - 1) * size + size
  BY <1>1
<1>4. (k - 1) * size \in Nat
  BY <1>1
<1> QED BY <1>1, <1>2, <1>3, <1>4

\* split_into_chunks deals every row to one place of one chunk.
LEMMA DealtOnce ==
  ASSUME GoldAssumption, NEW S, NEW rows \in Seq(S),
         \A a, b \in 1 .. Len(rows) : rows[a] = rows[b] => a = b,
         NEW dealt, dealt = SplitIntoChunks(rows)
  PROVE  /\ \A k \in DOMAIN dealt : /\ Len(dealt[k]) \in 1 .. ChunkSize
                                    /\ ToSet(dealt[k]) \subseteq S
         /\ \A k, l \in DOMAIN dealt : \A i \in DOMAIN dealt[k], j \in DOMAIN dealt[l] :
              dealt[k][i] = dealt[l][j] => k = l /\ i = j
<1> DEFINE n == Len(rows)
           start(k) == (k - 1) * ChunkSize
           stop(k) == IF k * ChunkSize < n THEN k * ChunkSize ELSE n
           chunk(k) == SubSeq(rows, start(k) + 1, stop(k))
<1>0. n \in Nat /\ ChunkSize \in Nat \ {0}
  BY DEF GoldAssumption
<1>1. /\ DOMAIN dealt = 1 .. (n + ChunkSize - 1) \div ChunkSize
      /\ \A k \in DOMAIN dealt : dealt[k] = chunk(k)
  BY DEF SplitIntoChunks
<1>2. ASSUME NEW k \in DOMAIN dealt
      PROVE  /\ k \in Nat /\ start(k) \in Nat /\ stop(k) \in Nat
             /\ start(k) < stop(k) /\ stop(k) <= n
             /\ stop(k) <= start(k) + ChunkSize
  <2>1. /\ start(k) \in Nat /\ start(k) < n
        /\ k * ChunkSize = start(k) + ChunkSize
    BY <1>0, <1>1, ChunkBounds
  <2>2. k \in Nat
    BY <1>1
  <2> HIDE DEF start
  <2> QED BY <1>0, <2>1, <2>2
<1>3. ASSUME NEW k \in DOMAIN dealt
      PROVE  /\ Len(dealt[k]) \in 1 .. ChunkSize
             /\ DOMAIN dealt[k] = 1 .. Len(dealt[k])
             /\ \A i \in DOMAIN dealt[k] : /\ i \in 1 .. ChunkSize
                                           /\ start(k) + i \in 1 .. n
                                           /\ dealt[k][i] = rows[start(k) + i]
  <2> DEFINE from == start(k) + 1
  <2>1. /\ start(k) \in Nat /\ stop(k) \in Nat /\ start(k) < stop(k) /\ stop(k) <= n
        /\ stop(k) <= start(k) + ChunkSize
    BY <1>2
  <2> HIDE DEF n, start, stop
  <2>2. from \in Int /\ stop(k) \in Int
    BY <2>1
  <2>3. \A i \in from .. stop(k) : rows[i] \in S
    <3> SUFFICES ASSUME NEW i \in from .. stop(k) PROVE rows[i] \in S
      OBVIOUS
    <3>1. i \in 1 .. n
      BY <1>0, <2>1
    <3> QED BY <3>1 DEF n
  <2> HIDE DEF from
  <2>4. /\ SubSeq(rows, from, stop(k)) \in Seq(S)
        /\ Len(SubSeq(rows, from, stop(k))) = IF from <= stop(k) THEN stop(k) - from + 1 ELSE 0
        /\ \A i \in 1 .. stop(k) - from + 1 : SubSeq(rows, from, stop(k))[i] = rows[from + i - 1]
    BY <2>2, <2>3, SubSeqProperties
  <2>5. dealt[k] = SubSeq(rows, from, stop(k))
    BY <1>1 DEF from
  <2>6. from = start(k) + 1
    BY DEF from
  <2>7. Len(dealt[k]) = stop(k) - start(k) /\ DOMAIN dealt[k] = 1 .. Len(dealt[k])
    BY <2>1, <2>4, <2>5, <2>6
  <2>8. \A i \in 1 .. stop(k) - start(k) : dealt[k][i] = rows[start(k) + i]
    <3> SUFFICES ASSUME NEW i \in 1 .. stop(k) - start(k) PROVE dealt[k][i] = rows[start(k) + i]
      OBVIOUS
    <3>1. i \in 1 .. stop(k) - from + 1 /\ from + i - 1 = start(k) + i
      BY <2>1, <2>6
    <3> QED BY <2>4, <2>5, <3>1
  <2>9. \A i \in 1 .. stop(k) - start(k) : i \in 1 .. ChunkSize /\ start(k) + i \in 1 .. n
    BY <1>0, <2>1
  <2>10. Len(dealt[k]) \in 1 .. ChunkSize
    BY <1>0, <2>1, <2>7
  <2> QED BY <2>7, <2>8, <2>9, <2>10
<1>4. ASSUME NEW k \in DOMAIN dealt PROVE ToSet(dealt[k]) \subseteq S
  <2> SUFFICES ASSUME NEW i \in DOMAIN dealt[k] PROVE dealt[k][i] \in S
    BY DEF ToSet
  <2> HIDE DEF n, start
  <2>1. start(k) + i \in 1 .. n
    BY <1>3
  <2>2. rows[start(k) + i] \in S
    BY <2>1 DEF n
  <2> QED BY <1>3, <2>2
<1>5. ASSUME NEW a \in Nat, NEW b \in Nat, a < b
      PROVE  start(a) + ChunkSize <= start(b)
  <2>1. start(a) + ChunkSize = a * ChunkSize
    BY <1>0
  <2>2. PICK d \in Nat : b - 1 = a + d
    <3>1. b - 1 - a \in Nat /\ b - 1 = a + (b - 1 - a)
      BY <1>5
    <3> QED BY <3>1
  <2>3. start(b) = a * ChunkSize + d * ChunkSize
    BY <1>0, <2>2
  <2>4. a * ChunkSize \in Nat /\ d * ChunkSize \in Nat
    BY <1>0
  <2>5. start(a) \in Int
    BY <1>0
  <2> HIDE DEF start
  <2> QED BY <1>0, <2>1, <2>3, <2>4, <2>5
<1>6. ASSUME NEW k \in DOMAIN dealt, NEW l \in DOMAIN dealt,
             NEW i \in DOMAIN dealt[k], NEW j \in DOMAIN dealt[l],
             dealt[k][i] = dealt[l][j]
      PROVE  k = l /\ i = j
  <2>1. k \in Nat /\ l \in Nat /\ start(k) \in Nat /\ start(l) \in Nat
    BY <1>2
  <2> HIDE DEF n, start
  <2>2. /\ start(k) + i \in 1 .. n /\ start(l) + j \in 1 .. n
        /\ i \in 1 .. ChunkSize /\ j \in 1 .. ChunkSize
    BY <1>3
  <2>3. rows[start(k) + i] = rows[start(l) + j]
    BY <1>3, <1>6
  <2>4. start(k) + i = start(l) + j
    BY <2>2, <2>3 DEF n
  <2>5. ~(k < l) /\ ~(l < k)
    BY <1>0, <1>5, <2>1, <2>2, <2>4
  <2>6. k = l
    BY <2>1, <2>5
  <2> QED BY <2>1, <2>2, <2>4, <2>6
<1> QED BY <1>3, <1>4, <1>6

-----------------------------------------------------------------------------
(* The files *)

\* The rows of a gold file, finite in number, and the seats it leaves.
LEMMA BaseFacts ==
  ASSUME GoldAssumption, TypeOK, NEW base \in Bases
  PROVE  /\ IsFiniteSet(DOMAIN base)
         /\ base \in [DOMAIN base -> GoldRow]
         /\ DOMAIN base \subseteq DOMAIN Gold \cup placed
         /\ Need(base, HoldoutTarget) \in 0 .. HoldoutTarget
<1>1. IsFiniteSet(DOMAIN Gold \cup placed)
  <2>1. IsFiniteSet(placed)
    BY FS_Subset DEF GoldAssumption, TypeOK
  <2> QED BY <2>1, FS_Union DEF GoldAssumption
<1>2. base = Gold \/ base = goldV3
  BY DEF Bases
<1>3. DOMAIN base \subseteq DOMAIN Gold \cup placed
  BY <1>2 DEF TypeOK
<1>4. IsFiniteSet(DOMAIN base)
  BY <1>1, <1>3, FS_Subset
<1>5. base \in [DOMAIN base -> GoldRow]
  <2>1. Gold \in [DOMAIN Gold -> GoldRow]
    BY DEF GoldAssumption, GoldRow, Splits, Sources
  <2> QED BY <1>2, <2>1 DEF TypeOK
<1>6. Need(base, HoldoutTarget) \in 0 .. HoldoutTarget
  <2>1. IsFiniteSet(InSplit(base, {"holdout"}))
    BY <1>4, FS_Subset DEF InSplit
  <2>2. Cardinality(InSplit(base, {"holdout"})) \in Nat /\ HoldoutTarget \in Nat
    BY <2>1, FS_CardinalityType DEF GoldAssumption
  <2> QED BY <2>2 DEF Need, Seats
<1> QED BY <1>3, <1>4, <1>5, <1>6

LEMMA ReviewFinite ==
  ASSUME GoldAssumption, TypeOK, NEW rows, rows \subseteq DOMAIN review
  PROVE  IsFiniteSet(rows)
BY FS_Subset DEF GoldAssumption, TypeOK

-----------------------------------------------------------------------------
(* The invariant *)

\* TypeOK, by the files it speaks of.
LabellingOK ==
  /\ \A k \in DOMAIN chunks : Len(chunks[k]) \in 1 .. ChunkSize
  /\ \A k, l \in DOMAIN chunks : \A i \in DOMAIN chunks[k], j \in DOMAIN chunks[l] :
       chunks[k][i] = chunks[l][j] => k = l /\ i = j
  /\ Packed \subseteq Candidates
  /\ splits \in 0 .. MaxSplits
  /\ llm \in [DOMAIN llm -> Labels \X {"high", "low"}] /\ DOMAIN llm \subseteq Packed
ReviewOK ==
  /\ review \in [DOMAIN review -> Review] /\ DOMAIN review \subseteq Candidates
  /\ selected \subseteq 0 .. HoldoutTarget
GoldOK ==
  /\ goldV3 \in [DOMAIN goldV3 -> GoldRow]
  /\ merges \in 0 .. MaxMerges
  /\ placed \subseteq Candidates
  /\ \A i \in DOMAIN goldV3 : i \in DOMAIN Gold \cup placed
  /\ replaced \in BOOLEAN
UsesOK ==
  /\ preds \subseteq DOMAIN goldV3 \cup placed
  /\ trained \cup tuned \subseteq DOMAIN Gold \cup placed

\* The rows flagged for the human.
Flagged == {i \in DOMAIN review : review[i].required}

\* Flagging took as many rows as the seats it was done for, or all of them.
EnoughFlagged ==
  \A n \in selected : Cardinality(Flagged) >= n + DevN \/ Flagged = DOMAIN review

\* The rows of gold.jsonl are in every gold_v3.jsonl, as they are, and the ones
\* held out there are in no model and no choice.
KeepsGold ==
  /\ placed \cap DOMAIN Gold = {}
  /\ goldV3 # Empty => DOMAIN Gold \subseteq DOMAIN goldV3
  /\ \A i \in DOMAIN Gold \cap DOMAIN goldV3 : goldV3[i] = Gold[i]
  /\ trained \cap InSplit(Gold, {"holdout", "dev"}) = {}
  /\ tuned \cap InSplit(Gold, {"holdout"}) = {}

GoldInv == TypeOK /\ EnoughFlagged /\ KeepsGold /\ HeldOutUntouched

LEMMA TypeParts == TypeOK <=> LabellingOK /\ ReviewOK /\ GoldOK /\ UsesOK
BY DEF TypeOK, LabellingOK, ReviewOK, GoldOK, UsesOK

LEMMA TypePartsNext == TypeOK' <=> LabellingOK' /\ ReviewOK' /\ GoldOK' /\ UsesOK'
BY DEF TypeOK, LabellingOK, ReviewOK, GoldOK, UsesOK

\* What a step that leaves a file alone keeps of the invariant.
LEMMA LabellingKept == ASSUME LabellingOK, UNCHANGED labelling PROVE LabellingOK'
BY DEF LabellingOK, labelling, Packed

LEMMA ReviewKept ==
  ASSUME ReviewOK, EnoughFlagged, UNCHANGED <<review, selected>>
  PROVE  ReviewOK' /\ EnoughFlagged'
BY DEF ReviewOK, EnoughFlagged, Flagged

LEMMA GoldKept ==
  ASSUME GoldOK, UNCHANGED <<goldV3, merges, placed, replaced>>
  PROVE  GoldOK'
BY DEF GoldOK

LEMMA UsesKept ==
  ASSUME UsesOK, KeepsGold, HeldOutUntouched,
         UNCHANGED <<goldV3, placed, replaced, preds, history>>
  PROVE  UsesOK' /\ KeepsGold' /\ HeldOutUntouched'
BY DEF UsesOK, KeepsGold, HeldOutUntouched, InSplit, Empty, history

\* A gold file holds gold.jsonl, as it is.
LEMMA BaseAgrees ==
  ASSUME KeepsGold, NEW base \in Bases
  PROVE  DOMAIN Gold \subseteq DOMAIN base /\ \A i \in DOMAIN Gold : base[i] = Gold[i]
<1>1. base = Gold \/ (goldV3 # Empty /\ base = goldV3)
  BY DEF Bases
<1> QED BY <1>1 DEF KeepsGold

LEMMA GoldInit == ASSUME GoldAssumption, Init PROVE GoldInv
<1> USE DEF Init
<1>1. LabellingOK
  BY DEF LabellingOK, Packed, Empty, GoldAssumption
<1>2. ReviewOK /\ EnoughFlagged
  BY DEF ReviewOK, EnoughFlagged, Empty
<1>3. GoldOK /\ UsesOK
  <2>1. goldV3 \in [DOMAIN goldV3 -> GoldRow] /\ DOMAIN goldV3 = {}
    BY DEF Empty
  <2>2. merges \in 0 .. MaxMerges
    BY DEF GoldAssumption
  <2>3. replaced \in BOOLEAN
    OBVIOUS
  <2>4. placed = {} /\ preds = {} /\ trained = {} /\ tuned = {}
    OBVIOUS
  <2> QED BY <2>1, <2>2, <2>3, <2>4 DEF GoldOK, UsesOK
<1>4. KeepsGold /\ HeldOutUntouched
  BY DEF KeepsGold, HeldOutUntouched, Empty
<1> QED BY <1>1, <1>2, <1>3, <1>4, TypeParts DEF GoldInv

-----------------------------------------------------------------------------
(* The steps *)

LEMMA SplitKeeps ==
  ASSUME GoldAssumption, GoldInv, NEW x \in Exports, NEW base \in Bases, Split(x, base)
  PROVE  GoldInv'
<1> DEFINE rows == FilterCandidates(x, DOMAIN base)
<1>1. /\ LabellingOK /\ ReviewOK /\ GoldOK /\ UsesOK
      /\ EnoughFlagged /\ KeepsGold /\ HeldOutUntouched
  BY TypeParts DEF GoldInv
<1>2. DOMAIN Gold \subseteq DOMAIN base
  BY <1>1, BaseAgrees
<1>3. /\ rows \in Seq(Candidates)
      /\ \A a, b \in 1 .. Len(rows) : rows[a] = rows[b] => a = b
  BY <1>2, FilteredRows
<1>4. chunks' = SplitIntoChunks(rows)
  BY DEF Split
<1> HIDE DEF rows
<1>5. /\ \A k \in DOMAIN chunks' : /\ Len(chunks'[k]) \in 1 .. ChunkSize
                                   /\ ToSet(chunks'[k]) \subseteq Candidates
      /\ \A k, l \in DOMAIN chunks' : \A i \in DOMAIN chunks'[k], j \in DOMAIN chunks'[l] :
           chunks'[k][i] = chunks'[l][j] => k = l /\ i = j
  BY <1>3, <1>4, DealtOnce
<1>6. Packed' \subseteq Candidates
  BY <1>5 DEF Packed
<1>7. splits' \in 0 .. MaxSplits
  BY <1>1 DEF LabellingOK, Split, GoldAssumption
<1>8. llm' \in [DOMAIN llm' -> Labels \X {"high", "low"}] /\ DOMAIN llm' \subseteq Packed'
  BY DEF Split, Empty
<1>9. LabellingOK'
  BY <1>5, <1>6, <1>7, <1>8 DEF LabellingOK
<1>10. UNCHANGED <<review, selected>> /\ UNCHANGED <<goldV3, merges, placed, replaced>>
       /\ UNCHANGED <<goldV3, placed, replaced, preds, history>>
  BY DEF Split, seating
<1> QED BY <1>1, <1>9, <1>10, ReviewKept, GoldKept, UsesKept, TypePartsNext DEF GoldInv

LEMMA PrelabelKeeps ==
  ASSUME GoldAssumption, GoldInv, NEW k \in DOMAIN chunks, Prelabel(k)
  PROVE  GoldInv'
<1>1. /\ LabellingOK /\ ReviewOK /\ GoldOK /\ UsesOK
      /\ EnoughFlagged /\ KeepsGold /\ HeldOutUntouched
  BY TypeParts DEF GoldInv
<1>2. PICK answer \in [ToSet(chunks[k]) -> UNION {Prelabels[i] : i \in ToSet(chunks[k])}] :
        /\ \A i \in DOMAIN answer : answer[i] \in Prelabels[i]
        /\ llm' = Joined(llm, answer)
  BY DEF Prelabel
<1>3. ToSet(chunks[k]) \subseteq Packed /\ Packed \subseteq Candidates
  BY <1>1 DEF LabellingOK, Packed
<1>4. \A i \in ToSet(chunks[k]) : answer[i] \in Labels \X {"high", "low"}
  BY <1>2, <1>3 DEF GoldAssumption
<1>5. llm' \in [DOMAIN llm \cup ToSet(chunks[k]) -> Labels \X {"high", "low"}]
  <2>1. llm \in [DOMAIN llm -> Labels \X {"high", "low"}]
    BY <1>1 DEF LabellingOK
  <2>2. llm' = [i \in DOMAIN llm \cup ToSet(chunks[k]) |->
                  IF i \in DOMAIN llm THEN llm[i] ELSE answer[i]]
    BY <1>2 DEF Joined
  <2> QED BY <1>4, <2>1, <2>2
<1>6. chunks' = chunks /\ splits' = splits /\ Packed' = Packed
  BY DEF Prelabel, Packed
<1>7. DOMAIN llm' \subseteq Packed'
  BY <1>1, <1>3, <1>5, <1>6 DEF LabellingOK
<1>8. llm' \in [DOMAIN llm' -> Labels \X {"high", "low"}]
  BY <1>5
<1>9. LabellingOK'
  BY <1>1, <1>6, <1>7, <1>8 DEF LabellingOK
<1>10. UNCHANGED <<review, selected>> /\ UNCHANGED <<goldV3, merges, placed, replaced>>
       /\ UNCHANGED <<goldV3, placed, replaced, preds, history>>
  BY DEF Prelabel, seating
<1> QED BY <1>1, <1>9, <1>10, ReviewKept, GoldKept, UsesKept, TypePartsNext DEF GoldInv

LEMMA MergeChunksKeeps ==
  ASSUME GoldAssumption, GoldInv, MergeChunks
  PROVE  GoldInv'
<1>1. /\ LabellingOK /\ ReviewOK /\ GoldOK /\ UsesOK
      /\ EnoughFlagged /\ KeepsGold /\ HeldOutUntouched
  BY TypeParts DEF GoldInv
<1>2. \A i \in Packed : llm[i] \in Labels \X {"high", "low"}
  BY <1>1 DEF LabellingOK, MergeChunks
<1>3. \A i \in Packed : [llm |-> llm[i][1], low |-> llm[i][2] = "low",
                         label |-> "", required |-> FALSE] \in Review
  BY <1>2 DEF Review
<1>4. review' \in [Packed -> Review] /\ selected' = {}
  BY <1>3 DEF MergeChunks
<1>5. ReviewOK' /\ EnoughFlagged'
  BY <1>1, <1>4 DEF ReviewOK, EnoughFlagged, LabellingOK
<1>6. UNCHANGED labelling /\ UNCHANGED <<goldV3, merges, placed, replaced>>
      /\ UNCHANGED <<goldV3, placed, replaced, preds, history>>
  BY DEF MergeChunks
<1> QED BY <1>1, <1>5, <1>6, LabellingKept, GoldKept, UsesKept, TypePartsNext DEF GoldInv

LEMMA SelectKeeps ==
  ASSUME GoldAssumption, GoldInv, NEW base \in Bases, Select(base)
  PROVE  GoldInv'
<1>1. /\ LabellingOK /\ ReviewOK /\ GoldOK /\ UsesOK /\ TypeOK
      /\ EnoughFlagged /\ KeepsGold /\ HeldOutUntouched
  BY TypeParts DEF GoldInv
<1> DEFINE rows == DOMAIN review
           need == Need(base, HoldoutTarget)
<1>2. PICK seats \in AllocateNewSplits(LlmLabel, rows, need, DevN) :
        review' = [i \in rows |-> [review[i] EXCEPT !.required = Required(seats, i)]]
  BY DEF Select
<1>3. selected' = {need}
  BY DEF Select
<1>4. need \in 0 .. HoldoutTarget /\ need \in Nat /\ DevN \in Nat
  BY <1>1, BaseFacts DEF GoldAssumption
<1>5. IsFiniteSet(rows)
  BY <1>1, ReviewFinite
<1>6. \A i \in rows : Required(seats, i) \in BOOLEAN
  <2> SUFFICES ASSUME NEW i \in rows PROVE Required(seats, i) \in BOOLEAN
    OBVIOUS
  <2>1. review[i].low \in BOOLEAN
    BY <1>1 DEF ReviewOK, Review
  <2> QED BY <2>1 DEF Required
<1>7. \A i \in rows : [review[i] EXCEPT !.required = Required(seats, i)] \in Review
  BY <1>1, <1>6 DEF ReviewOK, Review
<1>8. review' \in [rows -> Review] /\ DOMAIN review' = rows
  BY <1>2, <1>7
<1> HIDE DEF need
<1>9. ReviewOK'
  BY <1>1, <1>3, <1>4, <1>8 DEF ReviewOK
<1>10. seats \in [rows -> Splits]
  BY <1>2, <1>4, <1>5, AllocationSizes
<1>11. Flagged' \subseteq rows /\ Seated(seats, "holdout") \cup Seated(seats, "dev") \subseteq Flagged'
  <2> SUFFICES ASSUME NEW i \in Seated(seats, "holdout") \cup Seated(seats, "dev")
               PROVE  i \in Flagged'
    BY <1>8 DEF Flagged
  <2>1. i \in rows /\ seats[i] \in {"holdout", "dev"}
    BY <1>10 DEF Seated
  <2>2. review'[i] = [review[i] EXCEPT !.required = Required(seats, i)] /\ review[i] \in Review
    BY <1>1, <1>2, <2>1 DEF ReviewOK
  <2>3. review'[i].required = Required(seats, i)
    BY <2>2 DEF Review
  <2>4. Required(seats, i)
    BY <2>1 DEF Required
  <2> QED BY <1>8, <2>1, <2>3, <2>4 DEF Flagged
<1>12. Cardinality(Flagged') >= need + DevN \/ Flagged' = rows
  BY <1>2, <1>4, <1>5, <1>11, FlaggedEnough
<1>13. EnoughFlagged'
  BY <1>3, <1>8, <1>12 DEF EnoughFlagged
<1>14. UNCHANGED labelling /\ UNCHANGED <<goldV3, merges, placed, replaced>>
       /\ UNCHANGED <<goldV3, placed, replaced, preds, history>>
  BY DEF Select
<1> QED BY <1>1, <1>9, <1>13, <1>14, LabellingKept, GoldKept, UsesKept, TypePartsNext DEF GoldInv

LEMMA FillKeeps ==
  ASSUME GoldAssumption, GoldInv, NEW r \in DOMAIN review, Fill(r)
  PROVE  GoldInv'
<1>1. /\ LabellingOK /\ ReviewOK /\ GoldOK /\ UsesOK
      /\ EnoughFlagged /\ KeepsGold /\ HeldOutUntouched
  BY TypeParts DEF GoldInv
<1>2. PICK verdict \in Verdicts[r] : review' = [review EXCEPT ![r].label = verdict]
  BY DEF Fill
<1>3. verdict \in Labels \cup {""}
  BY <1>1, <1>2 DEF ReviewOK, GoldAssumption
<1>4. review \in [DOMAIN review -> Review]
  BY <1>1 DEF ReviewOK
<1>5. review' \in [DOMAIN review -> Review] /\ DOMAIN review' = DOMAIN review
  BY <1>2, <1>3, <1>4 DEF Review
<1>6. \A i \in DOMAIN review : review'[i].required = review[i].required
  BY <1>2, <1>4 DEF Review
<1>7. Flagged' = Flagged
  BY <1>5, <1>6 DEF Flagged
<1>8. selected' = selected /\ UNCHANGED labelling
      /\ UNCHANGED <<goldV3, merges, placed, replaced>>
      /\ UNCHANGED <<goldV3, placed, replaced, preds, history>>
  BY DEF Fill, seating
<1>9. ReviewOK' /\ EnoughFlagged'
  BY <1>1, <1>5, <1>7, <1>8 DEF ReviewOK, EnoughFlagged
<1> QED BY <1>1, <1>8, <1>9, LabellingKept, GoldKept, UsesKept, TypePartsNext DEF GoldInv

\* What merge_gold writes when it seats the new rows this way: base as it is,
\* the new rows as they are seated, and all but LLM rows for training.
Written(base, seats) ==
  /\ goldV3' \in [DOMAIN goldV3' -> GoldRow]
  /\ DOMAIN goldV3' \subseteq DOMAIN base \cup Resolved(base)
  /\ \A i \in DOMAIN base : i \in DOMAIN goldV3' => goldV3'[i] = base[i]
  /\ \A i \in Resolved(base) :
       i \in DOMAIN goldV3' => /\ goldV3'[i].split = seats[i]
                               /\ i \in Human(Resolved(base)) => goldV3'[i].source = "human"
  /\ \A i \in DOMAIN base :
       base[i].source = "human" => i \in DOMAIN goldV3'
  /\ \A i \in Resolved(base) : seats[i] # "train" => i \in DOMAIN goldV3'

LEMMA ResolvedRows ==
  ASSUME GoldAssumption, GoldInv, NEW base \in Bases
  PROVE  LET rows == Resolved(base) IN
         /\ rows \subseteq DOMAIN review /\ rows \subseteq Candidates
         /\ rows \cap DOMAIN base = {}
         /\ IsFiniteSet(Human(rows)) /\ IsFiniteSet(rows \ Human(rows))
         /\ Human(rows) \subseteq rows
<1>1. Resolved(base) \subseteq DOMAIN review /\ Resolved(base) \cap DOMAIN base = {}
  BY DEF Resolved
<1>2. DOMAIN review \subseteq Candidates
  BY TypeParts DEF GoldInv, ReviewOK
<1>3. Human(Resolved(base)) \subseteq Resolved(base)
  BY DEF Human
<1>4. IsFiniteSet(Human(Resolved(base))) /\ IsFiniteSet(Resolved(base) \ Human(Resolved(base)))
  BY <1>1, <1>3, ReviewFinite DEF GoldInv
<1> QED BY <1>1, <1>2, <1>3, <1>4

LEMMA MergeWrites ==
  ASSUME GoldAssumption, GoldInv, NEW base \in Bases, NEW humanOnly \in BOOLEAN,
         MergeGold(base, humanOnly)
  PROVE  LET rows == Resolved(base) IN
         \E label : \E seats \in SeatRows(label, Human(rows), rows \ Human(rows),
                                          Need(base, HoldoutTarget), DevN) :
           seats \in [rows -> Splits] /\ Written(base, seats)
<1> DEFINE rows == Resolved(base)
           human == Human(rows)
           need == Need(base, HoldoutTarget)
           label == [i \in rows |-> IF i \in human THEN review[i].label ELSE review[i].llm]
           new(seats) == [i \in rows |-> [label |-> label[i], split |-> seats[i],
                                   source |-> IF i \in human THEN "human" ELSE "llm"]]
           merged(seats) == Merged(base, new(seats))
<1>1. PICK seats \in SeatRows(label, human, rows \ human, need, DevN) :
        goldV3' = IF humanOnly THEN HumanOnly(merged(seats)) ELSE merged(seats)
  BY DEF MergeGold
<1>2. /\ rows \subseteq DOMAIN review /\ rows \cap DOMAIN base = {}
      /\ IsFiniteSet(human) /\ IsFiniteSet(rows \ human) /\ human \subseteq rows
  BY ResolvedRows
<1>3. seats \in [rows -> Splits]
  <2>1. need \in Nat /\ DevN \in Nat
    BY BaseFacts DEF GoldInv, GoldAssumption
  <2>2. human \cap (rows \ human) = {} /\ human \cup (rows \ human) = rows
    BY <1>2
  <2> HIDE DEF human, need, label, rows
  <2>3. seats \in [human \cup (rows \ human) -> Splits]
    BY <1>1, <1>2, <2>1, <2>2, SeatRowsFill
  <2> QED BY <2>2, <2>3
<1>4. base \in [DOMAIN base -> GoldRow]
  BY BaseFacts DEF GoldInv
<1>5. label \in [rows -> Labels]
  <2> SUFFICES ASSUME NEW i \in rows
               PROVE  (IF i \in human THEN review[i].label ELSE review[i].llm) \in Labels
    OBVIOUS
  <2>1. review[i] \in Review
    BY <1>2, TypeParts DEF GoldInv, ReviewOK
  <2>2. i \in human => review[i].label # ""
    BY DEF Human
  <2> QED BY <2>1, <2>2 DEF Review
<1>6. new(seats) \in [rows -> GoldRow]
  <2> SUFFICES ASSUME NEW i \in rows
               PROVE  [label |-> label[i], split |-> seats[i],
                       source |-> IF i \in human THEN "human" ELSE "llm"] \in GoldRow
    OBVIOUS
  <2>1. label[i] \in Labels /\ seats[i] \in Splits
    BY <1>3, <1>5
  <2> HIDE DEF label, human, rows
  <2> QED BY <2>1 DEF GoldRow, Sources
<1>7. \A i \in rows : /\ new(seats)[i].split = seats[i]
                      /\ i \in human => new(seats)[i].source = "human"
  OBVIOUS
<1>8. merged(seats) = [i \in DOMAIN base \cup rows |->
                         IF i \in DOMAIN base THEN base[i] ELSE new(seats)[i]]
  BY DEF Merged, Joined
<1> HIDE DEF new, merged, label, human, rows, need
<1>9. /\ merged(seats) \in [DOMAIN base \cup rows -> GoldRow]
      /\ \A i \in DOMAIN base : merged(seats)[i] = base[i]
      /\ \A i \in rows : merged(seats)[i] = new(seats)[i]
  BY <1>2, <1>4, <1>6, <1>8
<1>10. HumanOnly(merged(seats)) =
         [i \in {j \in DOMAIN base \cup rows :
                   ~(merged(seats)[j].split = "train" /\ merged(seats)[j].source = "llm")} |->
            merged(seats)[i]]
  BY <1>9 DEF HumanOnly, Restrict
<1>11. /\ DOMAIN goldV3' \subseteq DOMAIN base \cup rows
       /\ goldV3' \in [DOMAIN goldV3' -> GoldRow]
       /\ \A i \in DOMAIN goldV3' : goldV3'[i] = merged(seats)[i]
       /\ \A i \in DOMAIN base \cup rows :
            merged(seats)[i].split # "train" \/ merged(seats)[i].source # "llm"
              => i \in DOMAIN goldV3'
  <2>1. CASE humanOnly
    BY <1>1, <1>9, <1>10, <2>1
  <2>2. CASE ~humanOnly
    BY <1>1, <1>9, <2>2
  <2> QED BY <2>1, <2>2
<1>12. Written(base, seats)
  <2>1. /\ \A i \in DOMAIN base : i \in DOMAIN goldV3' => goldV3'[i] = base[i]
        /\ \A i \in DOMAIN base : base[i].source = "human" => i \in DOMAIN goldV3'
    BY <1>9, <1>11
  <2>2. /\ \A i \in rows : i \in DOMAIN goldV3' => /\ goldV3'[i].split = seats[i]
                                                   /\ i \in human => goldV3'[i].source = "human"
        /\ \A i \in rows : seats[i] # "train" => i \in DOMAIN goldV3'
    BY <1>7, <1>9, <1>11
  <2> QED BY <1>11, <2>1, <2>2 DEF Written, rows, human
<1> QED BY <1>1, <1>3, <1>12 DEF rows, human, need

LEMMA MergeGoldKeeps ==
  ASSUME GoldAssumption, GoldInv, NEW base \in Bases, NEW humanOnly \in BOOLEAN,
         MergeGold(base, humanOnly)
  PROVE  GoldInv'
<1> DEFINE rows == Resolved(base)
<1>1. /\ LabellingOK /\ ReviewOK /\ GoldOK /\ UsesOK
      /\ EnoughFlagged /\ KeepsGold /\ HeldOutUntouched
  BY TypeParts DEF GoldInv
<1>2. PICK label, seats : seats \in [rows -> Splits] /\ Written(base, seats)
  BY MergeWrites
<1>3. rows \subseteq Candidates /\ rows \cap DOMAIN base = {} /\ rows \cap DOMAIN Gold = {}
  BY ResolvedRows DEF Candidates
<1>4. /\ merges < MaxMerges /\ merges' = merges + 1
      /\ placed' = placed \cup rows
      /\ replaced' = (replaced \/ rows \cap placed # {})
      /\ preds' = preds /\ trained' = trained /\ tuned' = tuned
      /\ UNCHANGED labelling /\ UNCHANGED <<review, selected>>
  BY DEF MergeGold, history
<1>5. /\ DOMAIN goldV3' \subseteq DOMAIN base \cup rows
      /\ \A i \in DOMAIN base : i \in DOMAIN goldV3' => goldV3'[i] = base[i]
      /\ \A i \in DOMAIN base : base[i].source = "human" => i \in DOMAIN goldV3'
  BY <1>2 DEF Written
<1>6. DOMAIN base \subseteq DOMAIN Gold \cup placed
  BY BaseFacts DEF GoldInv
<1>7. DOMAIN Gold \subseteq DOMAIN base /\ \A i \in DOMAIN Gold : base[i] = Gold[i]
  BY <1>1, BaseAgrees
<1> HIDE DEF rows
<1>8. GoldOK'
  <2>1. merges' \in 0 .. MaxMerges
    BY <1>1, <1>4 DEF GoldOK, GoldAssumption
  <2>2. replaced' \in BOOLEAN
    BY <1>4
  <2>3. goldV3' \in [DOMAIN goldV3' -> GoldRow]
    BY <1>2 DEF Written
  <2>4. placed' \subseteq Candidates /\ \A i \in DOMAIN goldV3' : i \in DOMAIN Gold \cup placed'
    BY <1>1, <1>3, <1>4, <1>5, <1>6 DEF GoldOK
  <2> QED BY <2>1, <2>2, <2>3, <2>4 DEF GoldOK
<1>9. KeepsGold'
  <2>1. DOMAIN Gold \subseteq DOMAIN goldV3'
    <3> SUFFICES ASSUME NEW i \in DOMAIN Gold PROVE i \in DOMAIN goldV3'
      OBVIOUS
    <3>1. Gold[i].source = "human"
      BY DEF GoldAssumption
    <3> QED BY <1>5, <1>7, <3>1
  <2>2. \A i \in DOMAIN Gold \cap DOMAIN goldV3' : goldV3'[i] = Gold[i]
    BY <1>5, <1>7
  <2>3. placed' \cap DOMAIN Gold = {}
    BY <1>1, <1>3, <1>4 DEF KeepsGold
  <2> QED BY <1>1, <1>4, <2>1, <2>2, <2>3 DEF KeepsGold, InSplit
<1>10. UsesOK'
  <2>1. DOMAIN goldV3 \subseteq DOMAIN Gold \cup placed
    BY <1>1 DEF GoldOK
  <2>2. DOMAIN Gold \subseteq DOMAIN goldV3'
    BY <1>5, <1>7, <1>9 DEF KeepsGold, Empty, GoldAssumption
  <2> QED BY <1>1, <1>4, <2>1, <2>2 DEF UsesOK
<1>11. HeldOutUntouched'
  <2> SUFFICES ASSUME ~replaced'
               PROVE  /\ trained \cap InSplit(goldV3', {"holdout", "dev"}) = {}
                      /\ tuned \cap InSplit(goldV3', {"holdout"}) = {}
    BY <1>4 DEF HeldOutUntouched, InSplit
  <2>1. ~replaced /\ rows \cap placed = {}
    BY <1>4
  <2>2. rows \cap (trained \cup tuned) = {}
    BY <1>1, <1>3, <2>1 DEF UsesOK
  <2>3. /\ trained \cap InSplit(base, {"holdout", "dev"}) = {}
        /\ tuned \cap InSplit(base, {"holdout"}) = {}
    <3>1. base = Gold \/ base = goldV3
      BY DEF Bases
    <3> QED BY <1>1, <2>1, <3>1 DEF KeepsGold, HeldOutUntouched
  <2>4. ASSUME NEW names, NEW i \in InSplit(goldV3', names), i \in trained \cup tuned
        PROVE  i \in InSplit(base, names)
    BY <1>5, <2>2, <2>4 DEF InSplit
  <2> QED BY <2>3, <2>4
<1>12. LabellingOK' /\ ReviewOK' /\ EnoughFlagged'
  BY <1>1, <1>4, LabellingKept, ReviewKept
<1> QED BY <1>8, <1>9, <1>10, <1>11, <1>12, TypePartsNext DEF GoldInv

LEMMA TrainKeeps ==
  ASSUME GoldAssumption, GoldInv, NEW gold \in Bases, NEW devFromGold \in BOOLEAN,
         Train(gold, devFromGold)
  PROVE  GoldInv'
<1>1. /\ LabellingOK /\ ReviewOK /\ GoldOK /\ UsesOK
      /\ EnoughFlagged /\ KeepsGold /\ HeldOutUntouched
  BY TypeParts DEF GoldInv
<1>2. gold = Gold \/ gold = goldV3
  BY DEF Bases
<1>3. /\ trained' = trained \cup OwnDomain(gold)
      /\ tuned' \subseteq tuned \cup InSplit(goldV3, {"dev"})
      /\ goldV3' = goldV3 /\ preds' = preds /\ placed' = placed /\ replaced' = replaced
      /\ UNCHANGED labelling /\ UNCHANGED <<review, selected>>
      /\ UNCHANGED <<goldV3, merges, placed, replaced>>
  BY DEF Train, seating
<1>4. \A i \in DOMAIN Gold \cap DOMAIN goldV3 : goldV3[i] = Gold[i]
  BY <1>1 DEF KeepsGold
<1>5. /\ OwnDomain(gold) \cap InSplit(goldV3, {"holdout", "dev"}) = {}
      /\ OwnDomain(gold) \cap InSplit(Gold, {"holdout", "dev"}) = {}
  BY <1>2, <1>4 DEF OwnDomain, InSplit
<1>6. /\ InSplit(goldV3, {"dev"}) \cap InSplit(goldV3, {"holdout"}) = {}
      /\ InSplit(goldV3, {"dev"}) \cap InSplit(Gold, {"holdout"}) = {}
  BY <1>4 DEF InSplit
<1>7. OwnDomain(gold) \cup InSplit(goldV3, {"dev"}) \subseteq DOMAIN Gold \cup placed
  BY <1>1, <1>2 DEF OwnDomain, InSplit, GoldOK
<1>8. UsesOK'
  BY <1>1, <1>3, <1>7 DEF UsesOK
<1>9. KeepsGold' /\ HeldOutUntouched'
  <2>1. InSplit(goldV3', {"holdout", "dev"}) = InSplit(goldV3, {"holdout", "dev"})
        /\ InSplit(goldV3', {"holdout"}) = InSplit(goldV3, {"holdout"})
    BY <1>3
  <2>2. HeldOutUntouched'
    BY <1>1, <1>3, <1>5, <1>6, <2>1 DEF HeldOutUntouched
  <2>3. KeepsGold'
    BY <1>1, <1>3, <1>5, <1>6 DEF KeepsGold, Empty
  <2> QED BY <2>2, <2>3
<1> QED BY <1>1, <1>3, <1>8, <1>9, LabellingKept, ReviewKept, GoldKept, TypePartsNext DEF GoldInv

LEMMA PredictKeeps == ASSUME GoldInv, Predict PROVE GoldInv'
<1>1. /\ LabellingOK /\ ReviewOK /\ GoldOK /\ UsesOK
      /\ EnoughFlagged /\ KeepsGold /\ HeldOutUntouched
  BY TypeParts DEF GoldInv
<1>2. /\ preds' = DOMAIN goldV3 /\ goldV3' = goldV3 /\ placed' = placed
      /\ replaced' = replaced /\ trained' = trained /\ tuned' = tuned
      /\ UNCHANGED labelling /\ UNCHANGED <<review, selected>>
      /\ UNCHANGED <<goldV3, merges, placed, replaced>>
  BY DEF Predict, seating, history
<1>3. UsesOK' /\ KeepsGold' /\ HeldOutUntouched'
  BY <1>1, <1>2 DEF UsesOK, KeepsGold, HeldOutUntouched, InSplit, Empty
<1> QED BY <1>1, <1>2, <1>3, LabellingKept, ReviewKept, GoldKept, TypePartsNext DEF GoldInv

LEMMA TuneKeeps == ASSUME GoldInv, Tune PROVE GoldInv'
<1>1. /\ LabellingOK /\ ReviewOK /\ GoldOK /\ UsesOK
      /\ EnoughFlagged /\ KeepsGold /\ HeldOutUntouched
  BY TypeParts DEF GoldInv
<1>2. /\ preds' = preds /\ goldV3' = goldV3 /\ placed' = placed
      /\ replaced' = replaced /\ trained' = trained /\ tuned' = tuned \cup JoinSplit("dev")
      /\ UNCHANGED labelling /\ UNCHANGED <<review, selected>>
      /\ UNCHANGED <<goldV3, merges, placed, replaced>>
  BY DEF Tune, seating
<1>3. /\ JoinSplit("dev") \cap InSplit(goldV3, {"holdout"}) = {}
      /\ JoinSplit("dev") \cap InSplit(Gold, {"holdout"}) = {}
      /\ JoinSplit("dev") \subseteq DOMAIN Gold \cup placed
  BY <1>1 DEF JoinSplit, InSplit, KeepsGold, GoldOK
<1>4. UsesOK'
  BY <1>1, <1>2, <1>3 DEF UsesOK
<1>5. HeldOutUntouched'
  <2>1. InSplit(goldV3', {"holdout", "dev"}) = InSplit(goldV3, {"holdout", "dev"})
        /\ InSplit(goldV3', {"holdout"}) = InSplit(goldV3, {"holdout"})
    BY <1>2
  <2> QED BY <1>1, <1>2, <1>3, <2>1 DEF HeldOutUntouched
<1>6. KeepsGold'
  BY <1>1, <1>2, <1>3 DEF KeepsGold, Empty
<1> QED BY <1>1, <1>2, <1>4, <1>5, <1>6, LabellingKept, ReviewKept, GoldKept, TypePartsNext DEF GoldInv

LEMMA GoldStutter == ASSUME GoldInv, UNCHANGED vars PROVE GoldInv'
<1>1. /\ LabellingOK /\ ReviewOK /\ GoldOK /\ UsesOK
      /\ EnoughFlagged /\ KeepsGold /\ HeldOutUntouched
  BY TypeParts DEF GoldInv
<1>2. UNCHANGED labelling /\ UNCHANGED <<review, selected>>
      /\ UNCHANGED <<goldV3, merges, placed, replaced>>
      /\ UNCHANGED <<goldV3, placed, replaced, preds, history>>
  BY DEF vars, seating
<1> QED BY <1>1, <1>2, LabellingKept, ReviewKept, GoldKept, UsesKept, TypePartsNext DEF GoldInv

-----------------------------------------------------------------------------
(* The theorems *)

\* The files of the gold set and the history of their rows keep GoldInv
\* through every order of the commands, on either gold file
\* (prelabel_chunks.py main, merge_gold.py main, train.py main, predict.py).
THEOREM GoldInvariant == Spec => []GoldInv
<1>1. Init => GoldInv
  BY GoldAssumption, GoldInit
<1>2. GoldInv /\ [Next]_vars => GoldInv'
  <2> SUFFICES ASSUME GoldInv, [Next]_vars PROVE GoldInv'
    OBVIOUS
  <2>1. CASE \E x \in Exports, base \in Bases : Split(x, base)
    BY <2>1, GoldAssumption, SplitKeeps
  <2>2. CASE \E k \in DOMAIN chunks : Prelabel(k)
    BY <2>2, GoldAssumption, PrelabelKeeps
  <2>3. CASE MergeChunks
    BY <2>3, GoldAssumption, MergeChunksKeeps
  <2>4. CASE \E base \in Bases : Select(base)
    BY <2>4, GoldAssumption, SelectKeeps
  <2>5. CASE \E i \in DOMAIN review : Fill(i)
    BY <2>5, GoldAssumption, FillKeeps
  <2>6. CASE \E base \in Bases, humanOnly \in BOOLEAN : MergeGold(base, humanOnly)
    BY <2>6, GoldAssumption, MergeGoldKeeps
  <2>7. CASE \E gold \in Bases, devFromGold \in BOOLEAN : Train(gold, devFromGold)
    BY <2>7, GoldAssumption, TrainKeeps
  <2>8. CASE Predict
    BY <2>8, PredictKeeps
  <2>9. CASE Tune
    BY <2>9, TuneKeeps
  <2>10. CASE UNCHANGED vars
    BY <2>10, GoldStutter
  <2> QED BY <2>1, <2>2, <2>3, <2>4, <2>5, <2>6, <2>7, <2>8, <2>9, <2>10 DEF Next
<1> QED BY <1>1, <1>2, PTL DEF Spec

\* The files are well formed: every candidate sits in one place of one chunk,
\* a chunk is never empty or too long, and a gold row is old gold or was split
\* (split_into_chunks, prelabel_chunks.py:120-135; merge_gold_rows).
THEOREM GoldTypeCorrect == Spec => []TypeOK
<1>1. GoldInv => TypeOK
  BY DEF GoldInv
<1> QED BY <1>1, GoldInvariant, PTL

\* No row that is held out was trained on, and no holdout row chose a
\* checkpoint or a threshold, while no row was split twice
\* (load_own_domain, loaders.py:266-268; join_split and tune).
THEOREM HeldOutKeptOut == Spec => []HeldOutUntouched
<1>1. GoldInv => HeldOutUntouched
  BY DEF GoldInv
<1> QED BY <1>1, GoldInvariant, PTL

\* What merge_gold adds to a split is what it seats there.
LEMMA NewRows ==
  ASSUME NEW base, NEW seats \in [Resolved(base) -> Splits], Written(base, seats),
         Resolved(base) \cap DOMAIN base = {}
  PROVE  /\ \A s \in Splits : NewIn(base, {s}) \subseteq Seated(seats, s)
         /\ NewIn(base, {"holdout"}) = Seated(seats, "holdout")
         /\ NewIn(base, {"dev"}) = Seated(seats, "dev")
<1> DEFINE rows == Resolved(base)
<1>1. ASSUME NEW s, NEW i \in NewIn(base, {s}) PROVE i \in rows /\ seats[i] = s
  BY <1>1 DEF NewIn, InSplit, Written
<1>2. ASSUME NEW s, s # "train", NEW i \in rows, seats[i] = s PROVE i \in NewIn(base, {s})
  BY <1>2 DEF NewIn, InSplit, Written
<1> QED BY <1>1, <1>2 DEF Seated

\* The seats of holdout and dev add up over the two rounds, for every review
\* and either gold file (merge_gold.py:448-461).
THEOREM SeatsAddUp == Spec => SeatCounts
<1>1. ASSUME GoldInv, NEW base \in Bases, Merging(base)
      PROVE  LET held == Cardinality(NewIn(base, {"holdout"}))
                 dev == Cardinality(NewIn(base, {"dev"}))
                 need == Need(base, HoldoutTarget)
             IN /\ held <= need /\ dev <= DevN
                /\ held < need => NewIn(base, {"dev", "train"}) = {}
                /\ dev < DevN => NewIn(base, {"train"}) = {}
  <2> DEFINE rows == Resolved(base)
             need == Need(base, HoldoutTarget)
             human == Human(rows)
             others == rows \ human
  <2>1. PICK humanOnly \in BOOLEAN : MergeGold(base, humanOnly)
    BY <1>1 DEF Merging
  <2>2. PICK label : \E seats \in SeatRows(label, human, others, need, DevN) :
                       seats \in [rows -> Splits] /\ Written(base, seats)
    BY <1>1, <2>1, GoldAssumption, MergeWrites
  <2>3. PICK seats \in SeatRows(label, human, others, need, DevN) :
               seats \in [rows -> Splits] /\ Written(base, seats)
    BY <2>2
  <2>4. /\ IsFiniteSet(human) /\ IsFiniteSet(others) /\ human \cap others = {}
        /\ rows \cap DOMAIN base = {}
    BY <1>1, GoldAssumption, ResolvedRows
  <2>5. need \in Nat /\ DevN \in Nat
    <3>1. TypeOK /\ base \in Bases
      BY <1>1 DEF GoldInv
    <3>2. need \in 0 .. HoldoutTarget
      BY <3>1, GoldAssumption, BaseFacts
    <3> QED BY <3>2, GoldAssumption DEF GoldAssumption
  <2>6. /\ \A s \in Splits : NewIn(base, {s}) \subseteq Seated(seats, s)
        /\ NewIn(base, {"holdout"}) = Seated(seats, "holdout")
        /\ NewIn(base, {"dev"}) = Seated(seats, "dev")
    BY <2>3, <2>4, NewRows
  <2> HIDE DEF human, others, rows, need
  <2>7. /\ Cardinality(Seated(seats, "holdout")) <= need
        /\ Cardinality(Seated(seats, "dev")) <= DevN
        /\ Cardinality(Seated(seats, "holdout")) < need =>
             Seated(seats, "dev") = {} /\ Seated(seats, "train") = {}
        /\ Cardinality(Seated(seats, "dev")) < DevN => Seated(seats, "train") = {}
    BY <2>3, <2>4, <2>5, SeatRowsFill
  <2>8. NewIn(base, {"train"}) \subseteq Seated(seats, "train")
    BY <2>6 DEF Splits
  <2>9. NewIn(base, {"dev", "train"}) = NewIn(base, {"dev"}) \cup NewIn(base, {"train"})
    BY DEF NewIn, InSplit
  <2> QED BY <2>6, <2>7, <2>8, <2>9 DEF need
<1>2. GoldInv /\ [Next]_vars =>
        [\A base \in Bases :
           Merging(base) =>
             LET held == Cardinality(NewIn(base, {"holdout"}))
                 dev == Cardinality(NewIn(base, {"dev"}))
                 need == Need(base, HoldoutTarget)
             IN /\ held <= need /\ dev <= DevN
                /\ held < need => NewIn(base, {"dev", "train"}) = {}
                /\ dev < DevN => NewIn(base, {"train"}) = {}]_vars
  BY <1>1
<1> QED BY <1>2, GoldInvariant, PTL DEF Spec, SeatCounts

\* The human has read every new holdout and dev row, once every flagged row
\* was read and the seats are the ones the rows were flagged for: flagging
\* takes enough rows to fill them, and human rows are seated first
\* (mark_review_required, prelabel_chunks.py:278; merge_gold.py:448-461).
THEOREM SeatsRead == Spec => SeatsReviewed
<1>1. ASSUME GoldInv, NEW base \in Bases, Merging(base),
             selected = {Need(base, HoldoutTarget)},
             DOMAIN review \cap DOMAIN base = {},
             \A i \in DOMAIN review : review[i].required => review[i].label # ""
      PROVE  \A i \in NewIn(base, {"holdout", "dev"}) : goldV3'[i].source = "human"
  <2> DEFINE rows == Resolved(base)
             need == Need(base, HoldoutTarget)
             human == Human(rows)
             others == rows \ human
  <2>1. PICK humanOnly \in BOOLEAN : MergeGold(base, humanOnly)
    BY <1>1 DEF Merging
  <2>2. PICK label : \E seats \in SeatRows(label, human, others, need, DevN) :
                       seats \in [rows -> Splits] /\ Written(base, seats)
    BY <1>1, <2>1, GoldAssumption, MergeWrites
  <2>3. PICK seats \in SeatRows(label, human, others, need, DevN) :
               seats \in [rows -> Splits] /\ Written(base, seats)
    BY <2>2
  <2>4. /\ IsFiniteSet(human) /\ IsFiniteSet(others) /\ human \cap others = {}
        /\ rows \cap DOMAIN base = {} /\ human \subseteq rows
    BY <1>1, GoldAssumption, ResolvedRows
  <2>5. need \in Nat /\ DevN \in Nat
    <3>1. TypeOK /\ base \in Bases
      BY <1>1 DEF GoldInv
    <3>2. need \in 0 .. HoldoutTarget
      BY <3>1, GoldAssumption, BaseFacts
    <3> QED BY <3>2, GoldAssumption DEF GoldAssumption
  <2>6. rows = DOMAIN review /\ Flagged \subseteq human
    BY <1>1 DEF Resolved, Human, Flagged
  <2>7. Cardinality(human) >= need + DevN \/ others = {}
    <3>1. Cardinality(Flagged) >= need + DevN \/ Flagged = DOMAIN review
      BY <1>1 DEF GoldInv, EnoughFlagged
    <3>2. Cardinality(Flagged) <= Cardinality(human) /\ IsFiniteSet(Flagged)
      BY <2>4, <2>6, FS_Subset
    <3>3. Cardinality(Flagged) \in Nat /\ Cardinality(human) \in Nat
      BY <2>4, <3>2, FS_CardinalityType
    <3>4. CASE Cardinality(Flagged) >= need + DevN
      <4> HIDE DEF human, need
      <4> QED BY <2>5, <3>2, <3>3, <3>4
    <3>5. CASE Flagged = DOMAIN review
      BY <2>6, <3>5
    <3> QED BY <3>1, <3>4, <3>5
  <2> HIDE DEF human, others, rows, need
  <2>8. Seated(seats, "holdout") \cup Seated(seats, "dev") \subseteq human
    BY <2>3, <2>4, <2>5, <2>7, SeatRowsFill
  <2> SUFFICES ASSUME NEW i \in NewIn(base, {"holdout", "dev"})
               PROVE  goldV3'[i].source = "human"
    OBVIOUS
  <2>9. i \in DOMAIN goldV3' /\ i \notin DOMAIN base /\ goldV3'[i].split \in {"holdout", "dev"}
    BY DEF NewIn, InSplit
  <2>10. i \in rows /\ goldV3'[i].split = seats[i]
    BY <2>3, <2>9 DEF Written, rows
  <2>11. i \in human
    BY <2>3, <2>8, <2>9, <2>10 DEF Seated
  <2> QED BY <2>3, <2>9, <2>10, <2>11 DEF Written, rows, human
<1>2. GoldInv /\ [Next]_vars =>
        [\A base \in Bases :
           /\ Merging(base)
           /\ selected = {Need(base, HoldoutTarget)}
           /\ DOMAIN review \cap DOMAIN base = {}
           /\ \A i \in DOMAIN review : review[i].required => review[i].label # ""
           => \A i \in NewIn(base, {"holdout", "dev"}) : goldV3'[i].source = "human"]_vars
  BY <1>1
<1> QED BY <1>2, GoldInvariant, PTL DEF Spec, SeatsReviewed

=============================================================================
