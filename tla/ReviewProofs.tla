---------------------------- MODULE ReviewProofs -----------------------------
(***************************************************************************)
(* Theorems about reviews, for any bookings, creators, ratings and number  *)
(* of concurrent requests: the rating on a profile is that of its committed*)
(* reviews, and a reader who pages through them while others are written   *)
(* sees each once, in order, and misses none that was there.               *)
(*                                                                         *)
(* The rating's bounds need the sum of a set to be what its recursive      *)
(* definition says: two such functions agree (SumsAgree), one exists       *)
(* (SumsExist), each by a smallest set for which it would not hold.        *)
(***************************************************************************)
EXTENDS ReviewList, FiniteSetTheorems, WellFoundedInduction, TLAPS

(* The review that a sum takes out of a set first.                         *)
Chosen(rows) == CHOOSE v \in rows : TRUE

(* The function the sum is defined with, for the subsets of a set.         *)
Sums(f, rows) ==
  f = [s \in SUBSET rows |-> IF s = {} THEN 0 ELSE Chosen(s).rating + f[s \ {Chosen(s)}]]

LEMMA ChosenIsMember == ASSUME NEW rows, rows # {} PROVE Chosen(rows) \in rows
  BY DEF Chosen

LEMMA SumIsChosen ==
  ASSUME NEW rows
  PROVE SumOfRatings(rows) = (CHOOSE f : Sums(f, rows))[rows]
  BY DEF SumOfRatings, MapThenSumSet, MapThenFoldSet, Sums, Chosen

(* A non-empty set of finite sets has a smallest member.                   *)
LEMMA SmallestSet ==
  ASSUME NEW rows, IsFiniteSet(rows), NEW T, T \subseteq SUBSET rows, T # {}
  PROVE  \E s \in T : \A t \in T : ~(t \subseteq s /\ t # s)
<1>1. IsWellFoundedOn(StrictSubsetOrdering(rows), SUBSET rows)
  BY FS_StrictSubsetOrderingWellFounded, FS_FiniteSubsetsOfFinite
<1>2. PICK s \in T : \A t \in T : ~(<<t, s>> \in StrictSubsetOrdering(rows))
  BY <1>1, WFMin
<1>3. ASSUME NEW t \in T, t \subseteq s, t # s
      PROVE  <<t, s>> \in StrictSubsetOrdering(rows)
  BY <1>3 DEF StrictSubsetOrdering
<1>4. \A t \in T : ~(t \subseteq s /\ t # s)
  BY <1>2, <1>3
<1>5. QED
  BY <1>4

LEMMA SumsAgree ==
  ASSUME NEW rows, IsFiniteSet(rows), NEW f, NEW g, NEW a, NEW b, Sums(f, a), Sums(g, b),
         a \subseteq rows, b \subseteq rows,
         NEW s, s \subseteq a, s \subseteq b
  PROVE  f[s] = g[s]
<1> DEFINE Differ == {t \in SUBSET rows : t \subseteq a /\ t \subseteq b /\ f[t] # g[t]}
<1>1. SUFFICES ASSUME Differ # {} PROVE FALSE
  BY DEF Differ
<1>2. PICK t \in Differ : \A u \in Differ : ~(u \subseteq t /\ u # t)
  <2> HIDE DEF Differ
  <2>1. Differ \subseteq SUBSET rows
    BY DEF Differ
  <2>2. QED
    BY <1>1, <2>1, SmallestSet
<1>3. /\ t \subseteq a => f[t] = IF t = {} THEN 0 ELSE Chosen(t).rating + f[t \ {Chosen(t)}]
      /\ t \subseteq b => g[t] = IF t = {} THEN 0 ELSE Chosen(t).rating + g[t \ {Chosen(t)}]
  BY DEF Sums
<1>4. t # {}
  BY <1>2, <1>3
<1>5. t \ {Chosen(t)} \subseteq t /\ t \ {Chosen(t)} # t
  BY <1>4, ChosenIsMember
<1>6. f[t \ {Chosen(t)}] = g[t \ {Chosen(t)}]
  BY <1>2, <1>5
<1>7. QED
  BY <1>2, <1>3, <1>4, <1>6

(* A finite set of reviews has a sum, of one to five stars for each.       *)
LEMMA SumsExist ==
  ASSUME NEW rows, IsFiniteSet(rows), rows \subseteq Review
  PROVE  \E f : /\ Sums(f, rows)
               /\ f[rows] \in Nat /\ Cardinality(rows) <= f[rows] /\ f[rows] <= 5 * Cardinality(rows)
<1> DEFINE Summed(f, s) ==
             /\ Sums(f, s)
             /\ f[s] \in Nat /\ Cardinality(s) <= f[s] /\ f[s] <= 5 * Cardinality(s)
           Bad == {s \in SUBSET rows : ~\E f : Summed(f, s)}
<1>1. SUFFICES ASSUME Bad # {} PROVE FALSE
  BY DEF Bad
<1>2. PICK t \in Bad : \A u \in Bad : ~(u \subseteq t /\ u # t)
  <2> HIDE DEF Bad
  <2>1. Bad \subseteq SUBSET rows
    BY DEF Bad
  <2>2. QED
    BY <1>1, <2>1, SmallestSet
<1> DEFINE F(s) == CHOOSE f : Summed(f, s)
           g == [s \in SUBSET t |-> IF s = {} THEN 0
                   ELSE Chosen(s).rating + F(s \ {Chosen(s)})[s \ {Chosen(s)}]]
<1>3. t \subseteq rows /\ IsFiniteSet(t)
  BY <1>2, FS_Subset DEF Bad
<1>4. ASSUME NEW s, s \subseteq t, s # t
      PROVE  Summed(F(s), s)
  <2>1. \E f : Summed(f, s)
    BY <1>2, <1>3, <1>4 DEF Bad
  <2> HIDE DEF Summed
  <2>2. QED
    BY <2>1
<1>5. ASSUME NEW s, s \subseteq t, s # {}
      PROVE  /\ s \ {Chosen(s)} \subseteq t /\ s \ {Chosen(s)} # t
             /\ Chosen(s) \in Review
  <2>1. Chosen(s) \in s
    BY <1>5, ChosenIsMember
  <2>2. QED
    BY <1>3, <1>5, <2>1
<1>6. ASSUME NEW s, s \subseteq t, s # t
      PROVE  g[s] = F(s)[s]
  <2>1. Sums(F(s), s)
    BY <1>4, <1>6
  <2>2. F(s)[s] = IF s = {} THEN 0 ELSE Chosen(s).rating + F(s)[s \ {Chosen(s)}]
    <3> DEFINE f == F(s)
    <3> HIDE DEF f
    <3>1. Sums(f, s)
      BY <2>1 DEF f
    <3>2. f[s] = IF s = {} THEN 0 ELSE Chosen(s).rating + f[s \ {Chosen(s)}]
      BY <3>1 DEF Sums
    <3>3. QED
      BY <3>2 DEF f
  <2>3. CASE s = {}
    BY <2>2, <2>3
  <2>4. CASE s # {}
    <3> DEFINE less == s \ {Chosen(s)}
    <3>1. less \subseteq t /\ less # t /\ less \subseteq s
      BY <1>5, <1>6, <2>4
    <3>2. Sums(F(less), less)
      BY <1>4, <3>1
    <3>3. F(s)[less] = F(less)[less]
      <4> HIDE DEF F, less
      <4>1. s \subseteq rows /\ less \subseteq rows /\ less \subseteq less
        BY <1>3, <1>6, <3>1
      <4>2. QED
        BY <2>1, <3>1, <3>2, <4>1, SumsAgree
    <3>4. g[s] = Chosen(s).rating + F(less)[less]
      <4> HIDE DEF F
      <4>1. QED
        BY <1>6, <2>4
    <3>5. QED
      BY <2>2, <2>4, <3>3, <3>4
  <2>5. QED
    BY <2>3, <2>4
<1>7. Sums(g, t)
  <2>1. ASSUME NEW s \in SUBSET t, s # {}
        PROVE  g[s \ {Chosen(s)}] = F(s \ {Chosen(s)})[s \ {Chosen(s)}]
    <3>1. s \ {Chosen(s)} \subseteq t /\ s \ {Chosen(s)} # t
      BY <1>5, <2>1
    <3> HIDE DEF F, g
    <3>2. QED
      BY <1>6, <3>1
  <2>2. g = [s \in SUBSET t |-> IF s = {} THEN 0 ELSE Chosen(s).rating + g[s \ {Chosen(s)}]]
    <3> DEFINE h == [s \in SUBSET t |-> IF s = {} THEN 0 ELSE Chosen(s).rating + g[s \ {Chosen(s)}]]
    <3>1. ASSUME NEW s \in SUBSET t PROVE g[s] = h[s]
      <4>1. h[s] = IF s = {} THEN 0 ELSE Chosen(s).rating + g[s \ {Chosen(s)}]
        <5> HIDE DEF g
        <5>1. QED
          OBVIOUS
      <4>2. g[s] = IF s = {} THEN 0 ELSE Chosen(s).rating + F(s \ {Chosen(s)})[s \ {Chosen(s)}]
        <5> HIDE DEF F
        <5>1. QED
          OBVIOUS
      <4> HIDE DEF g, h, F
      <4>3. QED
        BY <2>1, <4>1, <4>2
    <3>2. g = [s \in SUBSET t |-> g[s]]
      <4> HIDE DEF F
      <4>1. QED
        OBVIOUS
    <3>3. h = [s \in SUBSET t |-> h[s]]
      <4> HIDE DEF g
      <4>1. QED
        OBVIOUS
    <3>4. g = h
      <4> HIDE DEF g, h
      <4>1. QED
        BY <3>1, <3>2, <3>3
    <3>5. QED
      BY <3>4
  <2>3. QED
    BY <2>2 DEF Sums
<1>8. g[t] \in Nat /\ Cardinality(t) <= g[t] /\ g[t] <= 5 * Cardinality(t)
  <2>1. CASE t = {}
    <3>1. g[t] = 0 /\ Cardinality(t) = 0
      BY <2>1, FS_EmptySet
    <3>2. QED
      BY <3>1
  <2>2. CASE t # {}
    <3> DEFINE less == t \ {Chosen(t)}
               n == F(less)[less]
    <3>1. g[t] = Chosen(t).rating + n
      <4> HIDE DEF F
      <4>1. QED
        BY <2>2
    <3>2. n \in Nat /\ Cardinality(less) <= n /\ n <= 5 * Cardinality(less)
      BY <1>4, <1>5, <2>2
    <3>3. Chosen(t).rating \in 1..5
      BY <1>5, <2>2, AggregateAssumption DEF Review
    <3>4. Cardinality(less) = Cardinality(t) - 1 /\ Cardinality(t) \in Nat
      BY <1>3, <2>2, ChosenIsMember, FS_RemoveElement, FS_CardinalityType
    <3> HIDE DEF g, n, less
    <3>5. QED
      BY <3>1, <3>2, <3>3, <3>4
  <2>3. QED
    BY <2>1, <2>2
<1>9. Summed(g, t)
  BY <1>7, <1>8
<1>10. QED
  <2> HIDE DEF Summed, g
  <2>1. \E f : Summed(f, t)
    BY <1>9
  <2>2. QED
    BY <1>2, <2>1

(* The sum of the ratings is between one and five times their number.      *)
LEMMA SumBounds ==
  ASSUME NEW rows, IsFiniteSet(rows), rows \subseteq Review
  PROVE  /\ SumOfRatings(rows) \in Nat /\ Cardinality(rows) \in Nat
         /\ Cardinality(rows) <= SumOfRatings(rows)
         /\ SumOfRatings(rows) <= 5 * Cardinality(rows)
<1>1. PICK f : /\ Sums(f, rows)
               /\ f[rows] \in Nat /\ Cardinality(rows) <= f[rows] /\ f[rows] <= 5 * Cardinality(rows)
  BY SumsExist
<1> DEFINE g == CHOOSE h : Sums(h, rows)
<1>2. Sums(g, rows)
  BY <1>1
<1>3. g[rows] = f[rows]
  <2> HIDE DEF g
  <2>1. rows \subseteq rows
    OBVIOUS
  <2>2. QED
    BY <1>1, <1>2, <2>1, SumsAgree
<1>4. SumOfRatings(rows) = f[rows]
  BY <1>3, SumIsChosen
<1>5. QED
  BY <1>1, <1>4, FS_CardinalityType

LEMMA AverageBounds ==
  ASSUME NEW rows, IsFiniteSet(rows), rows \subseteq Review
  PROVE  Average(rows) \in 0..500
<1> DEFINE n == Cardinality(rows)
           sum == SumOfRatings(rows)
<1>1. n \in Nat /\ sum \in Nat /\ n <= sum /\ sum <= 5 * n
  BY SumBounds
<1>2. CASE n = 0
  BY <1>2 DEF Average
<1>3. CASE n # 0
  <2> HIDE DEF n, sum
  <2>1. (200 * sum + n) \div (2 * n) \in 0..500
    BY <1>1, <1>3
  <2>2. QED
    BY <1>3, <2>1 DEF Average, n, sum
<1>4. QED
  BY <1>2, <1>3

(* The aggregates a request may have calculated.                           *)
FiniteRows == {rows \in SUBSET Review : IsFiniteSet(rows)}
Summaries == {Summary(rows) : rows \in FiniteRows} \cup {Zero}

Shape ==
  /\ reviews \in FiniteRows
  /\ aggregate \in [Creators -> Summaries]
  /\ reviewTx \in [Reviewers -> [pc : Steps, b : Bookings \cup {NoBooking}, rating : Ratings \cup {0},
                          calculated : Summaries]]
  /\ \A r \in Reviewers :
       reviewTx[r].pc # "idle" => reviewTx[r].b \in Bookings /\ reviewTx[r].rating \in Ratings

(* The locks on a profile: FOR UPDATE excludes every other review of the   *)
(* creator that has inserted its row.                                      *)
LocksExclude ==
  \A r, s \in Reviewers :
    r # s /\ OwnsProfile(r) /\ SharesProfile(s) => ~SameCreator(r, s)

(* What a request calculated is still right when it commits.               *)
CalculationsStayCurrent ==
  \A r \in Reviewers :
    reviewTx[r].pc \in {"profile", "commit"} =>
      reviewTx[r].calculated = Summary(ReviewsOf(reviews \cup {New(r)}, CreatorOf[reviewTx[r].b]))

AggregateInv == Shape /\ LocksExclude /\ CalculationsStayCurrent /\ AggregateMatchesReviews

(* A review of another creator does not count.                             *)
LEMMA OtherCreator ==
  ASSUME NEW rows, NEW v \in Review, NEW c, CreatorOf[v.booking] # c
  PROVE  ReviewsOf(rows \cup {v}, c) = ReviewsOf(rows, c)
  BY DEF ReviewsOf

LEMMA SummaryType ==
  ASSUME NEW rows \in FiniteRows, NEW c
  PROVE  Summary(ReviewsOf(rows, c)) \in Summaries
<1>1. ReviewsOf(rows, c) \in SUBSET rows
  BY DEF ReviewsOf
<1>2. ReviewsOf(rows, c) \in FiniteRows
  BY <1>1, FS_Subset DEF FiniteRows
<1>3. QED
  BY <1>2 DEF Summaries

LEMMA OneMore ==
  ASSUME NEW rows \in FiniteRows, NEW v \in Review
  PROVE  rows \cup {v} \in FiniteRows
  BY FS_AddElement DEF FiniteRows

LEMMA SummariesAreAggregates == Summaries \subseteq Aggregate
<1>1. ASSUME NEW rows \in FiniteRows PROVE Summary(rows) \in Aggregate
  BY AverageBounds, FS_CardinalityType DEF FiniteRows, Summary, Aggregate
<1>2. QED
  BY <1>1 DEF Summaries, Aggregate, Zero

LEMMA InitAggregate == AggregateInit => AggregateInv
<1> SUFFICES ASSUME AggregateInit PROVE AggregateInv
  OBVIOUS
<1>1. Zero \in Summaries
  BY DEF Summaries
<1>2. Shape
  BY <1>1, FS_EmptySet DEF AggregateInit, Shape, NoReview, Steps, FiniteRows
<1>3. LocksExclude /\ CalculationsStayCurrent
  BY DEF AggregateInit, NoReview, LocksExclude, OwnsProfile, CalculationsStayCurrent
<1>4. AggregateMatchesReviews
  <2>1. ASSUME NEW c \in Creators PROVE Summary(ReviewsOf(reviews, c)) = Zero
    <3>1. ReviewsOf(reviews, c) = {}
      BY DEF AggregateInit, ReviewsOf
    <3>2. Summary({}) = Zero
      BY FS_EmptySet DEF Summary, Average, Zero
    <3>3. QED
      BY <3>1, <3>2
  <2>2. QED
    BY <2>1 DEF AggregateInit, AggregateMatchesReviews
<1>5. QED
  BY <1>2, <1>3, <1>4 DEF AggregateInv

(* A step of request r before its commit: it moves r alone.                *)
Waits(r) ==
  \/ LockBooking(r) \/ CheckExisting(r) \/ InsertReview(r) \/ LockProfile(r)
  \/ DeadlockVictim(r) \/ Crash(r)

LEMMA BeginAggregate ==
  ASSUME AggregateInv, NEW r \in Reviewers, BeginReview(r)
  PROVE  AggregateInv'
<1>1. Zero \in Summaries
  BY DEF Summaries
<1>2. PICK b \in Bookings, rating \in Ratings :
        reviewTx' = [reviewTx EXCEPT ![r] = [pc |-> "booking", b |-> b, rating |-> rating, calculated |-> Zero]]
  BY DEF BeginReview
<1>3. reviews' = reviews /\ aggregate' = aggregate
  BY DEF BeginReview
<1>4. Shape'
  BY <1>1, <1>2, <1>3 DEF AggregateInv, Shape, Steps
<1>5. LocksExclude'
  BY <1>2, <1>3 DEF AggregateInv, Shape, LocksExclude, OwnsProfile, SharesProfile, SameCreator
<1>6. CalculationsStayCurrent'
  BY <1>2, <1>3 DEF AggregateInv, Shape, CalculationsStayCurrent, New
<1>7. AggregateMatchesReviews'
  BY <1>3 DEF AggregateInv, AggregateMatchesReviews
<1>8. QED
  BY <1>4, <1>5, <1>6, <1>7 DEF AggregateInv

LEMMA WaitsAggregate ==
  ASSUME AggregateInv, NEW r \in Reviewers, Waits(r)
  PROVE  AggregateInv'
<1>1. reviews' = reviews /\ aggregate' = aggregate
  BY DEF Waits, LockBooking, CheckExisting, InsertReview, LockProfile, DeadlockVictim, Crash
<1>2. \/ reviewTx' = [reviewTx EXCEPT ![r] = NoReview]
      \/ reviewTx' = [reviewTx EXCEPT ![r].pc = "check"] /\ reviewTx[r].pc = "booking"
      \/ reviewTx' = [reviewTx EXCEPT ![r].pc = "insert"] /\ reviewTx[r].pc = "check"
      \/ /\ reviewTx' = [reviewTx EXCEPT ![r].pc = "calculate"] /\ reviewTx[r].pc = "insert"
         /\ \A s \in Others(r) : OwnsProfile(s) => ~SameCreator(r, s)
      \/ /\ reviewTx' = [reviewTx EXCEPT ![r].pc = "commit"] /\ reviewTx[r].pc = "profile"
         /\ \A s \in Others(r) : SharesProfile(s) \/ OwnsProfile(s) => ~SameCreator(r, s)
  BY DEF Waits, LockBooking, CheckExisting, InsertReview, LockProfile, DeadlockVictim, Crash,
         Goto, EndReview
<1>3. Shape'
  <2>1. Zero \in Summaries
    BY DEF Summaries
  <2>2. QED
    BY <1>1, <1>2, <2>1 DEF AggregateInv, Shape, Steps, NoReview
<1>4. LocksExclude'
  <2>1. \A s \in Reviewers \ {r} : OwnsProfile(s) \/ SharesProfile(s) => s \in Others(r)
    <3>1. \A s \in Reviewers : reviewTx[s].pc # "idle" => reviewTx[s].b # NoBooking
      BY AggregateAssumption DEF AggregateInv, Shape
    <3>2. QED
      BY <3>1 DEF OwnsProfile, SharesProfile, Others
  <2>2. SUFFICES ASSUME NEW p \in Reviewers, NEW q \in Reviewers, p # q,
                        OwnsProfile(p)', SharesProfile(q)'
                 PROVE  ~SameCreator(p, q)'
    BY DEF LocksExclude
  <2>3. CASE p # r /\ q # r
    BY <1>2, <2>2, <2>3
    DEF AggregateInv, Shape, LocksExclude, OwnsProfile, SharesProfile, SameCreator
  <2>4. CASE p = r
    <3>1. /\ reviewTx' = [reviewTx EXCEPT ![r].pc = "commit"]
          /\ \A s \in Others(r) : SharesProfile(s) \/ OwnsProfile(s) => ~SameCreator(r, s)
      BY <1>2, <2>2, <2>4 DEF AggregateInv, Shape, OwnsProfile, NoReview
    <3>2. SharesProfile(q) /\ q \in Others(r)
      BY <2>1, <2>2, <2>4, <3>1 DEF AggregateInv, Shape, SharesProfile
    <3>3. QED
      BY <2>2, <2>4, <3>1, <3>2 DEF AggregateInv, Shape, SameCreator
  <2>5. CASE q = r
    <3>1. OwnsProfile(p) /\ p \in Others(r) /\ reviewTx'[p] = reviewTx[p] /\ reviewTx'[r].b = reviewTx[r].b
      BY <1>2, <2>1, <2>2, <2>5 DEF AggregateInv, Shape, OwnsProfile, SharesProfile, NoReview
    <3>2. ~SameCreator(p, r)
      <4>1. CASE SharesProfile(r)
        BY <2>2, <2>5, <3>1, <4>1 DEF AggregateInv, LocksExclude
      <4>2. CASE ~SharesProfile(r)
        <5>1. reviewTx[r].pc = "insert"
          BY <1>2, <2>2, <2>5, <4>2 DEF AggregateInv, Shape, SharesProfile, NoReview
        <5>2. \A s \in Others(r) : OwnsProfile(s) => ~SameCreator(r, s)
          BY <1>2, <2>2, <2>5, <5>1 DEF AggregateInv, Shape, SharesProfile, NoReview
        <5>3. QED
          BY <3>1, <5>2 DEF SameCreator
      <4>3. QED
        BY <4>1, <4>2
    <3>3. QED
      BY <2>5, <3>1, <3>2 DEF SameCreator
  <2>6. QED
    BY <2>3, <2>4, <2>5
<1>5. CalculationsStayCurrent'
  <2>1. SUFFICES ASSUME NEW s \in Reviewers, reviewTx'[s].pc \in {"profile", "commit"}
                 PROVE  /\ reviewTx[s].pc \in {"profile", "commit"}
                        /\ reviewTx'[s].calculated = reviewTx[s].calculated
                        /\ reviewTx'[s].b = reviewTx[s].b
                        /\ reviewTx'[s].rating = reviewTx[s].rating
    BY <1>1 DEF AggregateInv, CalculationsStayCurrent, New
  <2>2. QED
    BY <1>2, <2>1 DEF AggregateInv, Shape, NoReview
<1>6. AggregateMatchesReviews'
  BY <1>1 DEF AggregateInv, AggregateMatchesReviews
<1>7. QED
  BY <1>3, <1>4, <1>5, <1>6 DEF AggregateInv

LEMMA CalculateAggregate ==
  ASSUME AggregateInv, NEW r \in Reviewers, Calculate(r)
  PROVE  AggregateInv'
<1> DEFINE found == Summary(ReviewsOf(reviews \cup {New(r)}, CreatorOf[reviewTx[r].b]))
<1>1. /\ reviewTx[r].pc = "calculate"
      /\ reviews' = reviews /\ aggregate' = aggregate
      /\ reviewTx' = [reviewTx EXCEPT ![r].pc = "profile", ![r].calculated = found]
  BY DEF Calculate
<1>2. New(r) \in Review
  BY <1>1 DEF AggregateInv, Shape, New, Review
<1>3. found \in Summaries
  BY <1>2, OneMore, SummaryType DEF AggregateInv, Shape
<1>4. Shape'
  BY <1>1, <1>3 DEF AggregateInv, Shape, Steps
<1>5. LocksExclude'
  BY <1>1 DEF AggregateInv, Shape, LocksExclude, OwnsProfile, SharesProfile, SameCreator
<1>6. CalculationsStayCurrent'
  <2>1. ASSUME NEW s \in Reviewers PROVE New(s)' = New(s) /\ reviewTx'[s].b = reviewTx[s].b
    BY <1>1 DEF AggregateInv, Shape, New
  <2>2. reviewTx'[r].calculated = found
    BY <1>1 DEF AggregateInv, Shape
  <2>3. ASSUME NEW s \in Reviewers \ {r} PROVE reviewTx'[s] = reviewTx[s]
    BY <1>1 DEF AggregateInv, Shape
  <2>4. QED
    BY <1>1, <2>1, <2>2, <2>3 DEF AggregateInv, CalculationsStayCurrent
<1>7. AggregateMatchesReviews'
  BY <1>1 DEF AggregateInv, AggregateMatchesReviews
<1>8. QED
  BY <1>4, <1>5, <1>6, <1>7 DEF AggregateInv

LEMMA CommitAggregate ==
  ASSUME AggregateInv, NEW r \in Reviewers, Commit(r)
  PROVE  AggregateInv'
<1> DEFINE c == CreatorOf[reviewTx[r].b]
<1>1. /\ reviewTx[r].pc = "commit"
      /\ reviews' = reviews \cup {New(r)}
      /\ aggregate' = [aggregate EXCEPT ![c] = reviewTx[r].calculated]
      /\ reviewTx' = [reviewTx EXCEPT ![r] = NoReview]
  BY DEF Commit, EndReview
<1>2. New(r) \in Review /\ New(r).booking = reviewTx[r].b
  BY <1>1 DEF AggregateInv, Shape, New, Review
<1>3. reviewTx[r].calculated = Summary(ReviewsOf(reviews', c))
  BY <1>1 DEF AggregateInv, CalculationsStayCurrent
<1>4. Shape'
  <2>1. Zero \in Summaries
    BY DEF Summaries
  <2>2. reviewTx[r].calculated \in Summaries
    BY DEF AggregateInv, Shape
  <2>3. reviews' \in FiniteRows
    BY <1>1, <1>2, OneMore DEF AggregateInv, Shape
  <2>4. QED
    BY <1>1, <1>2, <2>1, <2>2, <2>3 DEF AggregateInv, Shape, Steps, NoReview
<1>5. LocksExclude'
  BY <1>1 DEF AggregateInv, Shape, LocksExclude, OwnsProfile, SharesProfile, SameCreator, NoReview
<1>6. CalculationsStayCurrent'
  <2>1. SUFFICES ASSUME NEW s \in Reviewers, reviewTx'[s].pc \in {"profile", "commit"}
                 PROVE  (reviewTx[s].calculated =
                          Summary(ReviewsOf(reviews \cup {New(s)}, CreatorOf[reviewTx[s].b])))'
    BY DEF CalculationsStayCurrent
  <2>2. s # r /\ reviewTx'[s] = reviewTx[s]
    BY <1>1, <2>1 DEF AggregateInv, Shape, NoReview
  <2>3. CreatorOf[New(r).booking] # CreatorOf[reviewTx[s].b]
    BY <1>1, <1>2, <2>1, <2>2
    DEF AggregateInv, LocksExclude, OwnsProfile, SharesProfile, SameCreator
  <2>4. ReviewsOf((reviews \cup {New(s)}) \cup {New(r)}, CreatorOf[reviewTx[s].b])
          = ReviewsOf(reviews \cup {New(s)}, CreatorOf[reviewTx[s].b])
    BY <1>2, <2>3, OtherCreator
  <2>5. /\ (reviews \cup {New(s)})' = (reviews \cup {New(s)}) \cup {New(r)}
        /\ reviewTx[s].calculated = Summary(ReviewsOf(reviews \cup {New(s)}, CreatorOf[reviewTx[s].b]))
    BY <1>1, <2>1, <2>2 DEF AggregateInv, CalculationsStayCurrent, New
  <2>6. QED
    BY <2>2, <2>4, <2>5
<1>7. AggregateMatchesReviews'
  <2>1. SUFFICES ASSUME NEW d \in Creators
                 PROVE  aggregate'[d] = Summary(ReviewsOf(reviews', d))
    BY DEF AggregateMatchesReviews
  <2>2. CASE d = c
    BY <1>1, <1>3, <2>2 DEF AggregateInv, Shape
  <2>3. CASE d # c
    <3>1. ReviewsOf(reviews', d) = ReviewsOf(reviews, d)
      BY <1>1, <1>2, <2>3, OtherCreator
    <3>2. QED
      BY <1>1, <2>3, <3>1 DEF AggregateInv, Shape, AggregateMatchesReviews
  <2>4. QED
    BY <2>2, <2>3
<1>8. QED
  BY <1>4, <1>5, <1>6, <1>7 DEF AggregateInv

LEMMA NextAggregate == AggregateInv /\ [AggregateNext]_aggregateVars => AggregateInv'
<1> SUFFICES ASSUME AggregateInv, [AggregateNext]_aggregateVars PROVE AggregateInv'
  OBVIOUS
<1>1. CASE AggregateNext
  <2>1. PICK r \in Reviewers : BeginReview(r) \/ Waits(r) \/ Calculate(r) \/ Commit(r)
    BY <1>1 DEF AggregateNext, Proceed, Waits
  <2>2. QED
    BY <2>1, BeginAggregate, WaitsAggregate, CalculateAggregate, CommitAggregate
<1>2. CASE UNCHANGED aggregateVars
  BY <1>2
  DEF aggregateVars, AggregateInv, Shape, LocksExclude, CalculationsStayCurrent, AggregateMatchesReviews,
      OwnsProfile, SharesProfile, SameCreator, New
<1>3. QED
  BY <1>1, <1>2

(* The rating shown on a profile is always that of its reviews, however    *)
(* many are written at the same time, fail or are aborted.                 *)
THEOREM RatingsAreRight == AggregateSpec => []AggregateMatchesReviews
<1>1. AggregateInv => AggregateMatchesReviews
  BY DEF AggregateInv
<1>2. QED
  BY <1>1, InitAggregate, NextAggregate, PTL DEF AggregateSpec
-----------------------------------------------------------------------------
(* A booking has one review and one request that writes it: its row is     *)
(* locked from the check on.                                               *)
ReviewedOnce ==
  /\ \A v, w \in reviews : v.booking = w.booking => v = w
  /\ \A r, s \in Reviewers :
       r # s /\ HoldsBooking(r) /\ HoldsBooking(s) => reviewTx[r].b # reviewTx[s].b
  /\ \A r \in Reviewers : SharesProfile(r) => \A v \in reviews : v.booking # reviewTx[r].b

(* The reader's records.                                                   *)
Lists == [phase : {"closed", "loading", "shown", "error"}, items : Seq(Bookings),
          rating : Aggregate, more : BOOLEAN, cursor : Cursors]
Readings == [phase : {"idle", "asked", "profile", "done"}, first : BOOLEAN,
             rating : Aggregate, items : Seq(Bookings), more : BOOLEAN]

ListTypes ==
  /\ clock \in 0..MaxClock
  /\ began \in [Reviewers -> 0..MaxClock] /\ created \in [Bookings -> 0..MaxClock]
  /\ list \in Lists /\ reading \in Readings
  /\ known \subseteq Stored

(* A first page is read for an empty list, a later one for a list with a   *)
(* cursor.                                                                 *)
ReadingFits ==
  /\ list.phase = "loading" <=> reading.phase # "idle" /\ reading.first
  /\ reading.phase # "idle" /\ ~reading.first => list.phase = "shown" /\ list.more
  /\ list.phase # "shown" => list.items = <<>>
  /\ list.phase = "loading" => list.cursor = NoCursor

ListedInOrder ==
  /\ \A i \in DOMAIN list.items : list.items[i] \in Stored
  /\ NewestFirst(list.items)
  /\ list.phase = "shown" /\ list.more =>
       list.items # <<>> /\ list.cursor = Key(Last(list.items))

(* The page that was read goes on after the cursor, and leaves out only    *)
(* what lies behind its last row.                                          *)
PageGoesOn ==
  reading.phase = "done" =>
    /\ \A i \in DOMAIN reading.items :
         reading.items[i] \in Stored /\ Before(Key(reading.items[i]), list.cursor)
    /\ NewestFirst(reading.items)
    /\ reading.more => reading.items # <<>>
    /\ \A b \in known :
         Before(Key(b), list.cursor) =>
           \/ b \in ToSet(reading.items)
           \/ reading.more /\ Before(Key(b), Key(Last(reading.items)))

(* What there was is in the list or behind its cursor.                     *)
KnownAreCovered ==
  list.phase = "shown" =>
    \A b \in known : b \in ToSet(list.items) \/ (list.more /\ Before(Key(b), list.cursor))

(* The rating was read before the rows.                                    *)
RatingsAreCovered ==
  /\ reading.phase = "profile" /\ reading.first => reading.rating.count <= Cardinality(Stored)
  /\ reading.phase = "done" /\ reading.first => reading.rating.count <= Cardinality(known)
  /\ list.phase = "shown" => list.rating.count <= Cardinality(known)

ReaderInv ==
  ListTypes /\ ReadingFits /\ ListedInOrder /\ PageGoesOn /\ KnownAreCovered /\ RatingsAreCovered

ReviewListInv == AggregateInv /\ ReviewedOnce /\ ReaderInv

LEMMA AggregateReviewedOnce ==
  ASSUME AggregateInv, ReviewedOnce, NEW r \in Reviewers, BeginReview(r) \/ Proceed(r) \/ Crash(r)
  PROVE  ReviewedOnce'
<1>0. /\ Shape
      /\ \A s \in Reviewers : reviewTx[s].pc # "idle" => reviewTx[s].b # NoBooking
  BY AggregateAssumption DEF AggregateInv, Shape
<1>1. CASE BeginReview(r)
  BY <1>0, <1>1 DEF BeginReview, Shape, ReviewedOnce, HoldsBooking, SharesProfile
<1>2. CASE LockBooking(r)
  BY <1>0, <1>2 DEF LockBooking, Goto, Shape, ReviewedOnce, HoldsBooking, SharesProfile, Others
<1>3. CASE reviewTx' = [reviewTx EXCEPT ![r] = NoReview] /\ UNCHANGED reviews
  BY <1>0, <1>3 DEF NoReview, Shape, ReviewedOnce, HoldsBooking, SharesProfile
<1>4. CASE CheckExisting(r) /\ ~EndReview(r)
  BY <1>0, <1>4 DEF CheckExisting, Goto, Shape, ReviewedOnce, HoldsBooking, SharesProfile
<1>5. CASE InsertReview(r)
  BY <1>0, <1>5 DEF InsertReview, Goto, Shape, ReviewedOnce, HoldsBooking, SharesProfile
<1>6. CASE Calculate(r) \/ LockProfile(r)
  BY <1>0, <1>6
  DEF Calculate, LockProfile, Goto, Shape, ReviewedOnce, HoldsBooking, SharesProfile
<1>7. CASE Commit(r)
  <2>1. /\ reviews' = reviews \cup {New(r)} /\ New(r).booking = reviewTx[r].b
        /\ reviewTx' = [reviewTx EXCEPT ![r] = NoReview]
        /\ reviewTx[r].pc = "commit"
    BY <1>7 DEF Commit, EndReview, New
  <2>2. \A v, w \in reviews' : v.booking = w.booking => v = w
    BY <2>1 DEF ReviewedOnce, SharesProfile
  <2>3. \A s \in Reviewers \ {r} : reviewTx'[s] = reviewTx[s]
    BY <1>0, <2>1 DEF Shape
  <2>4. ~HoldsBooking(r)' /\ ~SharesProfile(r)'
    BY <1>0, <2>1 DEF Shape, HoldsBooking, SharesProfile, NoReview
  <2>5. \A s \in Reviewers \ {r} : SharesProfile(s) => reviewTx[s].b # reviewTx[r].b
    BY <2>1 DEF ReviewedOnce, SharesProfile, HoldsBooking
  <2>6. QED
    BY <2>1, <2>2, <2>3, <2>4, <2>5 DEF ReviewedOnce, HoldsBooking, SharesProfile
<1>8. QED
  BY <1>1, <1>2, <1>3, <1>4, <1>5, <1>6, <1>7
  DEF Proceed, CheckExisting, DeadlockVictim, Crash, EndReview
-----------------------------------------------------------------------------
LEMMA KeysAreCursors ==
  ASSUME created \in [Bookings -> 0..MaxClock], NEW b \in Bookings
  PROVE  /\ Key(b) \in Cursors /\ Key(b).at \in Nat /\ Key(b).id \in Nat
         /\ Before(Key(b), NoCursor)
  BY ListAssumption DEF Key, Cursors, Before, NoCursor

LEMMA BeforeIsTransitive ==
  ASSUME NEW k \in Cursors, NEW l \in Cursors, NEW m \in Cursors, Before(k, l), Before(l, m)
  PROVE  Before(k, m)
<1>1. ASSUME NEW c \in Cursors PROVE c.at \in Int /\ c.id \in Int
  <2>1. c.at \in 0..MaxClock + 1 /\ c.id \in Bookings \cup {0}
    BY DEF Cursors
  <2>2. c.at \in Int
    BY <2>1, ListAssumption
  <2>3. \A b \in Bookings : b \in Int
    BY ListAssumption
  <2>4. QED
    BY <2>1, <2>2, <2>3
<1>2. QED
  BY <1>1 DEF Before

(* A query's rows are a sequence with every row once.                      *)
LEMMA RowsOfSet ==
  ASSUME NEW S, IsFiniteSet(S), NEW rows \in SetToSeqs(S)
  PROVE  /\ rows \in Seq(S) /\ Len(rows) = Cardinality(S) /\ Len(rows) \in Nat
         /\ \A x \in S : \E i \in 1..Len(rows) : rows[i] = x
<1> DEFINE n == Cardinality(S)
<1>1. n \in Nat
  BY FS_CardinalityType
<1>2. rows \in [1..n -> S] /\ \A i, j \in 1..n : i # j => rows[i] # rows[j]
  BY DEF SetToSeqs
<1>3. rows \in Seq(S) /\ Len(rows) = n
  BY <1>1, <1>2
<1>4. Cardinality(1..n) = n
  BY <1>1, FS_Interval
<1>5. rows \in Injection(1..n, S)
  BY <1>2 DEF Injection, IsInjective
<1>6. rows \in Surjection(1..n, S)
  BY <1>4, <1>5, FS_Injection
<1>7. \A x \in S : \E i \in 1..n : rows[i] = x
  BY <1>6 DEF Surjection
<1>8. QED
  BY <1>1, <1>3, <1>7

LEMMA ContentsAreItems ==
  ASSUME NEW S, NEW s \in Seq(S)
  PROVE  /\ Len(s) \in Nat /\ DOMAIN s = 1..Len(s)
         /\ \A i \in DOMAIN s : s[i] \in S /\ s[i] \in ToSet(s)
         /\ \A x \in ToSet(s) : \E i \in DOMAIN s : s[i] = x
         /\ s # <<>> => Len(s) \in DOMAIN s /\ Last(s) = s[Len(s)]
  BY DEF ToSet, Last

(* The page made of a query's rows: in order, and what it leaves out lies  *)
(* behind its last row.                                                    *)
LEMMA PageOfRows ==
  ASSUME NEW S, IsFiniteSet(S), S \subseteq Bookings, NEW rows \in SetToSeqs(S), NewestFirst(rows)
  PROVE  /\ Page(rows) \in Seq(S)
         /\ NewestFirst(Page(rows))
         /\ Len(rows) > Limit => Page(rows) # <<>>
         /\ \A b \in S : \/ b \in ToSet(Page(rows))
                         \/ Len(rows) > Limit /\ Before(Key(b), Key(Last(Page(rows))))
<1>1. /\ rows \in Seq(S) /\ Len(rows) \in Nat /\ DOMAIN rows = 1..Len(rows)
      /\ \A b \in S : \E i \in 1..Len(rows) : rows[i] = b
  BY RowsOfSet
<1>2. CASE Len(rows) > Limit
  <2> DEFINE page == SubSeq(rows, 1, Limit)
  <2>1. /\ page \in Seq(S) /\ Len(page) = Limit /\ DOMAIN page = 1..Limit /\ Limit \in Nat \ {0}
        /\ \A i \in 1..Limit : page[i] = rows[i]
    BY <1>1, <1>2, ListAssumption
  <2>2. Page(rows) = page
    BY <1>2 DEF Page
  <2> HIDE DEF page
  <2>3. page # <<>> /\ Last(page) = rows[Limit]
    <3>1. page # <<>>
      BY <2>1
    <3>2. Limit \in 1..Limit
      BY <2>1
    <3>3. QED
      BY <2>1, <3>1, <3>2 DEF Last
  <2>4. NewestFirst(page)
    BY <1>1, <1>2, <2>1 DEF NewestFirst
  <2>5. ASSUME NEW b \in S
        PROVE  b \in ToSet(page) \/ Before(Key(b), Key(Last(page)))
    <3>1. PICK i \in 1..Len(rows) : rows[i] = b
      BY <1>1
    <3>2. CASE i <= Limit
      <4>1. i \in DOMAIN page /\ page[i] = b
        BY <2>1, <3>1, <3>2
      <4>2. QED
        BY <4>1 DEF ToSet
    <3>3. CASE ~(i <= Limit)
      <4>1. Limit \in DOMAIN rows /\ i \in DOMAIN rows /\ Limit < i
        BY <1>1, <1>2, <2>1, <3>1, <3>3
      <4>2. QED
        BY <2>3, <3>1, <4>1 DEF NewestFirst
    <3>4. QED
      BY <3>2, <3>3
  <2>6. QED
    BY <1>2, <2>1, <2>2, <2>3, <2>4, <2>5
<1>3. CASE ~(Len(rows) > Limit)
  <2>1. Page(rows) = rows
    BY <1>3 DEF Page
  <2>2. \A b \in S : b \in ToSet(rows)
    BY <1>1 DEF ToSet
  <2>3. QED
    BY <1>1, <1>3, <2>1, <2>2
<1>4. QED
  BY <1>2, <1>3

(* Two lists, of which the second goes on after the last of the first.     *)
LEMMA JoinedInOrder ==
  ASSUME created \in [Bookings -> 0..MaxClock],
         NEW p \in Seq(Bookings), NEW q \in Seq(Bookings), NewestFirst(p), NewestFirst(q),
         p # <<>> => \A i \in DOMAIN q : Before(Key(q[i]), Key(Last(p)))
  PROVE  /\ NewestFirst(p \o q)
         /\ ToSet(p \o q) = ToSet(p) \cup ToSet(q)
         /\ p \o q \in Seq(Bookings)
         /\ q # <<>> => p \o q # <<>> /\ Last(p \o q) = Last(q)
<1> DEFINE s == p \o q
<1>1. PICK m \in Nat, n \in Nat :
        /\ m = Len(p) /\ DOMAIN p = 1..m /\ n = Len(q) /\ DOMAIN q = 1..n
        /\ s \in Seq(Bookings) /\ Len(s) = m + n /\ DOMAIN s = 1..(m + n)
        /\ \A i \in 1..m : s[i] = p[i]
        /\ \A i \in 1..n : s[m + i] = q[i]
  <2>1. /\ Len(p) \in Nat /\ DOMAIN p = 1..Len(p) /\ Len(q) \in Nat /\ DOMAIN q = 1..Len(q)
        /\ s \in Seq(Bookings) /\ Len(s) = Len(p) + Len(q) /\ DOMAIN s = 1..(Len(p) + Len(q))
        /\ \A i \in 1..Len(p) : s[i] = p[i]
        /\ \A i \in 1..Len(q) : s[Len(p) + i] = q[i]
    OBVIOUS
  <2> HIDE DEF s
  <2>2. QED
    BY <2>1
<1>2. \A i \in DOMAIN p : p[i] \in Bookings /\ Key(p[i]) \in Cursors
  BY <1>1, KeysAreCursors
<1>3. \A i \in DOMAIN q : q[i] \in Bookings /\ Key(q[i]) \in Cursors
  BY <1>1, KeysAreCursors
<1> HIDE DEF s
<1>s. \A i \in DOMAIN s : i > m => i - m \in DOMAIN q /\ s[i] = q[i - m]
  <2>1. ASSUME NEW i \in DOMAIN s, i > m PROVE i - m \in 1..n /\ m + (i - m) = i
    BY <1>1, <2>1
  <2>2. QED
    BY <1>1, <2>1
<1>4. ASSUME NEW i \in DOMAIN p, NEW j \in DOMAIN q
      PROVE  Before(Key(q[j]), Key(p[i]))
  <2>1. p # <<>> /\ m \in DOMAIN p /\ Last(p) = p[m]
    BY <1>1, <1>4 DEF Last
  <2>2. Before(Key(q[j]), Key(p[m]))
    BY <2>1, <1>4
  <2>3. i = m \/ Before(Key(p[m]), Key(p[i]))
    <3>1. i = m \/ i < m
      BY <1>1, <1>4
    <3>2. QED
      BY <2>1, <1>4, <3>1 DEF NewestFirst
  <2>4. QED
    BY <1>2, <1>3, <1>4, <2>1, <2>2, <2>3, BeforeIsTransitive
<1>5. NewestFirst(s)
  <2>1. SUFFICES ASSUME NEW i \in DOMAIN s, NEW j \in DOMAIN s, i < j
                 PROVE  Before(Key(s[j]), Key(s[i]))
    BY DEF NewestFirst
  <2>2. CASE j <= m
    <3>1. i \in DOMAIN p /\ j \in DOMAIN p /\ s[i] = p[i] /\ s[j] = p[j]
      BY <1>1, <2>1, <2>2
    <3>2. QED
      BY <2>1, <3>1 DEF NewestFirst
  <2>3. CASE i > m
    <3>a. i \in 1..(m + n) /\ j \in 1..(m + n)
      BY <1>1, <2>1
    <3>0. i - m < j - m /\ j > m
      BY <2>1, <2>3, <3>a
    <3>1. /\ i - m \in DOMAIN q /\ j - m \in DOMAIN q
          /\ s[i] = q[i - m] /\ s[j] = q[j - m]
      BY <1>s, <2>1, <2>3, <3>0
    <3>2. QED
      BY <3>0, <3>1 DEF NewestFirst
  <2>4. CASE i <= m /\ j > m
    <3>1. i \in DOMAIN p /\ s[i] = p[i] /\ j - m \in DOMAIN q /\ s[j] = q[j - m]
      BY <1>1, <1>s, <2>1, <2>4
    <3>2. QED
      BY <1>4, <3>1
  <2>5. QED
    BY <1>1, <2>1, <2>2, <2>3, <2>4
<1>6. ToSet(s) = ToSet(p) \cup ToSet(q)
  <2>1. ASSUME NEW x \in ToSet(s) PROVE x \in ToSet(p) \cup ToSet(q)
    <3>1. PICK i \in DOMAIN s : s[i] = x
      BY <2>1 DEF ToSet
    <3>2. CASE i <= m
      <4>1. i \in DOMAIN p /\ p[i] = x
        BY <1>1, <3>1, <3>2
      <4>2. QED
        BY <4>1 DEF ToSet
    <3>3. CASE i > m
      <4>1. i - m \in DOMAIN q /\ q[i - m] = x
        BY <1>s, <3>1, <3>3
      <4>2. QED
        BY <4>1 DEF ToSet
    <3>4. QED
      BY <1>1, <3>2, <3>3
  <2>2. ASSUME NEW x \in ToSet(p) PROVE x \in ToSet(s)
    <3>1. PICK i \in DOMAIN p : p[i] = x
      BY <2>2 DEF ToSet
    <3>2. i \in DOMAIN s /\ s[i] = x
      BY <1>1, <3>1
    <3>3. QED
      BY <3>2 DEF ToSet
  <2>3. ASSUME NEW x \in ToSet(q) PROVE x \in ToSet(s)
    <3>1. PICK i \in DOMAIN q : q[i] = x
      BY <2>3 DEF ToSet
    <3>2. m + i \in DOMAIN s
      BY <1>1, <3>1
    <3>3. s[m + i] = x
      BY <1>1, <3>1
    <3>4. QED
      BY <3>2, <3>3 DEF ToSet
  <2>4. QED
    BY <2>1, <2>2, <2>3
<1>7. ASSUME q # <<>> PROVE s # <<>> /\ Last(s) = Last(q)
  <2>1. n \in 1..n
    BY <1>1, <1>7
  <2>2. s[Len(s)] = q[n] /\ Len(s) > 0
    BY <1>1, <2>1
  <2>3. QED
    BY <1>1, <2>2 DEF Last
<1>8. QED
  BY <1>1, <1>5, <1>6, <1>7 DEF s
-----------------------------------------------------------------------------
LEMMA StoredFacts ==
  ASSUME AggregateInv, ReviewedOnce
  PROVE  /\ Stored \subseteq Bookings /\ IsFiniteSet(Stored)
         /\ Cardinality(ReviewsOf(reviews, ThisCreator)) <= Cardinality(Stored)
<1> DEFINE rows == ReviewsOf(reviews, ThisCreator)
<1>1. reviews \subseteq Review /\ IsFiniteSet(reviews)
  BY DEF AggregateInv, Shape, FiniteRows
<1>2. rows \subseteq reviews /\ IsFiniteSet(rows)
  <2>1. rows \in SUBSET reviews
    BY DEF ReviewsOf
  <2>2. QED
    BY <1>1, <2>1, FS_Subset
<1>3. Stored = {v.booking : v \in rows}
  BY DEF Stored
<1>4. Stored \subseteq Bookings
  BY <1>1, <1>2, <1>3 DEF Review
<1> DEFINE f == [v \in rows |-> v.booking]
<1>5. f \in [rows -> Stored] /\ \A v, w \in rows : f[v] = f[w] => v = w
  BY <1>2, <1>3 DEF ReviewedOnce
<1>6. f \in Injection(rows, Stored)
  BY <1>5 DEF Injection, IsInjective
<1>7. f \in Surjection(rows, Stored)
  BY <1>3, <1>5 DEF Surjection
<1> HIDE DEF f, rows
<1>8. IsFiniteSet(Stored)
  BY <1>2, <1>7, FS_Surjection
<1>9. Cardinality(rows) <= Cardinality(Stored)
  BY <1>6, <1>8, FS_Injection
<1>10. QED
  BY <1>4, <1>8, <1>9 DEF rows

LEMMA BeyondFacts ==
  ASSUME AggregateInv, ReviewedOnce, NEW k
  PROVE  Beyond(k) \subseteq Stored /\ Beyond(k) \subseteq Bookings /\ IsFiniteSet(Beyond(k))
<1>1. Beyond(k) \in SUBSET Stored
  BY DEF Beyond
<1>2. QED
  BY <1>1, StoredFacts, FS_Subset

LEMMA InitReader == ListInit => ReviewListInv
<1> SUFFICES ASSUME ListInit PROVE ReviewListInv
  OBVIOUS
<1>1. AggregateInv
  BY InitAggregate DEF ListInit
<1>2. ReviewedOnce
  BY DEF ListInit, AggregateInit, ReviewedOnce, NoReview, HoldsBooking, SharesProfile
<1>3. ListTypes
  <2>1. NoCursor \in Cursors
    BY ListAssumption DEF NoCursor, Cursors
  <2>2. Zero \in Aggregate
    BY DEF Zero, Aggregate
  <2>3. <<>> \in Seq(Bookings) /\ 0 \in 0..MaxClock
    BY ListAssumption
  <2>4. QED
    BY <2>1, <2>2, <2>3 DEF ListInit, ListTypes, Lists, Readings, Closed, NoListRequest
<1>4. ReadingFits /\ PageGoesOn /\ KnownAreCovered /\ RatingsAreCovered
  BY DEF ListInit, Closed, NoListRequest, ReadingFits, PageGoesOn, KnownAreCovered, RatingsAreCovered
<1>5. ListedInOrder
  BY DEF ListInit, Closed, ListedInOrder, NewestFirst
<1>6. QED
  BY <1>1, <1>2, <1>3, <1>4, <1>5 DEF ReviewListInv, ReaderInv

(* What the reader relies on when others write: reviews stay and keep their*)
(* times.                                                                  *)
LEMMA OthersWrite ==
  ASSUME ReviewListInv, AggregateInv', ReviewedOnce', UNCHANGED <<list, reading, known>>,
         clock' \in 0..MaxClock, began' \in [Reviewers -> 0..MaxClock],
         created' \in [Bookings -> 0..MaxClock],
         Stored \subseteq Stored', \A b \in Stored : created'[b] = created[b]
  PROVE  ReaderInv'
<1>0. ReaderInv /\ Stored \subseteq Bookings /\ IsFiniteSet(Stored)
  BY StoredFacts DEF ReviewListInv
<1>1. PICK more : more = Stored'
  OBVIOUS
<1>2. IsFiniteSet(more) /\ Stored \subseteq more
  <2>1. IsFiniteSet(Stored)'
    BY StoredFacts, PTL
  <2>2. QED
    BY <1>1, <2>1
<1>3. \A b \in Stored : Key(b)' = Key(b)
  BY DEF Key
<1>4. ListTypes'
  BY <1>0 DEF ReaderInv, ListTypes
<1>5. ReadingFits'
  BY <1>0 DEF ReaderInv, ReadingFits, NoCursor
<1>6. /\ \A i \in DOMAIN list.items : list.items[i] \in Stored
      /\ list.items # <<>> => Last(list.items) \in Stored
      /\ list.items \in Seq(Bookings)
  <2>1. list.items \in Seq(Bookings) /\ \A i \in DOMAIN list.items : list.items[i] \in Stored
    BY <1>0 DEF ReaderInv, ListTypes, Lists, ListedInOrder
  <2>2. QED
    BY <2>1, ContentsAreItems
<1>7. ListedInOrder'
  <2>1. \A i \in DOMAIN list.items : list'.items[i] \in Stored'
    BY <1>6
  <2>2. NewestFirst(list.items)'
    BY <1>0, <1>3, <1>6 DEF ReaderInv, ListedInOrder, NewestFirst, Key
  <2>3. list.phase = "shown" /\ list.more => list.items # <<>> /\ list.cursor = Key(Last(list.items))'
    BY <1>0, <1>6 DEF ReaderInv, ListedInOrder, Key
  <2>4. QED
    BY <2>1, <2>2, <2>3 DEF ListedInOrder
<1>8. PageGoesOn'
  <2> SUFFICES ASSUME reading.phase = "done" PROVE PageGoesOn'
    BY DEF PageGoesOn
  <2>1. /\ reading.items \in Seq(Bookings)
        /\ \A i \in DOMAIN reading.items :
             reading.items[i] \in Stored /\ Before(Key(reading.items[i]), list.cursor)
    BY <1>0 DEF ReaderInv, ListTypes, Readings, PageGoesOn
  <2>2. reading.items # <<>> => Last(reading.items) \in Stored
    BY <2>1, ContentsAreItems
  <2>3. \A i \in DOMAIN reading.items :
          reading.items[i] \in Stored' /\ Before(Key(reading.items[i])', list.cursor)
    BY <1>3, <2>1 DEF Key
  <2>4. NewestFirst(reading.items)'
    BY <1>0, <2>1 DEF ReaderInv, PageGoesOn, NewestFirst, Key
  <2>5. \A b \in known :
          Before(Key(b)', list.cursor) =>
            \/ b \in ToSet(reading.items)
            \/ reading.more /\ Before(Key(b)', Key(Last(reading.items))')
    <3>1. known \subseteq Stored /\ (reading.more => reading.items # <<>>)
      BY <1>0 DEF ReaderInv, ListTypes, PageGoesOn
    <3>2. \A b \in known : Key(b)' = Key(b)
      BY <1>3, <3>1
    <3>3. reading.more => Key(Last(reading.items))' = Key(Last(reading.items))
      BY <2>2, <3>1 DEF Key
    <3>4. QED
      BY <1>0, <3>2, <3>3 DEF ReaderInv, PageGoesOn
  <2>6. reading.more => reading.items # <<>>
    BY <1>0 DEF ReaderInv, PageGoesOn
  <2>7. QED
    BY <2>3, <2>4, <2>5, <2>6 DEF PageGoesOn
<1>9. KnownAreCovered'
  <2>1. \A b \in known : Key(b)' = Key(b)
    BY <1>0, <1>3 DEF ReaderInv, ListTypes
  <2>2. QED
    BY <1>0, <2>1 DEF ReaderInv, KnownAreCovered
<1>10. RatingsAreCovered'
  <2>1. Cardinality(Stored) <= Cardinality(more) /\ Cardinality(Stored) \in Nat /\ Cardinality(more) \in Nat
    BY <1>0, <1>2, FS_Subset, FS_CardinalityType
  <2>2. reading.rating.count \in Nat
    BY <1>0 DEF ReaderInv, ListTypes, Readings, Aggregate
  <2>3. QED
    BY <1>0, <1>1, <2>1, <2>2 DEF ReaderInv, RatingsAreCovered
<1>11. QED
  BY <1>4, <1>5, <1>7, <1>8, <1>9, <1>10 DEF ReaderInv

LEMMA WritersStep ==
  ASSUME ReviewListInv, NEW r \in Reviewers, BeginAt(r) \/ CommitAt(r) \/ StepAt(r)
  PROVE  ReviewListInv'
<1>1. (BeginReview(r) \/ Proceed(r) \/ Crash(r)) /\ UNCHANGED <<list, reading, known>>
  BY DEF BeginAt, CommitAt, StepAt, Proceed, listVars
<1>2. AggregateInv'
  BY <1>1, NextAggregate DEF AggregateNext, ReviewListInv
<1>3. ReviewedOnce'
  BY <1>1, AggregateReviewedOnce DEF ReviewListInv
<1>4. /\ clock \in 0..MaxClock /\ began \in [Reviewers -> 0..MaxClock]
      /\ created \in [Bookings -> 0..MaxClock]
  BY DEF ReviewListInv, ReaderInv, ListTypes
<1>5. CASE BeginAt(r)
  <2>1. clock' \in 0..MaxClock /\ began' = [began EXCEPT ![r] = clock'] /\ created' = created
    BY <1>4, <1>5, ListAssumption DEF BeginAt
  <2>2. began' \in [Reviewers -> 0..MaxClock]
    <3>1. PICK now \in 0..MaxClock : now = clock'
      BY <2>1
    <3>2. QED
      BY <1>4, <2>1, <3>1
  <2>3. Stored' = Stored
    BY <1>5 DEF BeginAt, BeginReview, Stored, ReviewsOf
  <2>4. QED
    BY <1>1, <1>2, <1>3, <1>4, <2>1, <2>2, <2>3, OthersWrite DEF ReviewListInv
<1>6. CASE CommitAt(r)
  <2>1. /\ reviewTx[r].pc = "commit" /\ reviews' = reviews \cup {New(r)}
        /\ created' = [created EXCEPT ![reviewTx[r].b] = began[r]]
        /\ clock' = clock /\ began' = began
    BY <1>6 DEF CommitAt, Commit
  <2>2. created' \in [Bookings -> 0..MaxClock]
    BY <1>4, <2>1
  <2>3. Stored \subseteq Stored'
    BY <2>1 DEF Stored, ReviewsOf
  <2>4. ASSUME NEW b \in Stored PROVE created'[b] = created[b]
    <3>1. b # reviewTx[r].b
      BY <2>1 DEF ReviewListInv, ReviewedOnce, SharesProfile, Stored, ReviewsOf
    <3>2. b \in Bookings
      BY StoredFacts DEF ReviewListInv
    <3>3. QED
      BY <1>4, <2>1, <3>1, <3>2
  <2>5. QED
    BY <1>1, <1>2, <1>3, <1>4, <2>1, <2>2, <2>3, <2>4, OthersWrite DEF ReviewListInv
<1>7. CASE StepAt(r)
  <2>1. UNCHANGED <<clock, began, created>> /\ reviews' = reviews
    BY <1>7 DEF StepAt, listVars, LockBooking, CheckExisting, InsertReview, Calculate,
       LockProfile, DeadlockVictim, Crash
  <2>2. Stored' = Stored
    BY <2>1 DEF Stored, ReviewsOf
  <2>3. QED
    BY <1>1, <1>2, <1>3, <1>4, <2>1, <2>2, OthersWrite DEF ReviewListInv
<1>8. QED
  BY <1>5, <1>6, <1>7

(* The reader's steps write nothing that the others rely on.               *)
LEMMA ReaderOnly ==
  ASSUME ReviewListInv, UNCHANGED <<aggregateVars, clock, began, created>>
  PROVE  /\ AggregateInv' /\ ReviewedOnce' /\ Stored' = Stored
         /\ \A b : Key(b)' = Key(b)
         /\ clock' = clock /\ began' = began /\ created' = created
<1>1. AggregateInv'
  BY NextAggregate DEF ReviewListInv
<1>2. ReviewedOnce'
  BY DEF ReviewListInv, aggregateVars, ReviewedOnce, HoldsBooking, SharesProfile
<1>3. Stored' = Stored
  BY DEF aggregateVars, Stored, ReviewsOf
<1>4. QED
  BY <1>1, <1>2, <1>3 DEF Key

LEMMA FirstRecords ==
  /\ Closed \in Lists /\ [Closed EXCEPT !.phase = "loading"] \in Lists
  /\ NoListRequest \in Readings /\ [NoListRequest EXCEPT !.phase = "asked"] \in Readings
  /\ [NoListRequest EXCEPT !.phase = "asked", !.first = FALSE] \in Readings
<1>1. NoCursor \in Cursors /\ Zero \in Aggregate /\ <<>> \in Seq(Bookings)
  BY ListAssumption DEF NoCursor, Cursors, Zero, Aggregate
<1>2. Closed \in Lists /\ [Closed EXCEPT !.phase = "loading"] \in Lists
  BY <1>1 DEF Closed, Lists
<1>3. NoListRequest \in Readings
  BY <1>1 DEF NoListRequest, Readings
<1>4. PICK no \in Readings : no = NoListRequest
  BY <1>3
<1>5. /\ [no EXCEPT !.phase = "asked"] \in Readings
      /\ [no EXCEPT !.phase = "asked", !.first = FALSE] \in Readings
  BY DEF Readings
<1>6. QED
  BY <1>2, <1>3, <1>4, <1>5

LEMMA EmptyList ==
  ASSUME ReviewListInv, UNCHANGED <<aggregateVars, clock, began, created>>,
         known' \subseteq known, list' \in Lists, reading' \in Readings,
         list'.items = <<>>, list'.cursor = NoCursor, reading'.first,
         \/ list'.phase = "loading" /\ reading'.phase = "asked"
         \/ list'.phase = "closed" /\ reading'.phase = "idle"
  PROVE  ReviewListInv'
<1>1. ListTypes'
  BY ReaderOnly DEF ReviewListInv, ReaderInv, ListTypes, Lists, Readings
<1>2. ReadingFits' /\ PageGoesOn' /\ KnownAreCovered' /\ RatingsAreCovered'
  BY DEF ReadingFits, PageGoesOn, KnownAreCovered, RatingsAreCovered, NoCursor
<1>3. ListedInOrder'
  BY DEF ListedInOrder, NewestFirst
<1>4. QED
  BY <1>1, <1>2, <1>3, ReaderOnly DEF ReviewListInv, ReaderInv

LEMMA OpenAndClose ==
  ASSUME ReviewListInv, Open \/ Close
  PROVE  ReviewListInv'
<1>1. UNCHANGED <<aggregateVars, clock, began, created>> /\ known' \subseteq known
  BY DEF Open, Close
<1>2. CASE Open
  <2>1. /\ list' = [Closed EXCEPT !.phase = "loading"]
        /\ reading' = [NoListRequest EXCEPT !.phase = "asked"]
    BY <1>2 DEF Open
  <2>2. list'.items = <<>> /\ list'.cursor = NoCursor /\ list'.phase = "loading"
    BY <2>1 DEF Closed
  <2>3. reading'.phase = "asked" /\ reading'.first
    BY <2>1 DEF NoListRequest
  <2>4. QED
    BY <1>1, <2>1, <2>2, <2>3, FirstRecords, EmptyList
<1>3. CASE Close
  <2>1. list' = Closed /\ reading' = NoListRequest
    BY <1>3 DEF Close
  <2>2. list'.items = <<>> /\ list'.cursor = NoCursor /\ list'.phase = "closed"
    BY <2>1 DEF Closed
  <2>3. reading'.phase = "idle" /\ reading'.first
    BY <2>1 DEF NoListRequest
  <2>4. QED
    BY <1>1, <2>1, <2>2, <2>3, FirstRecords, EmptyList
<1>4. QED
  BY <1>2, <1>3

LEMMA LoadMoreStep ==
  ASSUME ReviewListInv, LoadMore
  PROVE  ReviewListInv'
<1>1. /\ UNCHANGED <<aggregateVars, clock, began, created>> /\ UNCHANGED <<list, known>>
      /\ list.phase = "shown" /\ list.more
      /\ reading' = [NoListRequest EXCEPT !.phase = "asked", !.first = FALSE]
  BY DEF LoadMore
<1>2. reading' \in Readings /\ reading'.phase = "asked" /\ ~reading'.first
  <2>1. reading'.phase = "asked" /\ ~reading'.first
    BY <1>1 DEF NoListRequest
  <2>2. QED
    BY <1>1, <2>1, FirstRecords
<1>3. ListTypes' /\ ReadingFits'
  BY <1>1, <1>2, ReaderOnly
  DEF ReviewListInv, ReaderInv, ListTypes, ReadingFits, NoCursor, Readings
<1>4. PageGoesOn' /\ RatingsAreCovered'
  BY <1>1, <1>2 DEF ReviewListInv, ReaderInv, PageGoesOn, RatingsAreCovered
<1>5. ListedInOrder' /\ KnownAreCovered'
  BY <1>1, ReaderOnly DEF ReviewListInv, ReaderInv, ListedInOrder, KnownAreCovered, NewestFirst
<1>6. QED
  BY <1>1, <1>3, <1>4, <1>5, ReaderOnly DEF ReviewListInv, ReaderInv

LEMMA ReadProfileStep ==
  ASSUME ReviewListInv, ReadProfile
  PROVE  ReviewListInv'
<1>0. /\ ReaderInv /\ AggregateInv /\ ReviewedOnce /\ reading \in Readings /\ list \in Lists
  BY DEF ReviewListInv, ReaderInv, ListTypes
<1>1. /\ UNCHANGED <<aggregateVars, clock, began, created>> /\ UNCHANGED <<list, known>>
      /\ reading.phase = "asked"
      /\ reading' = [reading EXCEPT !.phase = "profile", !.rating = aggregate[ThisCreator]]
  BY DEF ReadProfile
<1>2. PICK rating : rating = aggregate[ThisCreator]
  OBVIOUS
<1>3. rating \in Aggregate /\ rating.count <= Cardinality(Stored)
  <2>1. aggregate[ThisCreator] \in Summaries
    BY <1>0, ListAssumption DEF AggregateInv, Shape
  <2>2. aggregate[ThisCreator] = Summary(ReviewsOf(reviews, ThisCreator))
    BY <1>0, ListAssumption DEF AggregateInv, AggregateMatchesReviews
  <2>3. rating.count = Cardinality(ReviewsOf(reviews, ThisCreator))
    BY <1>2, <2>2 DEF Summary
  <2>4. QED
    BY <1>0, <1>2, <2>1, <2>3, SummariesAreAggregates, StoredFacts
<1>4. /\ reading' \in Readings /\ reading'.phase = "profile" /\ reading'.first = reading.first
      /\ reading'.rating = rating
  <2>1. reading' = [reading EXCEPT !.phase = "profile", !.rating = rating]
    BY <1>1, <1>2
  <2>2. QED
    BY <1>0, <1>3, <2>1 DEF Readings
<1>5. ListTypes' /\ ReadingFits'
  BY <1>0, <1>1, <1>4, ReaderOnly
  DEF ReviewListInv, ReaderInv, ListTypes, ReadingFits, NoCursor
<1>6. PageGoesOn' /\ RatingsAreCovered'
  BY <1>0, <1>1, <1>3, <1>4, ReaderOnly DEF ReaderInv, PageGoesOn, RatingsAreCovered
<1>7. ListedInOrder' /\ KnownAreCovered'
  BY <1>0, <1>1, ReaderOnly DEF ReaderInv, ListedInOrder, KnownAreCovered, NewestFirst
<1>8. QED
  BY <1>1, <1>5, <1>6, <1>7, ReaderOnly DEF ReviewListInv, ReaderInv

LEMMA ReadRowsStep ==
  ASSUME ReviewListInv, ReadRows
  PROVE  ReviewListInv'
<1>0. /\ ReaderInv /\ AggregateInv /\ ReviewedOnce /\ reading \in Readings /\ list \in Lists
      /\ created \in [Bookings -> 0..MaxClock] /\ known \subseteq Stored
  BY DEF ReviewListInv, ReaderInv, ListTypes
<1> DEFINE found == Beyond(list.cursor)
<1>1. PICK rows \in SetToSeqs(found) :
        /\ NewestFirst(rows)
        /\ reading' = [reading EXCEPT !.phase = "done", !.more = Len(rows) > Limit,
                                     !.items = Page(rows)]
  BY DEF ReadRows
<1>2. /\ UNCHANGED <<aggregateVars, clock, began, created, list>> /\ reading.phase = "profile"
      /\ known' = IF reading.first THEN Stored ELSE known
  BY DEF ReadRows
<1>3. found \subseteq Stored /\ found \subseteq Bookings /\ IsFiniteSet(found)
  BY <1>0, BeyondFacts
<1>4. PICK page : page = Page(rows)
  OBVIOUS
<1>5. PICK more \in BOOLEAN : more = (Len(rows) > Limit)
  <2>1. (Len(rows) > Limit) \in BOOLEAN
    OBVIOUS
  <2>2. QED
    BY <2>1, Zenon
<1>6. /\ page \in Seq(found) /\ NewestFirst(page) /\ (more => page # <<>>)
      /\ \A b \in found : b \in ToSet(page) \/ (more /\ Before(Key(b), Key(Last(page))))
  <2> HIDE DEF found
  <2>1. /\ Page(rows) \in Seq(found) /\ NewestFirst(Page(rows))
        /\ Len(rows) > Limit => Page(rows) # <<>>
        /\ \A b \in found : \/ b \in ToSet(Page(rows))
                            \/ Len(rows) > Limit /\ Before(Key(b), Key(Last(Page(rows))))
    BY <1>1, <1>3, PageOfRows
  <2>2. QED
    BY <1>4, <1>5, <2>1, Zenon
<1>7. page \in Seq(Bookings) /\ \A i \in DOMAIN page : page[i] \in found
  <2> HIDE DEF found
  <2>1. QED
    BY <1>3, <1>6
<1>8. /\ reading' \in Readings /\ reading'.phase = "done" /\ reading'.first = reading.first
      /\ reading'.rating = reading.rating /\ reading'.items = page /\ reading'.more = more
  <2>1. reading' = [reading EXCEPT !.phase = "done", !.more = more, !.items = page]
    BY <1>1, <1>4, <1>5
  <2>2. QED
    BY <1>0, <1>7, <2>1 DEF Readings
<1>9. known' \subseteq Stored
  BY <1>0, <1>2
<1>10. ListTypes' /\ ReadingFits'
  BY <1>0, <1>2, <1>8, <1>9, ReaderOnly
  DEF ReviewListInv, ReaderInv, ListTypes, ReadingFits, NoCursor
<1>11. PageGoesOn'
  <2>1. \A i \in DOMAIN page : page[i] \in Stored /\ Before(Key(page[i]), list.cursor)
    BY <1>7 DEF Beyond
  <2>2. \A b \in known' :
          Before(Key(b), list.cursor) =>
            b \in ToSet(page) \/ (more /\ Before(Key(b), Key(Last(page))))
    BY <1>6, <1>9 DEF Beyond
  <2>3. PICK k : k = Key(Last(page)) /\ Key(Last(page))' = k
    BY ReaderOnly, <1>2
  <2>4. Stored' = Stored /\ \A b : Key(b)' = Key(b)
    BY ReaderOnly, <1>2
  <2>5. NewestFirst(page)'
    BY <1>6, <2>4 DEF NewestFirst
  <2>6. QED
    BY <1>2, <1>6, <1>8, <2>1, <2>2, <2>4, <2>5 DEF PageGoesOn
<1>12. KnownAreCovered' /\ RatingsAreCovered' /\ ListedInOrder'
  BY <1>0, <1>2, <1>8, ReaderOnly
  DEF ReaderInv, ReadingFits, KnownAreCovered, RatingsAreCovered, ListedInOrder, NewestFirst
<1>13. QED
  BY <1>2, <1>10, <1>11, <1>12, ReaderOnly DEF ReviewListInv, ReaderInv

LEMMA AnswerStep ==
  ASSUME ReviewListInv, ListAnswer
  PROVE  ReviewListInv'
<1>0. /\ ReaderInv /\ reading \in Readings /\ list \in Lists
      /\ created \in [Bookings -> 0..MaxClock] /\ known \subseteq Stored /\ Stored \subseteq Bookings
  BY StoredFacts DEF ReviewListInv, ReaderInv, ListTypes
<1> DEFINE items == list.items \o reading.items
           rating == IF reading.first THEN reading.rating ELSE list.rating
           cursor == IF reading.more THEN Key(Last(reading.items)) ELSE list.cursor
<1>1. /\ UNCHANGED <<aggregateVars, clock, began, created, known>> /\ reading.phase = "done"
      /\ list' = [phase |-> "shown", items |-> items, rating |-> rating,
                  more |-> reading.more, cursor |-> cursor]
      /\ reading' = NoListRequest
  BY DEF ListAnswer
<1>2. list.items \in Seq(Bookings) /\ reading.items \in Seq(Bookings)
  BY <1>0 DEF Lists, Readings
<1>3. /\ NewestFirst(list.items) /\ NewestFirst(reading.items)
      /\ \A i \in DOMAIN list.items : list.items[i] \in Stored
      /\ \A i \in DOMAIN reading.items :
           reading.items[i] \in Stored /\ Before(Key(reading.items[i]), list.cursor)
      /\ reading.more => reading.items # <<>>
  BY <1>0, <1>1 DEF ReaderInv, ListedInOrder, PageGoesOn
<1>4. list.items # <<>> => list.cursor = Key(Last(list.items)) /\ ~reading.first
  BY <1>0, <1>1 DEF ReaderInv, ReadingFits, ListedInOrder
<1>5. /\ NewestFirst(items) /\ items \in Seq(Bookings)
      /\ ToSet(items) = ToSet(list.items) \cup ToSet(reading.items)
      /\ reading.items # <<>> => items # <<>> /\ Last(items) = Last(reading.items)
  BY <1>0, <1>2, <1>3, <1>4, JoinedInOrder
<1> HIDE DEF items
<1>6. \A i \in DOMAIN items : items[i] \in Stored
  <2>1. \A b \in ToSet(list.items) \cup ToSet(reading.items) : b \in Stored
    BY <1>2, <1>3, ContentsAreItems
  <2>2. QED
    BY <1>5, <2>1, ContentsAreItems
<1>7. rating \in Aggregate /\ cursor \in Cursors /\ reading.more \in BOOLEAN
  <2>1. reading.more => Last(reading.items) \in Bookings
    BY <1>2, <1>3, ContentsAreItems
  <2>2. reading.more => Key(Last(reading.items)) \in Cursors
    BY <1>0, <2>1, KeysAreCursors
  <2>3. QED
    BY <1>0, <2>2 DEF Lists, Readings
<1>8. /\ list'.phase = "shown" /\ list'.items = items /\ list'.rating = rating
      /\ list'.more = reading.more /\ list'.cursor = cursor
      /\ list' \in Lists
  <2> HIDE DEF rating, cursor
  <2>1. QED
    BY <1>1, <1>5, <1>7 DEF Lists
<1>9. reading' \in Readings /\ reading'.phase = "idle"
  BY <1>1, FirstRecords DEF NoListRequest
<1>10. ListTypes' /\ ReadingFits' /\ PageGoesOn'
  BY <1>0, <1>1, <1>8, <1>9, ReaderOnly
  DEF ReviewListInv, ReaderInv, ListTypes, ReadingFits, PageGoesOn, NoCursor
<1>11. ListedInOrder'
  <2>1. NewestFirst(list.items)'
    BY <1>1, <1>5, <1>8, ReaderOnly DEF NewestFirst
  <2>2. reading.more => items # <<>> /\ cursor = Key(Last(items))
    BY <1>3, <1>5
  <2>3. QED
    BY <1>1, <1>6, <1>8, <2>1, <2>2, ReaderOnly DEF ListedInOrder
<1>12. KnownAreCovered'
  <2>1. ASSUME NEW b \in known
        PROVE  b \in ToSet(items) \/ (reading.more /\ Before(Key(b), cursor))
    <3>1. b \in ToSet(list.items) \/ Before(Key(b), list.cursor)
      <4>1. CASE reading.first
        <5>1. list.cursor = NoCursor
          BY <1>0, <1>1, <4>1 DEF ReaderInv, ReadingFits
        <5>2. QED
          BY <1>0, <2>1, <5>1, KeysAreCursors
      <4>2. CASE ~reading.first
        BY <1>0, <1>1, <2>1, <4>2 DEF ReaderInv, ReadingFits, KnownAreCovered
      <4>3. QED
        BY <4>1, <4>2
    <3>2. Before(Key(b), list.cursor) =>
            \/ b \in ToSet(reading.items)
            \/ reading.more /\ Before(Key(b), Key(Last(reading.items)))
      BY <1>0, <1>1, <2>1 DEF ReaderInv, PageGoesOn
    <3>3. QED
      BY <1>5, <3>1, <3>2
  <2>2. QED
    BY <1>1, <1>8, <2>1, ReaderOnly DEF KnownAreCovered
<1>13. RatingsAreCovered'
  BY <1>0, <1>1, <1>8, <1>9 DEF ReaderInv, ReadingFits, RatingsAreCovered
<1>14. QED
  BY <1>1, <1>10, <1>11, <1>12, <1>13, ReaderOnly DEF ReviewListInv, ReaderInv

LEMMA FailStep ==
  ASSUME ReviewListInv, ListFail
  PROVE  ReviewListInv'
<1>0. ReaderInv /\ list \in Lists
  BY DEF ReviewListInv, ReaderInv, ListTypes
<1>1. /\ UNCHANGED <<aggregateVars, clock, began, created, known>> /\ reading.phase # "idle"
      /\ list' = IF reading.first THEN [list EXCEPT !.phase = "error"] ELSE list
      /\ reading' = NoListRequest
  BY DEF ListFail
<1>2. /\ list' \in Lists /\ list'.items = list.items /\ list'.more = list.more
      /\ list'.rating = list.rating /\ list'.cursor = list.cursor
      /\ list'.phase = IF reading.first THEN "error" ELSE "shown"
      /\ ~reading.first => list.phase = "shown"
      /\ reading.first => list.items = <<>>
  BY <1>0, <1>1 DEF Lists, ReaderInv, ReadingFits
<1>3. reading' \in Readings /\ reading'.phase = "idle"
  BY <1>1, FirstRecords DEF NoListRequest
<1>4. ListTypes' /\ ReadingFits' /\ PageGoesOn' /\ RatingsAreCovered'
  BY <1>0, <1>1, <1>2, <1>3, ReaderOnly
  DEF ReaderInv, ListTypes, ReadingFits, PageGoesOn, RatingsAreCovered, NoCursor
<1>5. ListedInOrder' /\ KnownAreCovered'
  BY <1>0, <1>1, <1>2, ReaderOnly DEF ReaderInv, ListedInOrder, KnownAreCovered, NewestFirst
<1>6. QED
  BY <1>1, <1>4, <1>5, ReaderOnly DEF ReviewListInv, ReaderInv

LEMMA NextReader == ReviewListInv /\ [ListNext]_reviewListVars => ReviewListInv'
<1> SUFFICES ASSUME ReviewListInv, [ListNext]_reviewListVars PROVE ReviewListInv'
  OBVIOUS
<1>1. CASE UNCHANGED reviewListVars
  <2>1. UNCHANGED <<aggregateVars, clock, began, created>> /\ UNCHANGED <<list, reading, known>>
    BY <1>1 DEF reviewListVars, listVars
  <2>2. /\ AggregateInv' /\ ReviewedOnce' /\ Stored' = Stored
        /\ clock' = clock /\ began' = began /\ created' = created
    BY <2>1, ReaderOnly
  <2>3. QED
    BY <2>1, <2>2, OthersWrite DEF ReviewListInv, ReaderInv, ListTypes
<1>2. QED
  BY <1>1, WritersStep, OpenAndClose, LoadMoreStep, ReadProfileStep, ReadRowsStep, AnswerStep,
     FailStep
  DEF ListNext

LEMMA ReaderShowsAll == ReviewListInv => ListInv
<1> SUFFICES ASSUME ReviewListInv PROVE ListInv
  OBVIOUS
<1>0. /\ AggregateInv /\ ReaderInv /\ list \in Lists /\ known \subseteq Stored
      /\ Stored \subseteq Bookings /\ IsFiniteSet(Stored)
  BY StoredFacts DEF ReviewListInv, ReaderInv, ListTypes
<1>1. AggregateTypeOK
  BY <1>0, SummariesAreAggregates DEF AggregateInv, Shape, FiniteRows, AggregateTypeOK, ReviewTx
<1>2. ListTypeOK
  BY <1>0 DEF ReaderInv, ListTypes, ReadingFits, ListTypeOK, Lists, Readings
<1>3. NoReviewTwice
  BY <1>0 DEF ReaderInv, ListedInOrder, NoReviewTwice
<1>4. NothingSkipped
  BY <1>0 DEF ReaderInv, KnownAreCovered, NothingSkipped
<1>5. CountIsCovered
  <2> SUFFICES ASSUME list.phase = "shown", ~list.more
               PROVE  list.rating.count <= Len(list.items)
    BY DEF CountIsCovered
  <2>1. list.items \in Seq(Bookings) /\ list.rating.count \in Nat
    BY <1>0 DEF Lists, Aggregate
  <2> DEFINE shown == ToSet(list.items)
             n == Len(list.items)
  <2>2. /\ n \in Nat /\ DOMAIN list.items = 1..n
        /\ list.items \in [1..n -> shown] /\ \A x \in shown : \E i \in 1..n : list.items[i] = x
    <3>1. /\ n \in Nat /\ DOMAIN list.items = 1..n
          /\ \A i \in 1..n : list.items[i] \in shown
          /\ \A x \in shown : \E i \in 1..n : list.items[i] = x
      BY <2>1, ContentsAreItems
    <3>2. list.items = [i \in 1..n |-> list.items[i]]
      BY <2>1, <3>1
    <3>3. QED
      BY <3>1, <3>2
  <2>3. list.items \in Surjection(1..n, shown)
    BY <2>2 DEF Surjection
  <2>4. IsFiniteSet(1..n) /\ Cardinality(1..n) = n
    BY <2>2, FS_Interval
  <2>5. IsFiniteSet(shown) /\ Cardinality(shown) <= n
    <3> HIDE DEF shown
    <3>1. QED
      BY <2>3, <2>4, FS_Surjection
  <2>6. known \subseteq shown
    BY <1>4 DEF NothingSkipped
  <2>7. Cardinality(known) <= Cardinality(shown)
    <3> HIDE DEF shown
    <3>1. QED
      BY <2>5, <2>6, FS_Subset
  <2>8. list.rating.count <= Cardinality(known)
    BY <1>0 DEF ReaderInv, RatingsAreCovered
  <2>9. Cardinality(known) \in Nat /\ Cardinality(shown) \in Nat
    <3>1. IsFiniteSet(known)
      BY <1>0, FS_Subset
    <3>2. QED
      BY <2>5, <3>1, FS_CardinalityType
  <2>10. QED
    BY <2>1, <2>2, <2>5, <2>7, <2>8, <2>9
<1>6. QED
  BY <1>1, <1>2, <1>3, <1>4, <1>5 DEF ListInv

(* Whatever reviews are written between two pages, in whatever order their *)
(* times come, and whichever pages fail and are asked for again: the reader*)
(* sees no review twice, all that there were, and no rating that counts    *)
(* more of them; and ratings stay between zero and five stars.             *)
THEOREM ReadersSeeAll == ListSpec => []ListInv
<1>1. ListSpec => []ReviewListInv
  BY InitReader, NextReader, PTL DEF ListSpec
<1>2. QED
  BY <1>1, ReaderShowsAll, PTL
=============================================================================
