-------------------------- MODULE RatingCronProofs --------------------------
(***************************************************************************)
(* What holds of the rating job for any number of products, reviews and    *)
(* overlapping runs.                                                       *)
(*                                                                         *)
(* The invariant is said run by run (JobOK): a run that is on its way has  *)
(* seen the counts of every moment since it began, the present one         *)
(* included, so that what it counts is among them when it counts and, as   *)
(* what was seen is never forgotten, still when it writes.                 *)
(***************************************************************************)
EXTENDS RatingCron, FiniteSetTheorems, TLAPS

-----------------------------------------------------------------------------
(* Counts and averages.                                                    *)

\* A part of the reviews can be counted, and is no more than all of them.
LEMMA SomeReviews ==
    ASSUME NEW S, S \subseteq Review
    PROVE  IsFiniteSet(S) /\ Cardinality(S) \in 0..Cardinality(Review)
<1>1. IsFiniteSet(S) /\ Cardinality(S) <= Cardinality(Review)
  BY ReviewAssumption, FS_Subset
<1>2. Cardinality(S) \in Nat /\ Cardinality(Review) \in Nat
  BY <1>1, ReviewAssumption, FS_CardinalityType
<1> QED  BY <1>1, <1>2

\* Whatever the reviews are, they are counted within bounds.
LEMMA CountsOK ==
    ASSUME NEW rev, NEW p
    PROVE  Counts(rev, p) \in Counters
<1>1. \A s \in 1..5 : Cardinality({v \in Of(rev, p) : rev[v].star = s}) \in 0..Cardinality(Review)
  <2>1. \A s \in 1..5 : {v \in Of(rev, p) : rev[v].star = s} \subseteq Review
    BY DEF Of
  <2> QED  BY <2>1, SomeReviews
<1> QED  BY <1>1 DEF Counts, Counters

\* No counts at all.
LEMMA NoReviewsOK == NoReviews \in Counters
<1>1. Cardinality(Review) \in Nat
  BY ReviewAssumption, FS_CardinalityType
<1> QED  BY <1>1 DEF NoReviews, Counters

\* A quotient is below a bound that its dividend is below.
LEMMA QuotientBelow ==
    ASSUME NEW a \in Nat, NEW b \in Nat \ {0}, a < 51 * b
    PROVE  a \div b \in 0..50
  OBVIOUS

\* The average of stars of 1..5 is at most five, and zero without a review.
LEMMA AverageOK ==
    ASSUME NEW c \in Counters
    PROVE  Average(c) \in 0..50
<1>1. \A s \in 1..5 : c[s] \in Nat
  <2>1. Cardinality(Review) \in Nat
    BY ReviewAssumption, FS_CardinalityType
  <2> QED  BY <2>1 DEF Counters
<1> DEFINE n == c[1] + c[2] + c[3] + c[4] + c[5]
           stars == c[1] + 2 * c[2] + 3 * c[3] + 4 * c[4] + 5 * c[5]
<1>2. n \in Nat /\ stars \in Nat /\ stars <= 5 * n
  BY <1>1
<1>3. Average(c) = IF n = 0 THEN 0 ELSE (20 * stars + n) \div (2 * n)
  BY DEF Average
<1> HIDE DEF n, stars
<1>4. ASSUME n # 0
      PROVE  (20 * stars + n) \div (2 * n) \in 0..50
  <2>1. 20 * stars + n \in Nat /\ 2 * n \in Nat \ {0} /\ 20 * stars + n < 51 * (2 * n)
    BY <1>2, <1>4
  <2> QED  BY <2>1, QuotientBelow
<1> QED  BY <1>3, <1>4

-----------------------------------------------------------------------------
(* The pages.                                                              *)

\* The products after a cursor can be counted.
LEMMA AfterOK ==
    ASSUME NEW c
    PROVE  After(c) \subseteq Product /\ Cardinality(After(c)) \in Nat
<1>1. After(c) \subseteq Product
  BY DEF After, Present
<1>2. IsFiniteSet(After(c))
  BY <1>1, ProductAssumption, FS_Subset
<1> QED  BY <1>1, <1>2, FS_CardinalityType

\* A page is at most Take products.
LEMMA PagesOK ==
    ASSUME NEW c, NEW page \in Pages(c)
    PROVE  page \in Seq(Product) /\ Len(page) <= Take
<1> DEFINE n == Min({Take, Cardinality(After(c))})
<1>1. n \in Nat /\ n <= Take
  BY AfterOK, JobAssumption DEF Min
<1>2. page \in [1..n -> After(c)]
  BY DEF Pages
<1> HIDE DEF n
<1>3. page \in [1..n -> Product]
  BY <1>2, AfterOK
<1>4. page \in Seq(Product) /\ Len(page) = n
  BY <1>1, <1>3
<1> QED  BY <1>1, <1>4

\* What is left of a page.
LEMMA TailOK ==
    ASSUME NEW page \in Seq(Product), page # << >>
    PROVE  /\ Head(page) \in Product /\ Tail(page) \in Seq(Product) /\ Len(Tail(page)) = Len(page) - 1
           /\ Len(page) \in Nat \ {0} /\ Len(page) # 1 => Tail(page) # << >>
<1>1. Len(page) \in Nat /\ Len(page) # 0 /\ \A i \in 1..Len(page) : page[i] \in Product
  OBVIOUS
<1>2. Head(page) \in Product
  BY <1>1
<1>3. Tail(page) \in Seq(Product) /\ Len(Tail(page)) = Len(page) - 1
  OBVIOUS
<1>4. Len(page) # 1 => Tail(page) # << >>
  <2>1. Len(<< >>) = 0
    OBVIOUS
  <2>2. PICK rest : rest = Tail(page)
    OBVIOUS
  <2>3. Len(page) # 1 => Len(rest) # 0
    BY <1>1, <1>3, <2>2
  <2>4. Len(rest) # 0 => rest # << >>
    BY <2>1
  <2> QED  BY <2>2, <2>3, <2>4
<1> QED  BY <1>1, <1>2, <1>3, <1>4

\* When a product was created is a natural number.
LEMMA Stamp ==
    ASSUME TypeOK, NEW p \in Product
    PROVE  created[p] \in Nat
<1>1. created[p] \in Time \/ created[p] = 0
  BY DEF TypeOK
<1>2. Time \subseteq Nat
  BY TimeAssumption
<1>3. CASE created[p] \in Time
  BY <1>2, <1>3
<1>4. CASE created[p] = 0
  BY <1>4
<1> QED  BY <1>1, <1>3, <1>4

\* What a tick is to a millisecond.
LEMMA Ticks ==
    ASSUME NEW t \in Nat
    PROVE  Ms(t) \in Nat /\ Ms(t) <= t
<1>1. t % PerMs \in Nat /\ t % PerMs <= t
  BY TimeAssumption
<1> QED  BY <1>1 DEF Ms

\* The cursor at a product that is there.
LEMMA CursorOK ==
    ASSUME TypeOK, NEW p \in Product
    PROVE  CursorAt(p) \in Cursors
  BY Stamp, Ticks DEF CursorAt, Cursors

-----------------------------------------------------------------------------
(* The steps.                                                              *)

\* The type of a review's row.
ReviewRow == [product : Product \cup {0}, star : Star \cup {0},
              status : {"none", "PENDING", "CONFIRMED", "deleted"}]

\* The tables have their types.
TablesOK ==
    /\ created \in [Product -> Time \cup {0}]
    /\ rating \in [Product -> 0..50]
    /\ ratings \in [Product -> Counters]
    /\ gone \subseteq Product

\* What the invariant says of one run, rev being the reviews.
JobOK(run, seen, rev) ==
    /\ run \in Job /\ Len(run.page) <= Take /\ seen \in [Product -> SUBSET Counters]
    /\ run.at # "idle" =>
          /\ \A p \in Product : Counts(rev, p) \in seen[p]
          /\ run.at \in {"counting", "writing"} => run.page # << >>
          /\ run.at = "writing" => run.counts \in seen[Head(run.page)]

\* The invariant is that, of each run, and the types of the tables.
LEMMA JobByJob ==
    IInv <=> /\ TablesOK /\ review \in [Review -> ReviewRow] /\ cursor \in Cursors /\ faults \in 0..MaxFaults
             /\ job \in [Run -> Job] /\ had \in [Run -> [Product -> SUBSET Counters]]
             /\ \A j \in Run : JobOK(job[j], had[j], review)
  BY DEF IInv, TypeOK, TablesOK, ReviewRow, RunsKeepUp, JobOK

\* And so after a step.
LEMMA JobByJobNext ==
    IInv' <=> /\ TablesOK' /\ review' \in [Review -> ReviewRow] /\ cursor' \in Cursors /\ faults' \in 0..MaxFaults
              /\ job' \in [Run -> Job] /\ had' \in [Run -> [Product -> SUBSET Counters]]
              /\ \A j \in Run : JobOK(job'[j], had'[j], review')
  BY DEF IInv, TypeOK, TablesOK, ReviewRow, RunsKeepUp, JobOK

\* A step of one run.
LEMMA RunStep ==
    ASSUME IInv, NEW j \in Run, NEW run, NEW seen, JobOK(run, seen, review),
           job' = [job EXCEPT ![j] = run], had' = [had EXCEPT ![j] = seen],
           review' = review, TablesOK', cursor' \in Cursors, faults' \in 0..MaxFaults
    PROVE  IInv'
<1>1. run \in Job /\ seen \in [Product -> SUBSET Counters]
  BY DEF JobOK
<1>2. job \in [Run -> Job] /\ had \in [Run -> [Product -> SUBSET Counters]]
  BY JobByJob
<1>3. job' \in [Run -> Job] /\ had' \in [Run -> [Product -> SUBSET Counters]]
  BY <1>1, <1>2
<1>4. \A i \in Run : JobOK(job'[i], had'[i], review')
  <2> SUFFICES ASSUME NEW i \in Run PROVE JobOK(job'[i], had'[i], review)
    OBVIOUS
  <2>1. CASE i = j
    <3>1. job'[i] = run /\ had'[i] = seen
      BY <1>2, <2>1
    <3> QED  BY <3>1
  <2>2. CASE i # j
    <3>1. job'[i] = job[i] /\ had'[i] = had[i]
      BY <1>2, <2>2
    <3> QED  BY <3>1, JobByJob
  <2> QED  BY <2>1, <2>2
<1> QED  BY <1>3, <1>4, JobByJob, JobByJobNext

\* A run that has ended.
LEMMA IdleOK == JobOK(IdleJob, Nothing, review)
<1>1. << >> \in Seq(Product) /\ Len(<< >>) = 0 /\ NoCursor \in Cursors
  BY DEF NoCursor, Cursors
<1>2. Nothing \in [Product -> SUBSET Counters]
  BY DEF Nothing
<1>3. IdleJob \in Job /\ IdleJob.page = << >> /\ IdleJob.at = "idle"
  BY <1>1, NoReviewsOK DEF IdleJob, Job
<1> QED  BY <1>1, <1>2, <1>3, JobAssumption DEF JobOK

\* A run that ends.
LEMMA IdleStep ==
    ASSUME IInv, NEW j \in Run, Idle(j), review' = review, TablesOK', cursor' \in Cursors, faults' \in 0..MaxFaults
    PROVE  IInv'
  BY IdleOK, RunStep DEF Idle

\* Where a run is.
LEMMA ThisRun ==
    ASSUME IInv, NEW j \in Run
    PROVE  /\ JobOK(job[j], had[j], review) /\ job[j] \in Job /\ Len(job[j].page) <= Take
           /\ had \in [Run -> [Product -> SUBSET Counters]] /\ had = [had EXCEPT ![j] = had[j]]
           /\ TypeOK /\ TablesOK /\ cursor \in Cursors /\ faults \in 0..MaxFaults
  BY JobByJob DEF JobOK, IInv

\* A fault that is counted.
LEMMA FaultOK ==
    ASSUME IInv, Fault
    PROVE  faults' \in 0..MaxFaults
  BY JobByJob, JobAssumption DEF Fault

\* A run that begins: what it will have seen are the counts of now.
LEMMA BeginStep ==
    ASSUME IInv, NEW j \in Run, Begin(j)
    PROVE  IInv'
<1>1. PICK c \in IF cursor = NoCursor THEN {CursorAt(p) : p \in First} ELSE {cursor} :
         cursor' = c /\ job' = [job EXCEPT ![j] = [IdleJob EXCEPT !.at = "asking", !.last = c]]
  BY DEF Begin
<1>2. c \in Cursors
  BY <1>1, ThisRun, CursorOK DEF First, Present
<1> DEFINE run == [IdleJob EXCEPT !.at = "asking", !.last = c]
           seen == [p \in Product |-> {Counts(review, p)}]
<1>3. IdleJob \in Job
  BY IdleOK DEF JobOK
<1>4. run \in Job /\ run.page = IdleJob.page /\ run.at = "asking"
  BY <1>2, <1>3 DEF Job
<1>5. seen \in [Product -> SUBSET Counters] /\ \A p \in Product : Counts(review, p) \in seen[p]
  BY CountsOK
<1>6. JobOK(run, seen, review)
  BY <1>4, <1>5, IdleOK DEF JobOK
<1>7. job' = [job EXCEPT ![j] = run] /\ had' = [had EXCEPT ![j] = seen] /\ review' = review
  BY <1>1 DEF Begin
<1>8. TablesOK' /\ cursor' \in Cursors /\ faults' \in 0..MaxFaults
  BY <1>1, <1>2, ThisRun DEF Begin, TablesOK
<1> HIDE DEF run, seen
<1> QED  BY <1>6, <1>7, <1>8, RunStep

\* A run that takes a page.
LEMMA TakePageStep ==
    ASSUME IInv, NEW j \in Run, TakePage(j)
    PROVE  IInv'
<1>1. PICK page \in Pages(job[j].last) :
         /\ Len(page) > 1 /\ cursor' = CursorAt(Last(page))
         /\ job' = [job EXCEPT ![j].at = "counting", ![j].page = page]
  BY DEF TakePage
<1>2. page \in Seq(Product) /\ Len(page) <= Take
  BY PagesOK
<1>3. page # << >> /\ Last(page) \in Product
  <2>1. Len(<< >>) = 0
    OBVIOUS
  <2>2. page # << >>
    BY <1>1, <2>1
  <2>3. Len(page) \in 1..Len(page)
    BY <1>1, <1>2
  <2> QED  BY <1>2, <2>2, <2>3 DEF Last
<1> DEFINE run == [job[j] EXCEPT !.at = "counting", !.page = page]
<1>4. run \in Job /\ run.at = "counting" /\ run.page = page
  BY <1>2, ThisRun DEF Job
<1>5. JobOK(run, had[j], review)
  BY <1>2, <1>3, <1>4, ThisRun DEF JobOK, TakePage
<1>6. job' = [job EXCEPT ![j] = run]
  BY <1>1, JobByJob
<1>7. had' = [had EXCEPT ![j] = had[j]] /\ review' = review
  BY ThisRun DEF TakePage
<1>8. TablesOK' /\ cursor' \in Cursors /\ faults' \in 0..MaxFaults
  BY <1>1, <1>3, ThisRun, CursorOK DEF TakePage, TablesOK
<1> HIDE DEF run
<1> QED  BY <1>5, <1>6, <1>7, <1>8, RunStep

\* A run that finds no page.
LEMMA StartOverStep ==
    ASSUME IInv, NEW j \in Run, StartOver(j)
    PROVE  IInv'
<1>1. cursor' \in Cursors
  BY ThisRun, CursorOK DEF StartOver, First, Present
<1>2. TablesOK' /\ faults' \in 0..MaxFaults
  BY ThisRun DEF StartOver, TablesOK
<1> QED  BY <1>1, <1>2, IdleStep DEF StartOver

\* A run that counts.
LEMMA CountStep ==
    ASSUME IInv, NEW j \in Run, Count(j)
    PROVE  IInv'
<1>1. job[j].page \in Seq(Product) /\ job[j].page # << >> /\ job[j].at = "counting"
  BY ThisRun DEF Count, JobOK, Job
<1>2. Head(job[j].page) \in Product
  BY <1>1, TailOK
<1>3. PICK counts \in Counters : counts = Counts(review, Head(job[j].page))
  BY CountsOK
<1> DEFINE run == [job[j] EXCEPT !.at = "writing", !.counts = counts]
<1>4. run \in Job /\ run.at = "writing" /\ run.page = job[j].page /\ run.counts = counts
  BY ThisRun DEF Job
<1>5. JobOK(run, had[j], review)
  BY <1>1, <1>2, <1>3, <1>4, ThisRun DEF JobOK
<1>6. job' = [job EXCEPT ![j] = run]
  BY <1>3, JobByJob DEF Count
<1>7. had' = [had EXCEPT ![j] = had[j]] /\ review' = review
  BY ThisRun DEF Count
<1>8. TablesOK' /\ cursor' \in Cursors /\ faults' \in 0..MaxFaults
  BY ThisRun DEF Count, TablesOK
<1> HIDE DEF run
<1> QED  BY <1>5, <1>6, <1>7, <1>8, RunStep

\* A run that rates a product.
LEMMA WriteStep ==
    ASSUME IInv, NEW j \in Run, Write(j)
    PROVE  IInv'
<1>1. job[j].page \in Seq(Product) /\ job[j].page # << >> /\ job[j].at = "writing" /\ job[j].counts \in Counters
  BY ThisRun DEF Write, JobOK, Job
<1>2. Head(job[j].page) \in Product /\ Average(job[j].counts) \in 0..50
  BY <1>1, TailOK, AverageOK
<1>3. TablesOK' /\ cursor' \in Cursors /\ faults' \in 0..MaxFaults /\ review' = review
  <2>1. ratings' \in [Product -> Counters] /\ rating' \in [Product -> 0..50]
    BY <1>1, <1>2, ThisRun DEF Write, TablesOK
  <2> QED  BY <2>1, ThisRun DEF Write, TablesOK
<1>4. CASE Len(job[j].page) = 1
  BY <1>3, <1>4, IdleStep DEF Write
<1>5. CASE Len(job[j].page) # 1
  <2>1. PICK rest \in Seq(Product) : rest = Tail(job[j].page) /\ rest # << >> /\ Len(rest) <= Take
    <3>1. /\ Tail(job[j].page) \in Seq(Product) /\ Len(Tail(job[j].page)) = Len(job[j].page) - 1
          /\ Tail(job[j].page) # << >> /\ Len(job[j].page) \in Nat
      BY <1>1, <1>5, TailOK
    <3>2. Len(job[j].page) <= Take
      BY ThisRun
    <3>3. Len(job[j].page) - 1 <= Take
      BY <3>1, <3>2, JobAssumption
    <3> QED  BY <3>1, <3>3
  <2> DEFINE run == [job[j] EXCEPT !.at = "counting", !.page = rest]
  <2>2. run \in Job /\ run.at = "counting" /\ run.page = rest
    BY ThisRun DEF Job
  <2>3. JobOK(run, had[j], review)
    BY <1>1, <2>1, <2>2, ThisRun DEF JobOK
  <2>4. job' = [job EXCEPT ![j] = run]
    BY <1>5, <2>1, JobByJob DEF Write
  <2>5. had' = [had EXCEPT ![j] = had[j]]
    BY <1>5, ThisRun DEF Write
  <2> HIDE DEF run
  <2> QED  BY <1>3, <2>3, <2>4, <2>5, RunStep
<1> QED  BY <1>4, <1>5

\* A run whose product is gone, or a statement of which fails.
LEMMA StopStep ==
    ASSUME IInv, NEW j \in Run, WriteFindsNone(j) \/ Fails(j)
    PROVE  IInv'
<1>1. TablesOK' /\ cursor' \in Cursors /\ faults' \in 0..MaxFaults
  BY ThisRun, FaultOK DEF WriteFindsNone, Fails, TablesOK
<1> QED  BY <1>1, IdleStep DEF WriteFindsNone, Fails

\* The cursor that expires.
LEMMA ExpiresStep ==
    ASSUME IInv, Expires
    PROVE  IInv'
<1>1. cursor' \in Cursors
  BY DEF Expires, NoCursor, Cursors
<1>2. TablesOK'
  BY JobByJob DEF Expires, TablesOK
<1> QED  BY <1>1, <1>2, FaultOK, JobByJob, JobByJobNext DEF Expires

\* The process that is started again.
LEMMA RestartStep ==
    ASSUME IInv, Restart
    PROVE  IInv'
<1>1. cursor' \in Cursors
  BY DEF Restart, NoCursor, Cursors
<1>2. TablesOK' /\ review' \in [Review -> ReviewRow] /\ review' = review
  BY JobByJob DEF Restart, TablesOK
<1>3. IdleJob \in Job /\ Nothing \in [Product -> SUBSET Counters]
  BY IdleOK DEF JobOK
<1>4. /\ job' \in [Run -> Job] /\ had' \in [Run -> [Product -> SUBSET Counters]]
      /\ \A j \in Run : job'[j] = IdleJob /\ had'[j] = Nothing
  BY <1>3 DEF Restart
<1>5. \A j \in Run : JobOK(job'[j], had'[j], review')
  BY <1>2, <1>4, IdleOK
<1>6. faults' \in 0..MaxFaults
  BY FaultOK DEF Restart
<1> QED  BY <1>1, <1>2, <1>4, <1>5, <1>6, JobByJobNext

\* The reviews change: every run that is on its way has seen the new counts.
LEMMA ReviewedStep ==
    ASSUME IInv, NEW rev \in [Review -> ReviewRow], Reviewed(rev), UNCHANGED <<cursor, job, faults>>, TablesOK'
    PROVE  IInv'
<1>1. \A j \in Run, p \in Product : had[j][p] \cup {Counts(rev, p)} \subseteq Counters
  BY CountsOK, JobByJob
<1>2. Nothing \in [Product -> SUBSET Counters]
  BY DEF Nothing
<1>3. had' \in [Run -> [Product -> SUBSET Counters]]
  BY <1>1, <1>2 DEF Reviewed
<1>4. ASSUME NEW j \in Run
      PROVE  JobOK(job[j], had'[j], rev)
  <2>1. had'[j] \in [Product -> SUBSET Counters]
    BY <1>3
  <2>2. JobOK(job[j], had[j], review)
    BY JobByJob
  <2>3. CASE job[j].at = "idle"
    BY <2>1, <2>2, <2>3 DEF JobOK
  <2>4. CASE job[j].at # "idle"
    <3>1. \A p \in Product : had'[j][p] = had[j][p] \cup {Counts(rev, p)}
      BY <2>4 DEF Reviewed
    <3>2. job[j].at = "writing" => Head(job[j].page) \in Product
      BY <2>2, <2>4, TailOK DEF JobOK, Job
    <3> QED  BY <2>1, <2>2, <3>1, <3>2 DEF JobOK
  <2> QED  BY <2>3, <2>4
<1>5. review' = rev
  BY DEF Reviewed
<1>6. \A j \in Run : JobOK(job'[j], had'[j], review')
  BY <1>4, <1>5
<1> QED  BY <1>3, <1>5, <1>6, JobByJob, JobByJobNext

\* A new product.
LEMMA CreateProductStep ==
    ASSUME IInv, NEW p \in Product, NEW t \in Time, CreateProduct(p, t)
    PROVE  IInv'
<1>1. TablesOK'
  BY JobByJob DEF CreateProduct, TablesOK
<1> QED  BY <1>1, JobByJob, JobByJobNext DEF CreateProduct

\* A product that is deleted, and its reviews with it.
LEMMA DeleteProductStep ==
    ASSUME IInv, NEW p \in Product, DeleteProduct(p)
    PROVE  IInv'
<1>1. TablesOK'
  BY JobByJob, NoReviewsOK DEF DeleteProduct, TablesOK
<1>2. [NoReview EXCEPT !.status = "deleted"] \in ReviewRow
  BY DEF NoReview, ReviewRow
<1>3. [v \in Review |-> IF v \in Of(review, p) THEN [NoReview EXCEPT !.status = "deleted"]
                        ELSE review[v]] \in [Review -> ReviewRow]
  BY <1>2, JobByJob
<1> QED  BY <1>1, <1>3, ReviewedStep DEF DeleteProduct

\* The reviews that are written, confirmed and deleted.
LEMMA ReviewStep ==
    ASSUME IInv, NEW v \in Review,
           \/ \E p \in Product, s \in Star : CreateReview(v, p, s)
           \/ \E status \in {"PENDING", "CONFIRMED"} : ChangeStatus(v, status)
           \/ DeleteReview(v)
    PROVE  IInv'
<1>1. PICK rev \in [Review -> ReviewRow] : Reviewed(rev)
  <2>1. review \in [Review -> ReviewRow]
    BY JobByJob
  <2>2. [NoReview EXCEPT !.status = "deleted"] \in ReviewRow
    BY DEF NoReview, ReviewRow
  <2>3. \A p \in Product, s \in Star : [product |-> p, star |-> s, status |-> "PENDING"] \in ReviewRow
    BY DEF ReviewRow
  <2>4. \A status \in {"PENDING", "CONFIRMED"} : [review EXCEPT ![v].status = status] \in [Review -> ReviewRow]
    BY <2>1 DEF ReviewRow
  <2> QED  BY <2>1, <2>2, <2>3, <2>4 DEF CreateReview, ChangeStatus, DeleteReview
<1>2. UNCHANGED <<cursor, job, faults>> /\ TablesOK'
  BY JobByJob DEF CreateReview, ChangeStatus, DeleteReview, TablesOK
<1> QED  BY <1>1, <1>2, ReviewedStep

-----------------------------------------------------------------------------
(* The theorems.                                                           *)

\* At first there is nothing.
LEMMA InitOK ==
    ASSUME Init
    PROVE  IInv
<1>1. TablesOK
  BY NoReviewsOK DEF Init, TablesOK
<1>2. NoReview \in ReviewRow /\ NoCursor \in Cursors
  BY DEF NoReview, ReviewRow, NoCursor, Cursors
<1>3. review \in [Review -> ReviewRow] /\ cursor \in Cursors
  BY <1>2 DEF Init
<1>4. faults \in 0..MaxFaults
  BY JobAssumption DEF Init
<1>5. IdleJob \in Job /\ Nothing \in [Product -> SUBSET Counters]
  BY IdleOK DEF JobOK
<1>6. /\ job \in [Run -> Job] /\ had \in [Run -> [Product -> SUBSET Counters]]
      /\ \A j \in Run : job[j] = IdleJob /\ had[j] = Nothing
  BY <1>5 DEF Init
<1>7. \A j \in Run : JobOK(job[j], had[j], review)
  BY <1>6, IdleOK
<1> QED  BY <1>1, <1>3, <1>4, <1>6, <1>7, JobByJob

\* Every step keeps it.
LEMMA NextOK ==
    ASSUME IInv, [Next]_vars
    PROVE  IInv'
<1>1. CASE UNCHANGED vars
  <2>1. TablesOK'
    BY <1>1, JobByJob DEF vars, TablesOK
  <2> QED  BY <1>1, <2>1, JobByJob, JobByJobNext DEF vars
<1>2. ASSUME NEW j \in Run, Progress(j) \/ Fails(j)
      PROVE  IInv'
  BY <1>2, BeginStep, TakePageStep, StartOverStep, CountStep, WriteStep, StopStep DEF Progress
<1>3. CASE Expires \/ Restart
  BY <1>3, ExpiresStep, RestartStep
<1>4. CASE \/ \E p \in Product, t \in Time : CreateProduct(p, t)
           \/ \E p \in Product : DeleteProduct(p)
  BY <1>4, CreateProductStep, DeleteProductStep
<1>5. CASE \/ \E v \in Review, p \in Product, s \in Star : CreateReview(v, p, s)
           \/ \E v \in Review, status \in {"PENDING", "CONFIRMED"} : ChangeStatus(v, status)
           \/ \E v \in Review : DeleteReview(v)
  BY <1>5, ReviewStep
<1> QED  BY <1>1, <1>2, <1>3, <1>4, <1>5 DEF Next

\* However many runs overlap, each that is on its way has seen the counts of
\* every moment since it began.
THEOREM Invariance == Spec => []IInv
<1>1. Init => IInv
  BY InitOK
<1>2. IInv /\ [Next]_vars => IInv'
  BY NextOK
<1> QED  BY <1>1, <1>2, PTL DEF Spec

\* The types; among them, that an average is within 0..50 tenths.
THEOREM TypeCorrect == Spec => []TypeOK
<1>1. IInv => TypeOK
  BY DEF IInv
<1> QED  BY <1>1, Invariance, PTL

\* A rating comes from a run that writes.
LEMMA RatingWritten ==
    ASSUME IInv, [Next]_vars, NEW p \in Present, ratings'[p] # ratings[p], created'[p] # 0
    PROVE  /\ \E j \in Run : job[j].at = "writing" /\ ratings'[p] \in had[j][p]
           /\ rating'[p] = Average(ratings'[p])
<1>1. TablesOK /\ p \in Product
  BY JobByJob DEF Present
<1>2. ratings' # ratings
  OBVIOUS
<1>3. ASSUME NEW q \in Product, DeleteProduct(q)
      PROVE  FALSE
  <2>1. CASE q = p
    BY <1>1, <1>3, <2>1 DEF DeleteProduct, TablesOK
  <2>2. CASE q # p
    BY <1>1, <1>3, <2>2 DEF DeleteProduct, TablesOK
  <2> QED  BY <2>1, <2>2
<1>4. PICK j \in Run : Write(j)
  BY <1>2, <1>3 DEF Next, vars, Progress, Begin, TakePage, StartOver, Count, WriteFindsNone, Fails, Expires,
     Restart, CreateProduct, CreateReview, ChangeStatus, DeleteReview
<1>5. /\ job[j].at = "writing"
      /\ ratings' = [ratings EXCEPT ![Head(job[j].page)] = job[j].counts]
      /\ rating' = [rating EXCEPT ![Head(job[j].page)] = Average(job[j].counts)]
  BY <1>4 DEF Write
<1>6. Head(job[j].page) = p
  BY <1>1, <1>5 DEF TablesOK
<1>7. ratings'[p] = job[j].counts /\ rating'[p] = Average(job[j].counts)
  BY <1>1, <1>5, <1>6 DEF TablesOK
<1>8. job[j].counts \in had[j][p]
  BY <1>5, <1>6, ThisRun DEF JobOK
<1> QED  BY <1>5, <1>7, <1>8

\* What a run writes is what the product's reviews were at one moment since
\* the run began, and the average is that of the counts.
THEOREM RatingsReflect == Spec => RatingsReflectTheRun
<1>1. IInv /\ [Next]_vars =>
        [\A p \in Present : ratings'[p] # ratings[p] /\ created'[p] # 0 =>
          /\ \E j \in Run : job[j].at = "writing" /\ ratings'[p] \in had[j][p]
          /\ rating'[p] = Average(ratings'[p])]_vars
  BY RatingWritten
<1> QED  BY <1>1, Invariance, PTL DEF Spec, RatingsReflectTheRun

\* Of the products after a cursor, the ones a page leaves behind were created
\* no earlier than the last one on it.
LEMMA LeftBehind ==
    ASSUME TypeOK, NEW c, NEW page \in Pages(c), Len(page) > 1, NEW p \in After(c), p \notin Range(page)
    PROVE  Last(page) \in Product /\ Last(page) # p /\ created[Last(page)] <= created[p]
<1>1. page \in Seq(Product)
  BY PagesOK
<1>2. Len(page) \in Nat /\ Len(page) \in 1..Len(page) /\ DOMAIN page = 1..Len(page)
  BY <1>1
<1>3. Last(page) = page[Len(page)] /\ Last(page) \in Range(page) /\ Last(page) \in Product
  BY <1>1, <1>2 DEF Last, Range
<1>4. ~(created[p] < created[Last(page)])
  <2> DEFINE n == Min({Take, Cardinality(After(c))})
  <2>1. page \in [1..n -> After(c)] /\ \A i \in 1..n : \A q \in After(c) :
            created[q] < created[page[i]] => \E k \in 1..(i - 1) : page[k] = q
    BY DEF Pages
  <2>2. n \in Nat
    BY AfterOK, JobAssumption DEF Min
  <2> HIDE DEF n
  <2>3. Len(page) = n
    <3>1. page \in [1..n -> Product]
      BY <2>1, AfterOK
    <3> QED  BY <2>2, <3>1
  <2>4. ASSUME created[p] < created[page[Len(page)]]
        PROVE  FALSE
    <3>1. PICK k \in 1..(Len(page) - 1) : page[k] = p
      BY <1>2, <2>1, <2>3, <2>4
    <3>2. k \in DOMAIN page
      BY <1>2, <3>1
    <3> QED  BY <3>1, <3>2 DEF Range
  <2> QED  BY <1>3, <2>4
<1>5. created[p] \in Nat /\ created[Last(page)] \in Nat
  <2>1. p \in Product
    BY AfterOK
  <2> QED  BY <1>3, <2>1, Stamp
<1> QED  BY <1>3, <1>4, <1>5

\* A run that takes a page moves the cursor past nothing that it does not rate.
LEMMA PagesPassNothing ==
    ASSUME IInv, [Next]_vars, NEW j \in Run, job[j].at = "asking", job'[j].at = "counting",
           NEW p \in After(job[j].last)
    PROVE  \/ p \in Range(job'[j].page)
           \/ p \in After(cursor')
           \/ /\ created[p] = created[Last(job'[j].page)] /\ Ms(created[p]) = created[p]
              /\ p < Last(job'[j].page)
<1>1. TakePage(j)
  <2>1. job \in [Run -> Job] /\ job'[j] # job[j]
    BY JobByJob
  <2>2. ~Restart
    BY DEF Restart, IdleJob
  <2>3. /\ ~(\E p1 \in Product, t \in Time : CreateProduct(p1, t))
        /\ ~(\E p1 \in Product : DeleteProduct(p1)) /\ ~Expires
    BY <2>1 DEF CreateProduct, DeleteProduct, Expires
  <2>4. \A v \in Review : /\ \A p1 \in Product, s \in Star : ~CreateReview(v, p1, s)
                          /\ \A status \in {"PENDING", "CONFIRMED"} : ~ChangeStatus(v, status)
                          /\ ~DeleteReview(v)
    BY <2>1 DEF CreateReview, ChangeStatus, DeleteReview
  <2>5. PICK i \in Run : Progress(i) \/ Fails(i)
    BY <2>1, <2>2, <2>3, <2>4 DEF Next, vars
  <2>6. PICK run : job' = [job EXCEPT ![i] = run] /\ (run.at = "counting" /\ job[i].at = "asking" => TakePage(i))
    <3>1. CASE TakePage(i)
      BY <2>1, <3>1 DEF TakePage
    <3>2. CASE Begin(i)
      BY <2>1, <3>2 DEF Begin
    <3>3. CASE StartOver(i) \/ WriteFindsNone(i) \/ Fails(i)
      BY <3>3 DEF StartOver, WriteFindsNone, Fails, Idle, IdleJob
    <3>4. CASE Count(i)
      BY <2>1, <3>4 DEF Count
    <3>5. CASE Write(i)
      BY <2>1, <3>5 DEF Write, Idle
    <3> QED  BY <2>5, <3>1, <3>2, <3>3, <3>4, <3>5 DEF Progress
  <2>7. i = j /\ run = job'[j]
    BY <2>1, <2>6
  <2> QED  BY <2>6, <2>7
<1>2. PICK page \in Pages(job[j].last) :
         /\ Len(page) > 1 /\ cursor' = CursorAt(Last(page))
         /\ job' = [job EXCEPT ![j].at = "counting", ![j].page = page]
  BY <1>1 DEF TakePage
<1>3. job'[j].page = page
  BY <1>2, JobByJob DEF Job
<1>4. SUFFICES ASSUME p \notin Range(page), p \notin After(cursor')
               PROVE  /\ created[p] = created[Last(page)] /\ Ms(created[p]) = created[p]
                      /\ p < Last(page)
  BY <1>3
<1>5. Last(page) \in Product /\ Last(page) # p /\ created[Last(page)] <= created[p]
  BY <1>2, <1>4, LeftBehind, ThisRun
<1>6. p \in Present /\ p \in Nat /\ Last(page) \in Nat
  BY <1>5, AfterOK, ProductAssumption DEF After
<1>7. created[p] \in Nat /\ created[Last(page)] \in Nat
  BY <1>5, AfterOK, Stamp, ThisRun
<1>8. cursor'.at = Ms(created[Last(page)]) /\ cursor'.id = Last(page)
  BY <1>2 DEF CursorAt
<1>9. ~(created[p] > Ms(created[Last(page)])) /\ ~(created[p] = Ms(created[Last(page)]) /\ p > Last(page))
  BY <1>4, <1>6, <1>8 DEF After
<1>10. PICK ms \in Nat : ms = Ms(created[Last(page)]) /\ ms <= created[Last(page)]
  BY <1>7, Ticks
<1>11. created[p] = ms /\ created[Last(page)] = ms
  BY <1>5, <1>7, <1>9, <1>10
<1>12. p < Last(page)
  BY <1>5, <1>6, <1>9, <1>10, <1>11
<1> QED  BY <1>10, <1>11, <1>12

\* The cursor passes over no product but on a tie of whole milliseconds: the
\* safety half of RatingsSettle.
THEOREM CursorPassesNothing == Spec => NonePassedOver
<1>1. IInv /\ [Next]_vars =>
        [\A j \in Run : job[j].at = "asking" /\ job'[j].at = "counting" =>
          LET page == job'[j].page
              last == Last(page)
          IN  \A p \in After(job[j].last) :
                 \/ p \in Range(page)
                 \/ p \in After(cursor')
                 \/ created[p] = created[last] /\ Ms(created[p]) = created[p] /\ p < last]_vars
  BY PagesPassNothing
<1> QED  BY <1>1, Invariance, PTL DEF Spec, NonePassedOver

=============================================================================
