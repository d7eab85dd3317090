----------------------------- MODULE RatingCron -----------------------------
(***************************************************************************)
(* The job that rates the products.  Every half hour                       *)
(* ProductService.cronProductRating takes the products after a cursor,     *)
(* moves the cursor to the last of them and then, one product after the    *)
(* other, counts the product's reviews and writes the counts and their     *)
(* average into the product's row.  The cursor lives in the memory of the  *)
(* process.  Meanwhile products and reviews come and go.                   *)
(*                                                                         *)
(* The database keeps created_at in microseconds and the program reads it  *)
(* in milliseconds: a row compares greater than its own created_at as the  *)
(* cursor has it, unless it was created on a whole millisecond.            *)
(***************************************************************************)
EXTENDS Naturals, Sequences, FiniteSets, SequencesExt, FiniteSetsExt, Functions

CONSTANTS
    Product,     \* ids, which the database compares
    Review,
    Star,        \* the stars that are given, of 1..5
    Run,         \* how many runs of the job may overlap
    Time,        \* microseconds, PerMs to a millisecond
    PerMs,
    Take,        \* PRODUCT.CRON_TAKE
    HowMany,     \* PRODUCT.RECOMMEND_HOW_MANY
    MaxFaults    \* failing statements, restarts, a cursor that expires

ASSUME ProductAssumption == Product \subseteq Nat \ {0} /\ IsFiniteSet(Product)
ASSUME ReviewAssumption == IsFiniteSet(Review) /\ Star \subseteq 1..5
ASSUME TimeAssumption == Time \subseteq Nat \ {0} /\ PerMs \in Nat \ {0}
ASSUME JobAssumption == Take \in Nat /\ MaxFaults \in Nat

VARIABLES
    created,     \* product: created_at; 0: there is no row
    rating,      \* product: the average of its row, in tenths
    ratings,     \* product: the counts of its row, one for each of five stars
    gone,        \* products that were deleted
    review,      \* review: its product, stars and status
    cursor,      \* LAST_PRODUCT_CACHE_KEY: created_at and id, or nothing
    job,         \* each run of the job
    had,         \* run: for each product, the counts it has had since the run began
    faults

vars == <<created, rating, ratings, gone, review, cursor, job, had, faults>>

NoReviews == [s \in 1..5 |-> 0]
NoCursor == [at |-> 0, id |-> 0]
IdleJob == [at |-> "idle", last |-> NoCursor, page |-> <<>>, counts |-> NoReviews]
NoReview == [product |-> 0, star |-> 0, status |-> "none"]

Present == {p \in Product : created[p] # 0}
Cursors == [at : Nat, id : Product \cup {0}]
Counters == [1..5 -> 0..Cardinality(Review)]
Job == [at : {"idle", "asking", "counting", "writing"}, last : Cursors, page : Seq(Product),
        counts : Counters]

TypeOK ==
    /\ created \in [Product -> Time \cup {0}]
    /\ rating \in [Product -> 0..50]
    /\ ratings \in [Product -> Counters]
    /\ gone \subseteq Product
    /\ review \in [Review -> [product : Product \cup {0}, star : Star \cup {0},
                              status : {"none", "PENDING", "CONFIRMED", "deleted"}]]
    /\ cursor \in Cursors
    /\ job \in [Run -> Job]
    /\ \A j \in Run : Len(job[j].page) <= Take
    /\ had \in [Run -> [Product -> SUBSET Counters]]
    /\ faults \in 0..MaxFaults

Nothing == [p \in Product |-> {}]

Init ==
    /\ created = [p \in Product |-> 0]
    /\ rating = [p \in Product |-> 0]
    /\ ratings = [p \in Product |-> NoReviews]
    /\ gone = {}
    /\ review = [v \in Review |-> NoReview]
    /\ cursor = NoCursor
    /\ job = [j \in Run |-> IdleJob]
    /\ had = [j \in Run |-> Nothing]
    /\ faults = 0

Fault == faults < MaxFaults /\ faults' = faults + 1

-----------------------------------------------------------------------------
(* Counts and averages.                                                    *)

Of(rev, p) == {v \in Review : rev[v].product = p /\ rev[v].status # "deleted"}

\* As Counts, of the reviews that were confirmed.
CountsConfirmed(rev, p) ==
    [s \in 1..5 |-> Cardinality({v \in Of(rev, p) : rev[v].star = s /\ rev[v].status = "CONFIRMED"})]

\* getProductRatings: the reviews of any status, by stars.
Counts(rev, p) == [s \in 1..5 |-> Cardinality({v \in Of(rev, p) : rev[v].star = s})]

\* getAverageRating, in tenths: toFixed(1) rounds a half up (the products
\* with so many reviews that binary fractions decide are not modelled).
Average(c) ==
    LET n == c[1] + c[2] + c[3] + c[4] + c[5]
        stars == c[1] + 2 * c[2] + 3 * c[3] + 4 * c[4] + 5 * c[5]
    IN IF n = 0 THEN 0 ELSE (20 * stars + n) \div (2 * n)

-----------------------------------------------------------------------------
(* The job.                                                                *)

Ms(t) == t - (t % PerMs)

CursorAt(p) == [at |-> Ms(created[p]), id |-> p]

\* initProductCache: any of the products created first.
First == {p \in Present : \A q \in Present : created[p] <= created[q]}

\* The rows strictly after the cursor, as the WHERE clause says it.
After(c) == {p \in Present : created[p] > c.at \/ (created[p] = c.at /\ p > c.id)}

\* As Pages, without the limit.
PagesAll(c) ==
    LET n == Cardinality(After(c)) IN
    {page \in [1..n -> After(c)] :
       /\ IsInjective(page)
       /\ \A i, k \in 1..n : i < k => created[page[i]] <= created[page[k]]}

\* As Pages, without the order.
PagesUnsorted(c) ==
    {page \in [1..Min({Take, Cardinality(After(c))}) -> After(c)] : IsInjective(page)}

\* getProductsForCron: the first Take rows by created_at; equal ones come in
\* any order.
Pages(c) ==
    LET n == Min({Take, Cardinality(After(c))}) IN
    {page \in [1..n -> After(c)] :
       /\ IsInjective(page)
       /\ \A i \in 1..n : \A q \in After(c) :
            created[q] < created[page[i]] => \E k \in 1..(i - 1) : page[k] = q}

\* getLastProductCache.  Without a product initProductCache throws, and the
\* scheduler logs it.
Begin(j) ==
    /\ job[j].at = "idle"
    /\ Present # {} \/ cursor # NoCursor
    /\ \E c \in IF cursor = NoCursor THEN {CursorAt(p) : p \in First} ELSE {cursor} :
          /\ cursor' = c
          /\ job' = [job EXCEPT ![j] = [IdleJob EXCEPT !.at = "asking", !.last = c]]
    /\ had' = [had EXCEPT ![j] = [p \in Product |-> {Counts(review, p)}]]
    /\ UNCHANGED <<created, rating, ratings, gone, review, faults>>

Idle(j) == /\ job' = [job EXCEPT ![j] = IdleJob]
           /\ had' = [had EXCEPT ![j] = Nothing]

\* A page of more than one product: the cursor moves before a product is rated.
TakePage(j) ==
    /\ job[j].at = "asking"
    /\ \E page \in Pages(job[j].last) :
          /\ Len(page) > 1
          /\ cursor' = CursorAt(Last(page))
          /\ job' = [job EXCEPT ![j].at = "counting", ![j].page = page]
    /\ UNCHANGED <<created, rating, ratings, gone, review, had, faults>>

\* As StartOver, with the cursor left where it is.
StayThere(j) ==
    /\ job[j].at = "asking"
    /\ Cardinality(After(job[j].last)) <= 1
    /\ cursor' = job[j].last
    /\ Idle(j)
    /\ UNCHANGED <<created, rating, ratings, gone, review, faults>>

\* None or one: back to the first product, or an exception when there is none.
StartOver(j) ==
    /\ job[j].at = "asking"
    /\ Cardinality(After(job[j].last)) <= 1
    /\ IF First = {} THEN UNCHANGED cursor ELSE \E p \in First : cursor' = CursorAt(p)
    /\ Idle(j)
    /\ UNCHANGED <<created, rating, ratings, gone, review, faults>>

Count(j) ==
    /\ job[j].at = "counting"
    /\ job' = [job EXCEPT ![j].at = "writing", ![j].counts = Counts(review, Head(job[j].page))]
    /\ UNCHANGED <<created, rating, ratings, gone, review, cursor, had, faults>>

\* As Write, of the counts to the product that comes next.
WriteToNext(j) ==
    LET p == Last(job[j].page) IN
    /\ job[j].at = "writing"
    /\ p \in Present
    /\ ratings' = [ratings EXCEPT ![p] = job[j].counts]
    /\ rating' = [rating EXCEPT ![p] = Average(job[j].counts)]
    /\ IF Len(job[j].page) = 1 THEN Idle(j)
       ELSE /\ job' = [job EXCEPT ![j].at = "counting", ![j].page = Tail(@)]
            /\ UNCHANGED had
    /\ UNCHANGED <<created, gone, review, cursor, faults>>

\* Counts and average in one UPDATE, and on to the next product of the page.
Write(j) ==
    LET p == Head(job[j].page) IN
    /\ job[j].at = "writing"
    /\ p \in Present
    /\ ratings' = [ratings EXCEPT ![p] = job[j].counts]
    /\ rating' = [rating EXCEPT ![p] = Average(job[j].counts)]
    /\ IF Len(job[j].page) = 1 THEN Idle(j)
       ELSE /\ job' = [job EXCEPT ![j].at = "counting", ![j].page = Tail(@)]
            /\ UNCHANGED had
    /\ UNCHANGED <<created, gone, review, cursor, faults>>

\* The product was deleted: the UPDATE throws, the rest of the page waits for
\* the next round.
WriteFindsNone(j) ==
    /\ job[j].at = "writing"
    /\ Head(job[j].page) \notin Present
    /\ Idle(j)
    /\ UNCHANGED <<created, rating, ratings, gone, review, cursor, faults>>

\* A statement fails.
Fails(j) ==
    /\ job[j].at # "idle"
    /\ Fault
    /\ Idle(j)
    /\ UNCHANGED <<created, rating, ratings, gone, review, cursor>>

\* An hour without a page.
Expires ==
    /\ cursor # NoCursor
    /\ Fault
    /\ cursor' = NoCursor
    /\ UNCHANGED <<created, rating, ratings, gone, review, job, had>>

Restart ==
    /\ Fault
    /\ cursor' = NoCursor
    /\ job' = [j \in Run |-> IdleJob]
    /\ had' = [j \in Run |-> Nothing]
    /\ UNCHANGED <<created, rating, ratings, gone, review>>

-----------------------------------------------------------------------------
(* Products and reviews.                                                   *)

CreateProduct(p, t) ==
    /\ p \notin Present \cup gone
    /\ \A q \in Present : created[q] <= t
    /\ created' = [created EXCEPT ![p] = t]
    /\ UNCHANGED <<rating, ratings, gone, review, cursor, job, had, faults>>

Reviewed(rev) ==
    /\ review' = rev
    /\ had' = [j \in Run |-> IF job[j].at = "idle" THEN Nothing
                             ELSE [p \in Product |-> had[j][p] \cup {Counts(rev, p)}]]

\* The row goes, and its reviews with it (onDelete: CASCADE).
DeleteProduct(p) ==
    /\ p \in Present
    /\ created' = [created EXCEPT ![p] = 0]
    /\ rating' = [rating EXCEPT ![p] = 0]
    /\ ratings' = [ratings EXCEPT ![p] = NoReviews]
    /\ gone' = gone \cup {p}
    /\ Reviewed([v \in Review |-> IF v \in Of(review, p) THEN [NoReview EXCEPT !.status = "deleted"]
                                  ELSE review[v]])
    /\ UNCHANGED <<cursor, job, faults>>

\* ReviewService.create: product_id is a foreign key.
CreateReview(v, p, s) ==
    /\ review[v].status = "none"
    /\ p \in Present
    /\ Reviewed([review EXCEPT ![v] = [product |-> p, star |-> s, status |-> "PENDING"]])
    /\ UNCHANGED <<created, rating, ratings, gone, cursor, job, faults>>

ChangeStatus(v, status) ==
    /\ review[v].status \in {"PENDING", "CONFIRMED"}
    /\ Reviewed([review EXCEPT ![v].status = status])
    /\ UNCHANGED <<created, rating, ratings, gone, cursor, job, faults>>

DeleteReview(v) ==
    /\ review[v].status \in {"PENDING", "CONFIRMED"}
    /\ Reviewed([review EXCEPT ![v] = [NoReview EXCEPT !.status = "deleted"]])
    /\ UNCHANGED <<created, rating, ratings, gone, cursor, job, faults>>

-----------------------------------------------------------------------------
Progress(j) ==
    Begin(j) \/ TakePage(j) \/ StartOver(j) \/ Count(j) \/ Write(j) \/ WriteFindsNone(j)

Next ==
    \/ \E j \in Run : Progress(j) \/ Fails(j)
    \/ Expires \/ Restart
    \/ \E p \in Product, t \in Time : CreateProduct(p, t)
    \/ \E p \in Product : DeleteProduct(p)
    \/ \E v \in Review, p \in Product, s \in Star : CreateReview(v, p, s)
    \/ \E v \in Review, status \in {"PENDING", "CONFIRMED"} : ChangeStatus(v, status)
    \/ \E v \in Review : DeleteReview(v)

Spec == Init /\ [][Next]_vars
FairSpec == Spec /\ \A j \in Run : WF_vars(Progress(j))

-----------------------------------------------------------------------------
(* What is shown of it.                                                    *)

\* getReviewsOfProduct, for one number of stars: those confirmed.
ReviewsOfProduct(p, s) ==
    {v \in Of(review, p) : review[v].star = s /\ review[v].status = "CONFIRMED"}

\* findReviewsByProduct, all the pages of it: either order is one by date.
Listed(p, stars) == UNION {ReviewsOfProduct(p, s) : s \in stars}

\* findRecommendProducts: the best rated; equal ones in any order.  (Which
\* products are active is ProductRemoval's.)
Recommendations ==
    {S \in SUBSET Present : /\ Cardinality(S) = Min({HowMany, Cardinality(Present)})
                            /\ \A p \in S, q \in Present \ S : rating[p] >= rating[q]}

-----------------------------------------------------------------------------
(* Properties.                                                             *)

\* What a run writes into a product's row is what that product's reviews were
\* at one moment since the run began, never an older state, another
\* product's, or a mixture; and the average is that of the counts.
RatingsReflectTheRun ==
    [][\A p \in Present : ratings'[p] # ratings[p] /\ created'[p] # 0 =>
          /\ \E j \in Run : job[j].at = "writing" /\ ratings'[p] \in had[j][p]
          /\ rating'[p] = Average(ratings'[p])]_vars

\* The cursor passes no product over: one that comes after it is on the page
\* that a run takes, or comes after the cursor that this leaves, unless it was
\* created on the very tick of the page's last product and has a lower id.
NonePassedOver ==
    [][\A j \in Run : job[j].at = "asking" /\ job'[j].at = "counting" =>
          LET page == job'[j].page
              last == Last(page)
          IN  \A p \in After(job[j].last) :
                 \/ p \in Range(page)
                 \/ p \in After(cursor')
                 \/ created[p] = created[last] /\ Ms(created[p]) = created[p] /\ p < last]_vars

\* No tick, no tie: no product was created on a whole millisecond, no two in
\* the same one, and there is more than one.
Regular ==
    /\ Cardinality(Present) # 1
    /\ \A p \in Present : Ms(created[p]) # created[p]
    /\ \A p, q \in Present : p # q => Ms(created[p]) # Ms(created[q])

\* When the shop is quiet, its products are in the end rated by the reviews
\* they have, no round of the job leaves one out, and what a product's page
\* lists and the shop recommends agrees with that.  A single product, one
\* created on a whole millisecond and two of the same millisecond may be left
\* out for ever.
RatingsSettle ==
    <>[](Regular =>
           /\ \A p \in Present : ratings[p] = Counts(review, p)
           /\ \A p \in Present, s \in Star : Cardinality(Listed(p, {s})) <= ratings[p][s]
           /\ \A S \in Recommendations : \A p \in S, q \in Present \ S :
                 Average(Counts(review, p)) >= Average(Counts(review, q)))

-----------------------------------------------------------------------------
(* The inductive invariant.                                                *)

\* A run that rates has a product to rate; what its product's reviews are is
\* always among what they have been since it began, and so is what it counted.
RunsKeepUp ==
    \A j \in Run : job[j].at # "idle" =>
       /\ \A p \in Product : Counts(review, p) \in had[j][p]
       /\ job[j].at \in {"counting", "writing"} => job[j].page # << >>
       /\ job[j].at = "writing" => job[j].counts \in had[j][Head(job[j].page)]

IInv == TypeOK /\ RunsKeepUp

=============================================================================
