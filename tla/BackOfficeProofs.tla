-------------------------- MODULE BackOfficeProofs --------------------------
(***************************************************************************)
(* What holds of the dashboard for any number of rows, orders, tabs and    *)
(* administrators.                                                         *)
(*                                                                         *)
(* 1. Functions iterated on the naturals: Round's LET is one.              *)
(* 2. The storefront's list: the recursive query against the least set     *)
(*    closed under subcategories.  This needs no invariant, only that      *)
(*    there are finitely many categories: a round that is not empty stands *)
(*    on a chain of parents, one per round before it, and a chain longer   *)
(*    than there are categories comes by one of them twice.                *)
(* 3. The invariant, page by page and table by table; then the theorems.   *)
(***************************************************************************)
EXTENDS BackOffice, FiniteSetTheorems, WellFoundedInduction, TLAPS

-----------------------------------------------------------------------------
(* Functions iterated on the naturals.                                     *)

\* Induction on the naturals, for a set of them.
LEMMA SetInduction ==
    ASSUME NEW S, 0 \in S, \A n \in Nat : n \in S => n + 1 \in S
    PROVE  Nat \subseteq S
<1> SUFFICES ASSUME Nat \ S # {} PROVE FALSE
  OBVIOUS
<1> DEFINE Less == {ss \in Nat \X Nat : ss[1] < ss[2]}
<1>1. PICK m \in Nat \ S : \A k \in Nat \ S : ~ (<<k, m>> \in Less)
  <2>1. IsWellFoundedOn(Less, Nat)
    BY NatLessThanWellFounded DEF OpToRel
  <2>2. Nat \ S \subseteq Nat
    OBVIOUS
  <2> HIDE DEF Less
  <2> QED  BY <2>1, <2>2, WFMin
<1>2. m # 0
  OBVIOUS
<1>3. m - 1 \in Nat /\ m - 1 < m
  BY <1>2
<1>4. m - 1 \in S
  BY <1>1, <1>3
<1>5. (m - 1) + 1 = m
  OBVIOUS
<1> QED  BY <1>3, <1>4, <1>5

\* r goes from start, step by step, to n.
Goes(r, step, start, n) == r[0] = start /\ \A i \in 0..n : i # n => r[i + 1] = step[r[i]]

\* A function from sets to sets can be iterated: the rounds up to n.
LEMMA RoundsUpTo ==
    ASSUME NEW X, NEW step \in [X -> X], NEW start \in X, NEW n \in Nat
    PROVE  \E r \in [0..n -> X] : Goes(r, step, start, n)
<1> DEFINE Good == {k \in Nat : \E r \in [0..k -> X] :
                       Goes(r, step, start, k)}
<1>1. 0 \in Good
  <2> DEFINE r == [i \in 0..0 |-> start]
  <2>1. r \in [0..0 -> X] /\ r[0] = start /\ \A i \in 0..0 : i = 0
    OBVIOUS
  <2>2. Goes(r, step, start, 0)
    BY <2>1 DEF Goes
  <2> HIDE DEF r
  <2> QED  BY <2>1, <2>2
<1>2. ASSUME NEW k \in Nat, k \in Good
      PROVE  k + 1 \in Good
  <2>1. PICK r \in [0..k -> X] : Goes(r, step, start, k)
    BY <1>2
  <2> DEFINE s == [i \in 0..(k + 1) |-> IF i = k + 1 THEN step[r[k]] ELSE r[i]]
  <2>2. s \in [0..(k + 1) -> X]
    OBVIOUS
  <2>3. s[0] = start
    BY <2>1 DEF Goes
  <2>4. \A i \in 0..(k + 1) : i # k + 1 => s[i + 1] = step[s[i]]
    BY <2>1 DEF Goes
  <2>5. Goes(s, step, start, k + 1)
    BY <2>3, <2>4 DEF Goes
  <2> HIDE DEF s
  <2> QED  BY <2>2, <2>5
<1>3. Nat \subseteq Good
  <2> HIDE DEF Good
  <2> QED  BY <1>1, <1>2, SetInduction
<1> QED  BY <1>3

\* Two iterations agree as far as both go.
LEMMA RoundsAgree ==
    ASSUME NEW step, NEW start, NEW n \in Nat, NEW m \in Nat, NEW r, NEW s,
           Goes(r, step, start, n), Goes(s, step, start, m)
    PROVE  \A i \in Nat : i <= n /\ i <= m => r[i] = s[i]
<1> DEFINE Good == {i \in Nat : i <= n /\ i <= m => r[i] = s[i]}
<1>1. 0 \in Good
  BY DEF Goes
<1>2. ASSUME NEW i \in Nat, i \in Good
      PROVE  i + 1 \in Good
  <2> SUFFICES ASSUME i + 1 <= n, i + 1 <= m PROVE r[i + 1] = s[i + 1]
    OBVIOUS
  <2>1. i \in 0..n /\ i # n /\ i \in 0..m /\ i # m
    OBVIOUS
  <2> QED  BY <1>2, <2>1 DEF Goes
<1>3. Nat \subseteq Good
  <2> HIDE DEF Good
  <2> QED  BY <1>1, <1>2, SetInduction
<1> QED  BY <1>3

\* r goes on without end.
Iterates(r, step, start) == r[0] = start /\ \A n \in Nat : r[n + 1] = step[r[n]]

\* The rounds without end.
LEMMA Rounds ==
    ASSUME NEW X, NEW step \in [X -> X], NEW start \in X
    PROVE  \E r \in [Nat -> X] : Iterates(r, step, start)
<1> DEFINE some(n) == CHOOSE r \in [0..n -> X] : Goes(r, step, start, n)
           all == [n \in Nat |-> some(n)[n]]
<1>1. \A n \in Nat : some(n) \in [0..n -> X] /\ Goes(some(n), step, start, n)
  <2> SUFFICES ASSUME NEW n \in Nat PROVE some(n) \in [0..n -> X] /\ Goes(some(n), step, start, n)
    OBVIOUS
  <2>1. \E r \in [0..n -> X] : Goes(r, step, start, n)
    BY RoundsUpTo
  <2> QED  BY <2>1
<1> HIDE DEF some
<1>2. all \in [Nat -> X]
  BY <1>1
<1>3. all[0] = start
  BY <1>1 DEF Goes
<1>4. ASSUME NEW n \in Nat
      PROVE  all[n + 1] = step[all[n]]
  <2>0. n + 1 \in Nat /\ n <= n + 1 /\ n \in 0..(n + 1) /\ n # n + 1
    OBVIOUS
  <2>1. some(n + 1)[n] = some(n)[n]
    <3>1. Goes(some(n + 1), step, start, n + 1) /\ Goes(some(n), step, start, n)
      BY <1>1, <2>0
    <3>2. PICK m \in Nat : m = n + 1
      BY <2>0
    <3>3. PICK r, s : r = some(m) /\ s = some(n) /\ Goes(r, step, start, m) /\ Goes(s, step, start, n)
      BY <3>1, <3>2
    <3>4. \A i \in Nat : i <= m /\ i <= n => r[i] = s[i]
      BY <3>3, RoundsAgree
    <3> QED  BY <2>0, <3>2, <3>3, <3>4
  <2>2. some(n + 1)[n + 1] = step[some(n + 1)[n]]
    BY <1>1, <2>0 DEF Goes
  <2> QED  BY <2>0, <2>1, <2>2
<1>5. Iterates(all, step, start)
  BY <1>3, <1>4 DEF Iterates
<1> HIDE DEF all
<1> QED  BY <1>2, <1>5

\* What Round(S) is: the categories of S that exist, and round by round the
\* children of the last.
LEMMA RoundIs ==
    ASSUME NEW S \in SUBSET Category
    PROVE  /\ Round(S) \in [Nat -> SUBSET Category]
           /\ Round(S)[0] = {c \in S : Exists(c)}
           /\ \A n \in Nat : Round(S)[n + 1] = Children(Round(S)[n])
<1> DEFINE Rec(r) == [n \in Nat |-> IF n = 0 THEN {c \in S : Exists(c)} ELSE Children(r[n - 1])]
           step == [A \in SUBSET Category |-> Children(A)]
           first == {c \in S : Exists(c)}
<1>1. Round(S) = CHOOSE r : r = Rec(r)
  BY DEF Round
<1>2. step \in [SUBSET Category -> SUBSET Category] /\ first \in SUBSET Category
  BY DEF Children
<1>3. PICK r \in [Nat -> SUBSET Category] : Iterates(r, step, first)
  <2> HIDE DEF step, first
  <2> QED  BY <1>2, Rounds
<1>4. r = Rec(r)
  <2>1. ASSUME NEW n \in Nat
        PROVE  r[n] = IF n = 0 THEN {c \in S : Exists(c)} ELSE Children(r[n - 1])
    <3>1. CASE n = 0
      BY <1>3, <3>1 DEF Iterates
    <3>2. CASE n # 0
      <4>1. n - 1 \in Nat /\ (n - 1) + 1 = n
        BY <3>2
      <4>2. r[n] = step[r[n - 1]] /\ r[n - 1] \in SUBSET Category
        BY <1>3, <4>1 DEF Iterates
      <4> QED  BY <3>2, <4>2
    <3> QED  BY <3>1, <3>2
  <2> QED  BY <2>1
<1>5. Round(S) = Rec(Round(S))
  BY <1>1, <1>4
<1>6. \A n \in Nat : Round(S)[n] = IF n = 0 THEN {c \in S : Exists(c)} ELSE Children(Round(S)[n - 1])
  BY <1>5
<1>7. Round(S)[0] = {c \in S : Exists(c)}
  BY <1>6
<1>8. \A n \in Nat : Round(S)[n + 1] = Children(Round(S)[n])
  <2> SUFFICES ASSUME NEW n \in Nat PROVE Round(S)[n + 1] = Children(Round(S)[n])
    OBVIOUS
  <2>1. n + 1 \in Nat /\ n + 1 # 0 /\ (n + 1) - 1 = n
    OBVIOUS
  <2> QED  BY <1>6, <2>1
<1>9. \A n \in Nat : Round(S)[n] \in SUBSET Category
  <2> SUFFICES ASSUME NEW n \in Nat PROVE Round(S)[n] \in SUBSET Category
    OBVIOUS
  <2>1. CASE n = 0
    BY <1>2, <1>7, <2>1
  <2>2. CASE n # 0
    <3>1. Round(S)[n] = Children(Round(S)[n - 1])
      BY <1>6, <2>2
    <3> QED  BY <3>1 DEF Children
  <2> QED  BY <2>1, <2>2
<1>10. Round(S) \in [Nat -> SUBSET Category]
  BY <1>5, <1>9
<1> QED  BY <1>7, <1>8, <1>10

-----------------------------------------------------------------------------
(* The storefront's list.                                                  *)

\* Children of fewer are fewer; each has its parent among them.
LEMMA ChildrenOf ==
    ASSUME NEW A \in SUBSET Category, NEW B \in SUBSET Category, A \subseteq B
    PROVE  Children(A) \subseteq Children(B) /\ Children(A) \in SUBSET Category
  BY DEF Children

\* The rounds from S, all of them.
Reached(S) == {c \in Category : \E n \in Nat : c \in Round(S)[n]}

\* The categories at or under S are those some round comes by.
LEMMA BelowIs ==
    ASSUME NEW S \in SUBSET Category
    PROVE  Below(S) = Reached(S)
<1>0. /\ Round(S) \in [Nat -> SUBSET Category] /\ Round(S)[0] = {c \in S : Exists(c)}
      /\ \A n \in Nat : Round(S)[n + 1] = Children(Round(S)[n])
  BY RoundIs
<1>1. ASSUME NEW c \in Below(S)
      PROVE  c \in Reached(S)
  <2>1. Reached(S) \in SUBSET Category
    BY DEF Reached
  <2>2. \A s \in S : Exists(s) => s \in Reached(S)
    BY <1>0 DEF Reached
  <2>3. Children(Reached(S)) \subseteq Reached(S)
    <3> SUFFICES ASSUME NEW d \in Children(Reached(S)) PROVE d \in Reached(S)
      OBVIOUS
    <3>1. d \in Category /\ Exists(d) /\ row[d].refs["parent"] \in Reached(S)
      BY DEF Children
    <3>2. PICK n \in Nat : row[d].refs["parent"] \in Round(S)[n]
      BY <3>1 DEF Reached
    <3>3. d \in Round(S)[n + 1]
      BY <1>0, <3>1, <3>2 DEF Children
    <3>4. n + 1 \in Nat
      OBVIOUS
    <3> QED  BY <3>1, <3>3, <3>4 DEF Reached
  <2> QED  BY <2>1, <2>2, <2>3 DEF Below
<1>2. ASSUME NEW T \in SUBSET Category, \A s \in S : Exists(s) => s \in T, Children(T) \subseteq T
      PROVE  \A n \in Nat : Round(S)[n] \subseteq T
  <2> DEFINE Good == {n \in Nat : Round(S)[n] \subseteq T}
  <2>1. 0 \in Good
    BY <1>0, <1>2
  <2>2. ASSUME NEW n \in Nat, n \in Good
        PROVE  n + 1 \in Good
    <3>1. Children(Round(S)[n]) \subseteq Children(T)
      BY <1>0, <2>2, ChildrenOf
    <3> QED  BY <1>0, <1>2, <3>1
  <2>3. Nat \subseteq Good
    <3> HIDE DEF Good
    <3> QED  BY <2>1, <2>2, SetInduction
  <2> QED  BY <2>3
<1>3. ASSUME NEW c \in Reached(S)
      PROVE  c \in Below(S)
  BY <1>2 DEF Reached, Below
<1>4. Below(S) \in SUBSET Category /\ Reached(S) \in SUBSET Category
  BY DEF Below, Reached
<1> QED  BY <1>1, <1>3, <1>4

\* A round without a category is followed by none with one.
LEMMA Stopped ==
    ASSUME NEW S \in SUBSET Category, NEW n \in Nat, Round(S)[n] = {}
    PROVE  \A m \in Nat : n <= m => Round(S)[m] = {}
<1> DEFINE Good == {m \in Nat : n <= m => Round(S)[m] = {}}
<1>1. 0 \in Good
  OBVIOUS
<1>2. ASSUME NEW m \in Nat, m \in Good
      PROVE  m + 1 \in Good
  <2> SUFFICES ASSUME n <= m + 1, n # m + 1 PROVE Round(S)[m + 1] = {}
    OBVIOUS
  <2>1. Round(S)[m] = {}
    BY <1>2
  <2>2. Round(S)[m + 1] = Children({})
    BY <2>1, RoundIs
  <2> QED  BY <2>2 DEF Children
<1>3. Nat \subseteq Good
  <2> HIDE DEF Good
  <2> QED  BY <1>1, <1>2, SetInduction
<1> QED  BY <1>3

\* Who is under a category that a round comes by is come by in a later one.
LEMMA Later ==
    ASSUME NEW S \in SUBSET Category, NEW n \in Nat, NEW c \in Round(S)[n]
    PROVE  \A m \in Nat : Round(Children({c}))[m] \subseteq Round(S)[n + 1 + m]
<1> DEFINE D == Children({c})
           Good == {m \in Nat : Round(D)[m] \subseteq Round(S)[n + 1 + m]}
<1>0. D \in SUBSET Category /\ c \in Category
  BY RoundIs DEF Children
<1>1. 0 \in Good
  <2>1. D \subseteq Children(Round(S)[n])
    BY DEF Children
  <2>2. Round(D)[0] \subseteq D
    BY <1>0, RoundIs
  <2>3. Round(S)[n + 1 + 0] = Children(Round(S)[n])
    BY RoundIs
  <2> HIDE DEF D
  <2> QED  BY <2>1, <2>2, <2>3
<1>2. ASSUME NEW m \in Nat, m \in Good
      PROVE  m + 1 \in Good
  <2> HIDE DEF D
  <2>1. Round(D)[m + 1] = Children(Round(D)[m]) /\ Round(D)[m] \in SUBSET Category
    BY <1>0, RoundIs
  <2>2. PICK k \in Nat : k = n + 1 + m
    OBVIOUS
  <2>3. Round(S)[k + 1] = Children(Round(S)[k]) /\ Round(S)[k] \in SUBSET Category
    BY RoundIs
  <2>4. Round(D)[m + 1] \subseteq Round(S)[k + 1]
    BY <1>2, <2>1, <2>2, <2>3, ChildrenOf
  <2>5. n + 1 + (m + 1) = k + 1
    BY <2>2
  <2> QED  BY <2>4, <2>5
<1>3. Nat \subseteq Good
  <2> HIDE DEF Good
  <2> QED  BY <1>1, <1>2, SetInduction
<1> QED  BY <1>3

\* A category under itself is come by again and again.
LEMMA GoesRound ==
    ASSUME NEW S \in SUBSET Category, NEW c \in Below(S), c \in OnCycles
    PROVE  \A m \in Nat : \E n \in Nat : m <= n /\ c \in Round(S)[n]
<1> DEFINE D == Children({c})
           Good == {m \in Nat : \E n \in Nat : m <= n /\ c \in Round(S)[n]}
<1>0. D \in SUBSET Category /\ c \in Category
  BY DEF Children, OnCycles
<1>1. 0 \in Good
  <2>1. PICK n \in Nat : c \in Round(S)[n]
    BY BelowIs DEF Reached
  <2> QED  BY <2>1
<1>2. ASSUME NEW m \in Nat, m \in Good
      PROVE  m + 1 \in Good
  <2>1. PICK n \in Nat : m <= n /\ c \in Round(S)[n]
    BY <1>2
  <2>2. c \in Below(D)
    BY DEF OnCycles
  <2> HIDE DEF D
  <2>3. PICK k \in Nat : c \in Round(D)[k]
    BY <1>0, <2>2, BelowIs DEF Reached
  <2>4. Round(D)[k] \subseteq Round(S)[n + 1 + k]
    BY <2>1, Later DEF D
  <2>5. n + 1 + k \in Nat /\ m + 1 <= n + 1 + k
    BY <2>1
  <2> QED  BY <2>3, <2>4, <2>5
<1>3. Nat \subseteq Good
  <2> HIDE DEF Good
  <2> QED  BY <1>1, <1>2, SetInduction
<1> QED  BY <1>3

\* A line of descent: each next one is a child of the last.
Descends(line, S, n) ==
    /\ \A i \in 0..n : line[i] \in Round(S)[i]
    /\ \A i \in 0..n : i # n => line[i + 1] \in Children({line[i]})

\* Whom a round comes by is at the end of one.
LEMMA Descent ==
    ASSUME NEW S \in SUBSET Category, NEW n \in Nat, NEW x \in Round(S)[n]
    PROVE  \E line \in [0..n -> Category] : Descends(line, S, n)
<1> DEFINE Good == {k \in Nat : \A y \in Round(S)[k] :
                      \E line \in [0..k -> Category] : line[k] = y /\ Descends(line, S, k)}
<1>0. \A k \in Nat : Round(S)[k] \in SUBSET Category
  BY RoundIs
<1>1. 0 \in Good
  <2> SUFFICES ASSUME NEW y \in Round(S)[0]
               PROVE  \E line \in [0..0 -> Category] : line[0] = y /\ Descends(line, S, 0)
    OBVIOUS
  <2> DEFINE line == [i \in 0..0 |-> y]
  <2>1. line \in [0..0 -> Category] /\ line[0] = y /\ \A i \in 0..0 : i = 0
    BY <1>0
  <2> HIDE DEF line
  <2>2. Descends(line, S, 0)
    BY <2>1 DEF Descends
  <2> QED  BY <2>1, <2>2
<1>2. ASSUME NEW k \in Nat, k \in Good
      PROVE  k + 1 \in Good
  <2> SUFFICES ASSUME NEW y \in Round(S)[k + 1]
               PROVE  \E line \in [0..(k + 1) -> Category] : line[k + 1] = y /\ Descends(line, S, k + 1)
    OBVIOUS
  <2>1. y \in Children(Round(S)[k])
    BY RoundIs
  <2>2. y \in Category /\ Exists(y) /\ row[y].refs["parent"] \in Round(S)[k]
    BY <2>1 DEF Children
  <2>3. PICK line \in [0..k -> Category] : line[k] = row[y].refs["parent"] /\ Descends(line, S, k)
    BY <1>2, <2>2
  <2>4. y \in Children({line[k]})
    BY <2>2, <2>3 DEF Children
  <2> DEFINE longer == [i \in 0..(k + 1) |-> IF i = k + 1 THEN y ELSE line[i]]
  <2>5. longer \in [0..(k + 1) -> Category] /\ longer[k + 1] = y
    BY <2>2
  <2>6. \A i \in 0..k : longer[i] = line[i]
    OBVIOUS
  <2> HIDE DEF longer
  <2>7. \A i \in 0..(k + 1) : longer[i] \in Round(S)[i]
    BY <2>3, <2>5, <2>6 DEF Descends
  <2>8. \A i \in 0..(k + 1) : i # k + 1 => longer[i + 1] \in Children({longer[i]})
    <3>0. \A i \in 0..(k + 1) : i # k + 1 => i \in 0..k
      OBVIOUS
    <3> SUFFICES ASSUME NEW i \in 0..k PROVE longer[i + 1] \in Children({longer[i]})
      BY <3>0
    <3>1. CASE i = k
      BY <2>3, <2>4, <2>5, <2>6, <3>1
    <3>2. CASE i # k
      <4>1. i + 1 \in 0..k /\ line[i + 1] \in Children({line[i]})
        BY <2>3, <3>2 DEF Descends
      <4> QED  BY <2>6, <4>1
    <3> QED  BY <3>1, <3>2
  <2>9. Descends(longer, S, k + 1)
    BY <2>7, <2>8 DEF Descends
  <2> QED  BY <2>5, <2>9
<1>3. Nat \subseteq Good
  <2> HIDE DEF Good
  <2> QED  BY <1>1, <1>2, SetInduction
<1> QED  BY <1>3

\* Whoever comes later in it is under whoever comes before.
LEMMA Under ==
    ASSUME NEW S \in SUBSET Category, NEW n \in Nat, NEW line \in [0..n -> Category], Descends(line, S, n),
           NEW i \in 0..n
    PROVE  \A m \in Nat : i + 1 + m <= n => line[i + 1 + m] \in Round(Children({line[i]}))[m]
<1> DEFINE D == Children({line[i]})
           Good == {m \in Nat : i + 1 + m <= n => line[i + 1 + m] \in Round(D)[m]}
<1>0. D \in SUBSET Category /\ \A c \in D : Exists(c)
  BY DEF Children
<1>1. 0 \in Good
  <2> SUFFICES ASSUME i + 1 <= n PROVE line[i + 1] \in Round(D)[0]
    OBVIOUS
  <2>1. line[i + 1] \in D
    BY DEF Descends
  <2> HIDE DEF D
  <2> QED  BY <1>0, <2>1, RoundIs
<1>2. ASSUME NEW m \in Nat, m \in Good
      PROVE  m + 1 \in Good
  <2> SUFFICES ASSUME i + 1 + (m + 1) <= n PROVE line[i + 1 + (m + 1)] \in Round(D)[m + 1]
    OBVIOUS
  <2>1. PICK k \in 0..n : k = i + 1 + m /\ k # n /\ k + 1 = i + 1 + (m + 1)
    OBVIOUS
  <2>2. line[k] \in Round(D)[m]
    BY <1>2, <2>1
  <2>3. line[k + 1] \in Children({line[k]})
    BY <2>1 DEF Descends
  <2> HIDE DEF D
  <2>4. Round(D)[m + 1] = Children(Round(D)[m])
    BY <1>0, RoundIs
  <2>5. line[k + 1] \in Children(Round(D)[m])
    BY <2>2, <2>3 DEF Children
  <2> QED  BY <2>1, <2>4, <2>5
<1>3. Nat \subseteq Good
  <2> HIDE DEF Good
  <2> QED  BY <1>1, <1>2, SetInduction
<1> QED  BY <1>3

\* More rounds than categories: one comes twice, and is under itself.
LEMMA Repeats ==
    ASSUME NEW S \in SUBSET Category, ~Ends(S)
    PROVE  Below(S) \cap OnCycles # {}
<1> DEFINE n == Cardinality(Category)
<1>0. n \in Nat /\ IsFiniteSet(Category)
  BY RowsAssumption, FS_CardinalityType
<1>1. PICK x : x \in Round(S)[n]
  BY DEF Ends
<1> HIDE DEF n
<1>2. PICK line \in [0..n -> Category] : Descends(line, S, n)
  BY <1>0, <1>1, Descent
<1>3. IsFiniteSet(0..n) /\ Cardinality(Category) < Cardinality(0..n)
  <2>1. IsFiniteSet(0..n) /\ Cardinality(0..n) = n - 0 + 1
    BY <1>0, FS_Interval
  <2> QED  BY <1>0, <2>1 DEF n
<1>4. \E i, j \in 0..n : i # j /\ line[i] = line[j]
  BY <1>0, <1>3, FS_PigeonHole
<1>5. PICK i \in 0..n, j \in 0..n : i < j /\ line[i] = line[j]
  BY <1>0, <1>4
<1>6. line[i] \in Reached(S) /\ line[i] \in Category
  BY <1>0, <1>2 DEF Descends, Reached
<1>7. PICK m \in Nat : j = i + 1 + m
  <2>1. j - i - 1 \in Nat /\ j = i + 1 + (j - i - 1)
    BY <1>0, <1>5
  <2> QED  BY <2>1
<1>8. line[i] \in Round(Children({line[i]}))[m]
  <2>1. i + 1 + m <= n
    BY <1>0, <1>7
  <2>2. line[i + 1 + m] \in Round(Children({line[i]}))[m]
    BY <1>0, <1>2, <2>1, Under
  <2> QED  BY <1>5, <1>7, <2>2
<1>9. line[i] \in OnCycles
  <2>1. Children({line[i]}) \in SUBSET Category
    BY DEF Children
  <2>2. line[i] \in Below(Children({line[i]}))
    BY <1>6, <1>8, <2>1, BelowIs DEF Reached
  <2> QED  BY <1>6, <2>2 DEF OnCycles
<1> QED  BY <1>6, <1>9, BelowIs

\* The query ends exactly when nothing it comes by is under itself.
LEMMA EndsWithoutCycles ==
    ASSUME NEW S \in SUBSET Category
    PROVE  Ends(S) <=> Below(S) \cap OnCycles = {}
<1>1. ASSUME Ends(S), NEW c \in Below(S), c \in OnCycles
      PROVE  FALSE
  <2>1. Cardinality(Category) \in Nat
    BY RowsAssumption, FS_CardinalityType
  <2>2. PICK m \in Nat : Cardinality(Category) <= m /\ c \in Round(S)[m]
    BY <1>1, <2>1, GoesRound
  <2>3. Round(S)[m] = {}
    BY <1>1, <2>1, <2>2, Stopped DEF Ends
  <2> QED  BY <2>2, <2>3
<1> QED  BY <1>1, Repeats

\* And has then come by every category at or under S.
LEMMA EndsWithAll ==
    ASSUME NEW S \in SUBSET Category, Ends(S)
    PROVE  SubcategoryIds(S) = Below(S)
<1> DEFINE n == Cardinality(Category)
<1>0. n \in Nat
  BY RowsAssumption, FS_CardinalityType
<1>1. SubcategoryIds(S) = UNION {Round(S)[i] : i \in 0..n}
  BY DEF SubcategoryIds
<1>2. Round(S)[n] = {}
  BY DEF Ends
<1> HIDE DEF n
<1>3. \A i \in Nat : i \notin 0..n => Round(S)[i] = {}
  BY <1>0, <1>2, Stopped
<1>4. \A i \in Nat : Round(S)[i] \in SUBSET Category
  BY RoundIs
<1>5. UNION {Round(S)[i] : i \in 0..n} = Reached(S)
  BY <1>0, <1>3, <1>4 DEF Reached
<1> QED  BY <1>1, <1>5, BelowIs

\* The storefront's list is the subtree, in every state.
LEMMA ListingAlways == ListingIsSubtree
<1> SUFFICES ASSUME NEW S \in SUBSET Category
             PROVE  /\ Ends(S) <=> Below(S) \cap OnCycles = {}
                    /\ Ends(S) => \A sort \in Sort \ {"POPULAR"} :
                          FindList(S, sort) =
                             {p \in Product : /\ row[p].state = "active"
                                              /\ Below(S) # {} => row[p].refs["category"] \in Below(S)
                                              /\ sort = "ON_SALE" => row[p].refs["promotion"] # None}
  BY DEF ListingIsSubtree
<1>1. Ends(S) <=> Below(S) \cap OnCycles = {}
  BY EndsWithoutCycles
<1>2. ASSUME Ends(S), NEW sort \in Sort \ {"POPULAR"}
      PROVE  FindList(S, sort) =
                {p \in Product : /\ row[p].state = "active"
                                 /\ Below(S) # {} => row[p].refs["category"] \in Below(S)
                                 /\ sort = "ON_SALE" => row[p].refs["promotion"] # None}
  BY <1>2, EndsWithAll DEF FindList, Sort
<1> QED  BY <1>1, <1>2

-----------------------------------------------------------------------------
(* The tables and the pages.                                               *)

\* The invariant, of one page.
PageOK(pg) ==
    /\ pg \in Page
    /\ \A f \in Field : pg.list[f] \subseteq Target(f)
    /\ pg.open /\ ~pg.creates =>
          pg.of \in (CASE pg.form = "product" -> Product
                       [] pg.form = "category" -> Category
                       [] pg.form = "order" -> Order)
    /\ pg.open /\ pg.form = "order" =>
          /\ ~pg.creates
          /\ \/ pg.todo = <<"row">>
             \/ pg.todo = << >> /\ pg.payment # "none"
    /\ pg.creates => pg.todo \in Seq(Field)

\* The types of the tables.
Rows == [Id -> [state : State, refs : Refs]]

\* And of the orders.
Orders == [Order -> [state : {"live", "deleted"}, status : Status, payment : {"PAID", "UNPAID"}]]

\* What the invariant says of a page, and of the tables.
LEMMA ThisPage ==
    ASSUME IInv, NEW t \in Tab
    PROVE  PageOK(page[t])
  BY DEF IInv, TypeOK, OrderForms, NewForms, PageOK

\* A step of one tab.
LEMMA PageStep ==
    ASSUME IInv, NEW t \in Tab, NEW new, PageOK(new), page' = [page EXCEPT ![t] = new],
           UNCHANGED <<row, order>>, opened' \in 0..MaxPages, changes' \in 0..MaxChanges
    PROVE  IInv'
<1>1. \A u \in Tab : PageOK(page'[u])
  BY ThisPage DEF IInv, TypeOK
<1>2. page' \in [Tab -> Page]
  BY <1>1 DEF PageOK, IInv, TypeOK
<1>3. TypeOK'
  BY <1>1, <1>2 DEF IInv, TypeOK, PageOK
<1>4. ReferencesResolve'
  BY DEF IInv, ReferencesResolve, Resolves, Exists
<1>5. OrderForms'
  BY <1>1 DEF OrderForms, PageOK
<1>6. NewForms'
  BY <1>1 DEF NewForms, PageOK
<1> QED  BY <1>3, <1>4, <1>5, <1>6 DEF IInv

\* A step of the tables.
LEMMA TableStep ==
    ASSUME IInv, UNCHANGED page, row' \in Rows, order' \in Orders, ReferencesResolve',
           opened' \in 0..MaxPages, changes' \in 0..MaxChanges
    PROVE  IInv'
  BY DEF IInv, TypeOK, OrderForms, NewForms, Rows, Orders

\* A closed page.
LEMMA NoPageOK == PageOK(NoPage)
<1>1. NoPage \in Page
  <2>1. << >> \in Seq(Field \cup {"row"})
    OBVIOUS
  <2>2. NotShown \in [Field -> Id \cup {None, "none"}] /\ [f \in Field |-> {}] \in [Field -> SUBSET Id]
    BY DEF NotShown
  <2> QED  BY <2>1, <2>2 DEF NoPage, Page, Form
<1> QED  BY <1>1 DEF PageOK, NoPage

\* The pages that open.
LEMMA NewPagesOK ==
    /\ \A p \in Product : PageOK(ProductPage(p))
    /\ \A c \in Category : PageOK(CategoryPage(c))
    /\ \A o \in Order : PageOK(OrderPage(o))
    /\ PageOK(NewProductPage) /\ PageOK(NewCategoryPage)
<1>1. /\ <<"row", "author", "category", "promotion">> \in Seq(Field \cup {"row"})
      /\ <<"author", "category", "promotion">> \in Seq(Field \cup {"row"})
      /\ <<"row", "parent">> \in Seq(Field \cup {"row"}) /\ <<"parent">> \in Seq(Field \cup {"row"})
      /\ <<"row">> \in Seq(Field \cup {"row"})
      /\ <<"author", "category", "promotion">> \in Seq(Field) /\ <<"parent">> \in Seq(Field)
  BY DEF Field
<1>2. NotShown \in [Field -> Id \cup {None, "none"}] /\ [f \in Field |-> {}] \in [Field -> SUBSET Id]
  BY DEF NotShown
<1>3. NoRefs \in [Field -> Id \cup {None, "none"}]
  BY DEF NoRefs
<1>4. ASSUME NEW p \in Product
      PROVE  PageOK(ProductPage(p))
  BY <1>1, <1>2 DEF PageOK, ProductPage, NoPage, Page, Form, Id
<1>5. ASSUME NEW c \in Category
      PROVE  PageOK(CategoryPage(c))
  BY <1>1, <1>2 DEF PageOK, CategoryPage, NoPage, Page, Form, Id
<1>6. ASSUME NEW o \in Order
      PROVE  PageOK(OrderPage(o))
  BY <1>1, <1>2 DEF PageOK, OrderPage, NoPage, Page, Form, Id
<1>7. PageOK(NewProductPage)
  BY <1>1, <1>2, <1>3 DEF PageOK, NewProductPage, NoPage, Page, Form
<1>8. PageOK(NewCategoryPage)
  BY <1>1, <1>2, <1>3 DEF PageOK, NewCategoryPage, NoPage, Page, Form
<1> QED  BY <1>4, <1>5, <1>6, <1>7, <1>8

\* Opening a page.
LEMMA OpenStep ==
    ASSUME IInv, NEW t \in Tab, OpenSome(t)
    PROVE  IInv'
<1>1. PICK new : PageOK(new) /\ Open(t, new)
  BY NewPagesOK DEF OpenSome, ListedProducts, ListedCategories, ListedOrders
<1>2. opened' \in 0..MaxPages
  BY <1>1, PageBounds DEF Open, IInv, TypeOK
<1> QED  BY <1>1, <1>2, PageStep DEF Open, IInv, TypeOK

\* What there is left to ask for, once one answer is there.
LEMMA TailOK ==
    ASSUME NEW S, NEW todo \in Seq(S), todo # << >>
    PROVE  Tail(todo) \in Seq(S) /\ Head(todo) \in S
<1>1. Len(todo) # 0 /\ Len(todo) \in Nat /\ \A i \in 1..Len(todo) : todo[i] \in S
  OBVIOUS
<1>2. Head(todo) \in S
  BY <1>1
<1>3. Tail(todo) \in Seq(S)
  OBVIOUS
<1> QED  BY <1>2, <1>3

\* A page that has its next answer.
LEMMA AnswerStep ==
    ASSUME IInv, NEW t \in Tab, page[t].open, page[t].todo # << >>, page[t].form # "order",
           NEW shown \in [Field -> Id \cup {None, "none"}],
           NEW list \in [Field -> SUBSET Id], \A f \in Field : list[f] \subseteq Target(f),
           page' = [page EXCEPT ![t] = [page[t] EXCEPT !.todo = Tail(page[t].todo), !.shown = shown, !.list = list]],
           UNCHANGED <<row, order>>, opened' \in 0..MaxPages, changes' \in 0..MaxChanges
    PROVE  IInv'
<1> DEFINE new == [page[t] EXCEPT !.todo = Tail(page[t].todo), !.shown = shown, !.list = list]
<1>1. PageOK(page[t])
  BY ThisPage
<1>2. Tail(page[t].todo) \in Seq(Field \cup {"row"})
  BY <1>1, TailOK DEF PageOK, Page
<1>3. page[t].creates => Tail(page[t].todo) \in Seq(Field)
  BY <1>1, TailOK DEF PageOK, Page
<1>4. /\ new \in Page /\ new.list = list /\ new.open = page[t].open /\ new.creates = page[t].creates
      /\ new.form = page[t].form /\ new.of = page[t].of /\ new.todo = Tail(page[t].todo)
  BY <1>1, <1>2 DEF PageOK, Page
<1>5. PageOK(new)
  BY <1>1, <1>3, <1>4 DEF PageOK
<1> HIDE DEF new
<1> QED  BY <1>5, PageStep DEF new

\* A page that closes, or stops before it can be submitted.
LEMMA CloseStep ==
    ASSUME IInv, NEW t \in Tab, page' = [page EXCEPT ![t] = NoPage],
           UNCHANGED <<row, order>>, opened' \in 0..MaxPages, changes' \in 0..MaxChanges
    PROVE  IInv'
  BY NoPageOK, PageStep

\* The row of a product's or a category's page.
LEMMA FetchRowStep ==
    ASSUME IInv, NEW t \in Tab, FetchRow(t)
    PROVE  IInv'
<1>1. PageOK(page[t]) /\ page[t].open /\ page[t].form # "order" /\ page[t].todo # << >> /\ Head(page[t].todo) = "row"
  BY ThisPage DEF FetchRow, Waits
<1>2. ~page[t].creates
  <2>1. page[t].creates => Head(page[t].todo) \in Field
    BY <1>1, TailOK DEF PageOK
  <2> QED  BY <1>1, <2>1 DEF Field
<1>3. page[t].of \in Product \cup Category /\ page[t].of \in Id
  BY <1>1, <1>2 DEF PageOK, Page, Form, Id
<1>4. PICK refs \in [Field -> Id \cup {None, "none"}] :
         page' = [page EXCEPT ![t].todo = Tail(@), ![t].shown = refs]
  <2>1. \A y \in Id : row[y].refs \in [Field -> Id \cup {None, "none"}]
    BY DEF IInv, TypeOK, Refs
  <2>2. NotShown \in [Field -> Id \cup {None, "none"}]
    BY DEF NotShown
  <2> QED  BY <1>3, <2>1, <2>2 DEF FetchRow, FoundProduct, FoundCategory
<1>5. page' = [page EXCEPT ![t] = [page[t] EXCEPT !.todo = Tail(page[t].todo), !.shown = refs,
                                                    !.list = page[t].list]]
  BY <1>1, <1>4 DEF PageOK, Page, IInv, TypeOK
<1>6. page[t].list \in [Field -> SUBSET Id] /\ \A f \in Field : page[t].list[f] \subseteq Target(f)
  BY <1>1 DEF PageOK, Page
<1>7. UNCHANGED <<row, order>> /\ opened' \in 0..MaxPages /\ changes' \in 0..MaxChanges
  BY DEF FetchRow, IInv, TypeOK
<1> QED  BY <1>1, <1>4, <1>5, <1>6, <1>7, AnswerStep

\* The order of an order's.
LEMMA FetchOrderStep ==
    ASSUME IInv, NEW t \in Tab, FetchOrder(t)
    PROVE  IInv'
<1>1. PageOK(page[t]) /\ page[t].open /\ page[t].form = "order" /\ page[t].todo # << >>
  BY ThisPage DEF FetchOrder, Waits
<1>2. page[t].of \in Order
  BY <1>1 DEF PageOK, Page
<1>3. PICK payment \in {"PAID", "UNPAID"} : payment = order[page[t].of].payment
  BY <1>2 DEF IInv, TypeOK
<1> DEFINE new == [page[t] EXCEPT !.todo = << >>, !.payment = payment]
<1>4. page' = [page EXCEPT ![t] = new] \/ page' = [page EXCEPT ![t] = NoPage]
  BY <1>3 DEF FetchOrder
<1>5. /\ new \in Page /\ new.list = page[t].list /\ new.open = page[t].open /\ new.creates = page[t].creates
      /\ new.form = page[t].form /\ new.of = page[t].of /\ new.todo = << >> /\ new.payment = payment
  <2>1. << >> \in Seq(Field \cup {"row"})
    OBVIOUS
  <2> QED  BY <1>1, <2>1 DEF PageOK, Page
<1>6. PageOK(new)
  <2>1. << >> \in Seq(Field)
    OBVIOUS
  <2> QED  BY <1>1, <1>5, <2>1 DEF PageOK
<1> HIDE DEF new
<1>7. UNCHANGED <<row, order>> /\ opened' \in 0..MaxPages /\ changes' \in 0..MaxChanges
  BY DEF FetchOrder, IInv, TypeOK
<1> QED  BY <1>4, <1>6, <1>7, PageStep, CloseStep

\* The list of a field.
LEMMA FetchListStep ==
    ASSUME IInv, NEW t \in Tab, NEW f \in Field, FetchList(t, f)
    PROVE  IInv'
<1>1. PageOK(page[t]) /\ page[t].open /\ page[t].todo # << >> /\ Head(page[t].todo) = f
  BY ThisPage DEF FetchList, Waits
<1>2. page[t].form # "order"
  <2>1. page[t].todo = <<"row">> => Head(page[t].todo) = "row"
    OBVIOUS
  <2> QED  BY <1>1, <2>1 DEF PageOK, Field
<1>3. FindAll(f) \subseteq Target(f) /\ FindAll(f) \subseteq Id
  BY DEF FindAll, FindAllAuthors, FindAllCategories, FindAllPromotions, Target, Id, Field
<1>4. UNCHANGED <<row, order>> /\ opened' \in 0..MaxPages /\ changes' \in 0..MaxChanges
  BY DEF FetchList, IInv, TypeOK
<1>5. CASE page' = [page EXCEPT ![t] = NoPage]
  BY <1>4, <1>5, CloseStep
<1>6. CASE page' = [page EXCEPT ![t].todo = Tail(@), ![t].list[f] = FindAll(f)]
  <2>1. page[t].list \in [Field -> SUBSET Id] /\ page[t].shown \in [Field -> Id \cup {None, "none"}]
    BY <1>1 DEF PageOK, Page
  <2>2. PICK list \in [Field -> SUBSET Id] : list = [page[t].list EXCEPT ![f] = FindAll(f)]
    BY <1>3, <2>1
  <2>3. \A g \in Field : list[g] \subseteq Target(g)
    BY <1>1, <1>3, <2>1, <2>2 DEF PageOK
  <2>4. page' = [page EXCEPT ![t] = [page[t] EXCEPT !.todo = Tail(page[t].todo), !.shown = page[t].shown,
                                                      !.list = list]]
    BY <1>1, <1>6, <2>2 DEF PageOK, Page, IInv, TypeOK
  <2>5. PICK shown \in [Field -> Id \cup {None, "none"}] : shown = page[t].shown
    BY <2>1
  <2> QED  BY <1>1, <1>2, <1>4, <2>3, <2>4, <2>5, AnswerStep
<1> QED  BY <1>5, <1>6 DEF FetchList

\* A request that fails.
LEMMA FetchFailsStep ==
    ASSUME IInv, NEW t \in Tab, FetchFails(t)
    PROVE  IInv'
<1>1. PageOK(page[t]) /\ page[t].open /\ page[t].todo # << >>
  BY ThisPage DEF FetchFails
<1>2. UNCHANGED <<row, order>> /\ opened' \in 0..MaxPages /\ changes' \in 0..MaxChanges
  BY PageBounds DEF FetchFails, IInv, TypeOK
<1>3. CASE page' = [page EXCEPT ![t] = NoPage]
  BY <1>2, <1>3, CloseStep
<1>4. CASE page' = [page EXCEPT ![t].todo = Tail(@)] /\ page[t].form # "order"
  <2>1. page' = [page EXCEPT ![t] = [page[t] EXCEPT !.todo = Tail(page[t].todo), !.shown = page[t].shown,
                                                      !.list = page[t].list]]
    BY <1>1, <1>4 DEF PageOK, Page, IInv, TypeOK
  <2>2. /\ page[t].shown \in [Field -> Id \cup {None, "none"}] /\ page[t].list \in [Field -> SUBSET Id]
        /\ \A f \in Field : page[t].list[f] \subseteq Target(f)
    BY <1>1 DEF PageOK, Page
  <2> QED  BY <1>1, <1>2, <1>4, <2>1, <2>2, AnswerStep
<1> QED  BY <1>1, <1>3, <1>4 DEF FetchFails, PageOK

-----------------------------------------------------------------------------
(* The tables.                                                             *)

\* The tables, when every reference has its row: nothing but ReferencesResolve',
\* said of each reference by itself.
LEMMA Resolving ==
    ASSUME \A y \in Id, f \in Field : row'[y].refs[f] # None =>
              /\ f \in Fields(y) /\ row'[y].refs[f] \in Target(f)
              /\ row'[row'[y].refs[f]].state \in {"active", "inactive"}
    PROVE  ReferencesResolve'
  BY DEF ReferencesResolve, Resolves, Exists

\* And what the invariant says of each.
LEMMA Resolved ==
    ASSUME IInv, NEW y \in Id, NEW f \in Field, row[y].refs[f] # None
    PROVE  /\ f \in Fields(y) /\ row[y].refs[f] \in Target(f) /\ row[y].refs[f] \in Id
           /\ row[row[y].refs[f]].state \in {"active", "inactive"}
<1>1. /\ f \in Fields(y) /\ row[y].refs[f] \in Target(f)
      /\ row[row[y].refs[f]].state \in {"active", "inactive"}
  BY DEF IInv, ReferencesResolve, Resolves, Exists
<1>2. Target(f) \subseteq Id
  BY DEF Target, Id, Field
<1> QED  BY <1>1, <1>2

\* What a form sends are references to rows of the four tables, or none.
LEMMA BodiesOK ==
    ASSUME IInv, NEW t \in Tab, NEW refs \in Bodies(t)
    PROVE  refs \in Refs
<1>1. page[t].list \in [Field -> SUBSET Id]
  BY ThisPage DEF PageOK, Page
<1>2. Preselected(t) \in Refs
  BY <1>1 DEF Preselected, Refs
<1>3. CASE refs = Preselected(t)
  BY <1>2, <1>3
<1>4. CASE \E f \in Field : \E v \in page[t].list[f] \cup {None} : refs = [Preselected(t) EXCEPT ![f] = v]
  BY <1>1, <1>2, <1>4 DEF Refs
<1> QED  BY <1>3, <1>4 DEF Bodies

\* The row an edit form is for.
LEMMA EditedRow ==
    ASSUME IInv, NEW t \in Tab, page[t].open, ~page[t].creates, page[t].form # "order"
    PROVE  page[t].of \in Product \cup Category /\ page[t].of \in Id
  BY ThisPage DEF PageOK, Page, Form, Id

\* An edit form that was sent.
LEMMA UpdateStep ==
    ASSUME IInv, NEW x \in Id, NEW refs \in Refs, UpdateRow(x, refs), UNCHANGED <<order, page, opened, changes>>
    PROVE  IInv'
<1>1. CASE Exists(x) /\ Resolves(refs, x) /\ row' = [row EXCEPT ![x].refs = refs]
  <2>1. row' \in Rows
    BY <1>1 DEF IInv, TypeOK, Rows
  <2>2. \A y \in Id : /\ row'[y].state = row[y].state
                      /\ row'[y].refs = IF y = x THEN refs ELSE row[y].refs
    BY <1>1 DEF IInv, TypeOK
  <2>3. \A f \in Field : refs[f] # None =>
           /\ f \in Fields(x) /\ refs[f] \in Target(f) /\ refs[f] \in Id
           /\ row[refs[f]].state \in {"active", "inactive"}
    BY <1>1 DEF Resolves, Exists, Refs
  <2>4. ReferencesResolve'
    BY <2>2, <2>3, Resolved, Resolving
  <2> QED  BY <2>1, <2>4, TableStep DEF IInv, TypeOK, Orders
<1>2. CASE row' = row
  <2>1. ReferencesResolve'
    BY <1>2 DEF IInv, ReferencesResolve, Resolves, Exists
  <2> QED  BY <1>2, <2>1, TableStep DEF IInv, TypeOK, Orders, Rows
<1> QED  BY <1>1, <1>2 DEF UpdateRow

\* A form for a new row.
LEMMA CreateStep ==
    ASSUME IInv, NEW x \in Id, NEW refs \in Refs, CreateRow(x, refs), UNCHANGED <<order, page, opened, changes>>
    PROVE  IInv'
<1>1. CASE Resolves(refs, x) /\ row' = [row EXCEPT ![x] = [state |-> "active", refs |-> refs]]
  <2>1. row' \in Rows
    BY <1>1 DEF IInv, TypeOK, Rows, State
  <2>2. /\ row'[x] = [state |-> "active", refs |-> refs]
        /\ \A y \in Id : y # x => row'[y] = row[y]
    BY <1>1 DEF IInv, TypeOK
  <2>3. \A f \in Field : refs[f] # None =>
           /\ f \in Fields(x) /\ refs[f] \in Target(f) /\ refs[f] \in Id
           /\ row[refs[f]].state \in {"active", "inactive"}
    BY <1>1 DEF Resolves, Exists, Refs
  <2>4. \A y \in Id : row[y].state \in {"active", "inactive"} => row'[y].state \in {"active", "inactive"}
    BY <2>2
  <2>5. ReferencesResolve'
    BY <2>2, <2>3, <2>4, Resolved, Resolving
  <2> QED  BY <2>1, <2>5, TableStep DEF IInv, TypeOK, Orders
<1>2. CASE row' = row
  <2>1. ReferencesResolve'
    BY <1>2 DEF IInv, ReferencesResolve, Resolves, Exists
  <2> QED  BY <1>2, <2>1, TableStep DEF IInv, TypeOK, Orders, Rows
<1> QED  BY <1>1, <1>2 DEF CreateRow

\* The steps outside of forms are counted.
LEMMA OutsideOK ==
    ASSUME IInv, Outside
    PROVE  UNCHANGED page /\ opened' \in 0..MaxPages /\ changes' \in 0..MaxChanges
  BY PageBounds DEF Outside, IInv, TypeOK

\* A row that leaves the lists.
LEMMA DeactivateStep ==
    ASSUME IInv, NEW x \in Id, Deactivate(x)
    PROVE  IInv'
<1>1. row' \in Rows
  BY DEF Deactivate, IInv, TypeOK, Rows, State
<1>2. \A y \in Id : row'[y].refs = row[y].refs
  BY DEF Deactivate, IInv, TypeOK
<1>3. \A y \in Id : row[y].state \in {"active", "inactive"} => row'[y].state \in {"active", "inactive"}
  BY DEF Deactivate, IInv, TypeOK
<1>4. ReferencesResolve'
  BY <1>2, <1>3, Resolved, Resolving
<1> QED  BY <1>1, <1>4, OutsideOK, TableStep DEF Deactivate, IInv, TypeOK, Orders

\* A row that is deleted: every reference to it goes with it.
LEMMA DeleteStep ==
    ASSUME IInv, NEW x \in Id, DeleteRow(x)
    PROVE  IInv'
<1>1. \A y \in Id : [f \in Field |-> IF row[y].refs[f] = x THEN None ELSE row[y].refs[f]] \in Refs
  BY DEF IInv, TypeOK, Refs
<1>2. Forgotten(x) \in Rows
  BY <1>1 DEF Forgotten, IInv, TypeOK, Rows
<1>3. \A y \in Id : /\ Forgotten(x)[y].state = row[y].state
                    /\ \A f \in Field : Forgotten(x)[y].refs[f]
                                           = IF row[y].refs[f] = x THEN None ELSE row[y].refs[f]
  BY DEF Forgotten, IInv, TypeOK
<1>4. NoRefs \in Refs /\ \A f \in Field : NoRefs[f] = None
  BY DEF NoRefs, Refs
<1>5. row' = [Forgotten(x) EXCEPT ![x] = [state |-> "deleted", refs |-> NoRefs]]
  BY DEF DeleteRow
<1>6. row' \in Rows
  BY <1>2, <1>4, <1>5 DEF Rows, State
<1>7. /\ row'[x].refs = NoRefs
      /\ \A y \in Id : y # x => row'[y] = Forgotten(x)[y]
  BY <1>2, <1>5 DEF Rows
<1>8. ASSUME NEW y \in Id, NEW f \in Field, row'[y].refs[f] # None
      PROVE  /\ f \in Fields(y) /\ row'[y].refs[f] \in Target(f)
             /\ row'[row'[y].refs[f]].state \in {"active", "inactive"}
  <2>1. y # x
    BY <1>4, <1>7, <1>8
  <2>2. row'[y].refs[f] = row[y].refs[f] /\ row[y].refs[f] # x /\ row[y].refs[f] # None
    BY <1>3, <1>7, <1>8, <2>1
  <2>3. row[y].refs[f] \in Id /\ row[row[y].refs[f]].state \in {"active", "inactive"}
    BY <2>2, Resolved
  <2>4. row'[row[y].refs[f]].state = row[row[y].refs[f]].state
    BY <1>3, <1>7, <2>2, <2>3
  <2> QED  BY <2>2, <2>3, <2>4, Resolved
<1>9. ReferencesResolve'
  BY <1>8, Resolving
<1> QED  BY <1>6, <1>9, OutsideOK, TableStep DEF DeleteRow, IInv, TypeOK, Orders

\* A new author or promotion.
LEMMA CreateTargetStep ==
    ASSUME IInv, NEW x \in Id, CreateTarget(x)
    PROVE  IInv'
<1>1. row' \in Rows
  BY DEF CreateTarget, IInv, TypeOK, Rows, State
<1>2. \A y \in Id : row'[y].refs = row[y].refs
  BY DEF CreateTarget, IInv, TypeOK
<1>3. \A y \in Id : row[y].state \in {"active", "inactive"} => row'[y].state \in {"active", "inactive"}
  BY DEF CreateTarget, IInv, TypeOK
<1>4. ReferencesResolve'
  BY <1>2, <1>3, Resolved, Resolving
<1> QED  BY <1>1, <1>4, OutsideOK, TableStep DEF CreateTarget, IInv, TypeOK, Orders

\* Orders alone.
LEMMA OrderStep ==
    ASSUME IInv, UNCHANGED <<row, page>>, order' \in Orders, opened' \in 0..MaxPages, changes' \in 0..MaxChanges
    PROVE  IInv'
<1>1. ReferencesResolve'
  BY DEF IInv, ReferencesResolve, Resolves, Exists
<1> QED  BY <1>1, TableStep DEF IInv, TypeOK, Rows

\* The columns of an order that an update sets, and the others.
LEMMA UpdateOrderOK ==
    ASSUME IInv, NEW o \in Order, NEW fields, UpdateOrder(o, fields),
           "state" \notin DOMAIN fields,
           "status" \in DOMAIN fields => fields["status"] \in Status,
           "payment" \in DOMAIN fields => fields["payment"] \in {"PAID", "UNPAID"}
    PROVE  /\ order' \in Orders
           /\ \A p \in Order \ {o} : order'[p] = order[p]
           /\ order'[o].payment = IF "payment" \in DOMAIN fields THEN fields["payment"] ELSE order[o].payment
<1> DEFINE new == [f \in DOMAIN order[o] |-> IF f \in DOMAIN fields THEN fields[f] ELSE order[o][f]]
<1>1. order' = [order EXCEPT ![o] = new]
  BY DEF UpdateOrder
<1>2. order[o] \in [state : {"live", "deleted"}, status : Status, payment : {"PAID", "UNPAID"}]
  BY DEF IInv, TypeOK
<1>3. DOMAIN order[o] = {"state", "status", "payment"}
  BY <1>2
<1>4. new = [state |-> new["state"], status |-> new["status"], payment |-> new["payment"]]
  BY <1>3
<1>5. /\ new["state"] = order[o].state
      /\ new["status"] = IF "status" \in DOMAIN fields THEN fields["status"] ELSE order[o].status
      /\ new["payment"] = IF "payment" \in DOMAIN fields THEN fields["payment"] ELSE order[o].payment
  BY <1>3
<1> HIDE DEF new
<1>6. new \in [state : {"live", "deleted"}, status : Status, payment : {"PAID", "UNPAID"}]
  BY <1>2, <1>4, <1>5
<1>7. order' \in Orders /\ order'[o] = new /\ \A p \in Order \ {o} : order'[p] = order[p]
  BY <1>1, <1>6 DEF Orders, IInv, TypeOK
<1> QED  BY <1>4, <1>5, <1>7

\* The form of an order that was sent.
LEMMA SubmitOrderStep ==
    ASSUME IInv, NEW t \in Tab, SubmitOrder(t)
    PROVE  IInv'
<1>1. PageOK(page[t]) /\ page[t].open /\ page[t].form = "order"
  BY ThisPage DEF SubmitOrder, Ready
<1>2. page[t].of \in Order
  BY <1>1 DEF PageOK, Page
<1>3. UNCHANGED <<row, page>> /\ opened' \in 0..MaxPages /\ changes' \in 0..MaxChanges
  BY DEF SubmitOrder, IInv, TypeOK
<1>4. ASSUME NEW s \in Status, UpdateOrder(page[t].of, [status |-> s])
      PROVE  order' \in Orders
  BY <1>2, <1>4, UpdateOrderOK
<1>5. ASSUME NEW s \in Status, NEW pay \in PaymentsOffered(t),
             UpdateOrder(page[t].of, [status |-> s, payment |-> pay])
      PROVE  order' \in Orders
  <2>1. pay \in {"PAID", "UNPAID"}
    BY DEF PaymentsOffered
  <2> QED  BY <1>2, <1>5, <2>1, UpdateOrderOK
<1>6. order' \in Orders
  BY <1>4, <1>5 DEF SubmitOrder
<1> QED  BY <1>3, <1>6, OrderStep

\* An order that is deleted.
LEMMA DeleteOrderStep ==
    ASSUME IInv, NEW o \in Order, DeleteOrder(o)
    PROVE  IInv'
<1>1. order' \in Orders
  BY DEF DeleteOrder, IInv, TypeOK, Orders
<1> QED  BY <1>1, OutsideOK, OrderStep DEF DeleteOrder

\* An order whose payment status a customer's call writes.
LEMMA UpdatePaymentStatusStep ==
    ASSUME IInv, NEW o \in Order, NEW pay \in {"PAID", "UNPAID"}, UpdatePaymentStatus(o, pay)
    PROVE  IInv'
<1>1. order' \in Orders
  BY UpdateOrderOK DEF UpdatePaymentStatus
<1> QED  BY <1>1, OutsideOK, OrderStep DEF UpdatePaymentStatus

-----------------------------------------------------------------------------
(* The theorems.                                                           *)

\* The tables at first.
LEMMA InitOK ==
    ASSUME Init
    PROVE  IInv
<1>1. PICK present \in {S \in SUBSET Id : Stocked \subseteq S} :
      \E refs \in [present \cap (Product \cup Category) -> Proper(present)] :
         row = [x \in Id |-> IF x \notin present THEN [state |-> "unused", refs |-> NoRefs]
                             ELSE [state |-> "active",
                                   refs |-> [f \in Field |-> IF f \in Fields(x) THEN refs[x][f]
                                                             ELSE None]]]
  BY DEF Init
<1>2. PICK refs \in [present \cap (Product \cup Category) -> Proper(present)] :
         row = [x \in Id |-> IF x \notin present THEN [state |-> "unused", refs |-> NoRefs]
                             ELSE [state |-> "active",
                                   refs |-> [f \in Field |-> IF f \in Fields(x) THEN refs[x][f]
                                                             ELSE None]]]
  BY <1>1
<1>3. \A x \in Id, f \in Field : f \in Fields(x) => x \in Product \cup Category
  BY DEF Fields
<1>4. ASSUME NEW x \in present, NEW f \in Field
      PROVE  /\ row[x].state = "active"
             /\ row[x].refs[f] = IF f \in Fields(x) THEN refs[x][f] ELSE None
             /\ row[x].refs[f] # None => f \in Fields(x) /\ row[x].refs[f] \in Target(f) \cap present
  <2>1. row[x].state = "active" /\ row[x].refs[f] = IF f \in Fields(x) THEN refs[x][f] ELSE None
    BY <1>2
  <2>2. f \in Fields(x) => refs[x] \in Proper(present)
    BY <1>3
  <2>3. f \in Fields(x) => refs[x][f] \in {None} \cup (Target(f) \cap present)
    BY <2>2 DEF Proper
  <2> QED  BY <2>1, <2>3
<1>5. \A x \in Id \ present, f \in Field : row[x].refs[f] = None /\ row[x].state = "unused"
  BY <1>2 DEF NoRefs
<1>6. row \in Rows
  <2>1. NoRefs \in Refs
    BY DEF NoRefs, Refs
  <2>2. ASSUME NEW x \in present
        PROVE  [f \in Field |-> IF f \in Fields(x) THEN refs[x][f] ELSE None] \in Refs
    <3>1. \A f \in Field : (IF f \in Fields(x) THEN refs[x][f] ELSE None) \in Id \cup {None}
      BY <1>4
    <3> QED  BY <3>1 DEF Refs
  <2> QED  BY <1>2, <2>1, <2>2 DEF Rows, State
<1>7. ReferencesResolve
  BY <1>4, <1>5 DEF ReferencesResolve, Resolves, Exists
<1>8. order \in Orders
  <2>1. (CHOOSE s \in Status : TRUE) \in Status
    BY RowsAssumption
  <2> QED  BY <2>1 DEF Init, Orders
<1>9. page \in [Tab -> Page] /\ \A t \in Tab : PageOK(page[t])
  BY NoPageOK DEF Init, PageOK
<1>10. opened \in 0..MaxPages /\ changes \in 0..MaxChanges
  BY PageBounds DEF Init
<1>11. TypeOK
  BY <1>6, <1>8, <1>9, <1>10 DEF TypeOK, PageOK, Rows, Orders
<1>12. OrderForms /\ NewForms
  BY <1>9 DEF OrderForms, NewForms, PageOK
<1> QED  BY <1>7, <1>11, <1>12 DEF IInv

\* Every step keeps it.
LEMMA NextOK ==
    ASSUME IInv, [Next]_vars
    PROVE  IInv'
<1>1. CASE UNCHANGED vars
  BY <1>1 DEF vars, IInv, TypeOK, ReferencesResolve, Resolves, Exists, OrderForms, NewForms
<1>2. ASSUME NEW t \in Tab, TabStep(t)
      PROVE  IInv'
  <2>1. CASE OpenSome(t) \/ FetchRow(t) \/ FetchOrder(t) \/ FetchFails(t) \/ \E f \in Field : FetchList(t, f)
    BY <2>1, OpenStep, FetchRowStep, FetchOrderStep, FetchFailsStep, FetchListStep
  <2>2. CASE CreateProduct(t) \/ CreateCategory(t)
    <3>1. PICK x \in Id, refs \in Bodies(t) : CreateRow(x, refs) /\ UNCHANGED <<order, page, opened, changes>>
      BY <2>2 DEF CreateProduct, CreateCategory, Submits, Id
    <3> QED  BY <3>1, BodiesOK, CreateStep
  <2>3. CASE UpdateProduct(t) \/ UpdateCategory(t)
    <3>1. page[t].of \in Id /\ UNCHANGED <<order, page, opened, changes>>
      BY <2>3, EditedRow DEF UpdateProduct, UpdateCategory, Submits, Ready
    <3>2. PICK refs \in Bodies(t) : UpdateRow(page[t].of, refs)
      BY <2>3 DEF UpdateProduct, UpdateCategory
    <3> QED  BY <3>1, <3>2, BodiesOK, UpdateStep
  <2>4. CASE SubmitOrder(t)
    BY <2>4, SubmitOrderStep
  <2> QED  BY <1>2, <2>1, <2>2, <2>3, <2>4 DEF TabStep
<1>3. ASSUME NEW p \in Product, RemoveProduct(p) \/ DeleteProduct(p)
      PROVE  IInv'
  BY <1>3, DeactivateStep, DeleteStep DEF RemoveProduct, DeleteProduct, Id
<1>4. ASSUME NEW c \in Category, RemoveCategory(c) \/ DeleteCategory(c)
      PROVE  IInv'
  BY <1>4, DeactivateStep, DeleteStep DEF RemoveCategory, DeleteCategory, Id
<1>5. ASSUME NEW a \in Author, CreateAuthor(a) \/ DeleteAuthor(a)
      PROVE  IInv'
  BY <1>5, CreateTargetStep, DeleteStep DEF CreateAuthor, DeleteAuthor, Id
<1>6. ASSUME NEW m \in Promotion, CreatePromotion(m) \/ DeletePromotion(m)
      PROVE  IInv'
  BY <1>6, CreateTargetStep, DeleteStep DEF CreatePromotion, DeletePromotion, Id
<1>7. ASSUME NEW o \in Order, DeleteOrder(o)
      PROVE  IInv'
  BY <1>7, DeleteOrderStep
<1>8. ASSUME NEW o \in Order, NEW pay \in {"PAID", "UNPAID"}, UpdatePaymentStatus(o, pay)
      PROVE  IInv'
  BY <1>8, UpdatePaymentStatusStep
<1> QED  BY <1>1, <1>2, <1>3, <1>4, <1>5, <1>6, <1>7, <1>8 DEF Next

\* In every reachable state the tables and the open pages fit together.
THEOREM Invariance == Spec => []IInv
<1>1. Init => IInv
  BY InitOK
<1>2. IInv /\ [Next]_vars => IInv'
  BY NextOK
<1> QED  BY <1>1, <1>2, PTL DEF Spec

\* The types.
THEOREM TypeCorrect == Spec => []TypeOK
<1>1. IInv => TypeOK
  BY DEF IInv
<1> QED  BY <1>1, Invariance, PTL

\* No row refers to a row that is gone, or to a row of the wrong table.
THEOREM ReferencesHold == Spec => []ReferencesResolve
<1>1. IInv => ReferencesResolve
  BY DEF IInv
<1> QED  BY <1>1, Invariance, PTL

\* The storefront's list by a category: the recursive query ends exactly when
\* it comes by no cycle, and then finds the subtree.
THEOREM ListingHolds == Spec => []ListingIsSubtree
  BY ListingAlways, PTL

\* What an edit leaves alone.
LEMMA EditKeeps ==
    ASSUME IInv, [Next]_vars, NEW x \in Id, Exists(x), row[x].refs # row'[x].refs,
           opened' = opened, changes' = changes
    PROVE  \E t \in Tab, touched \in Field :
              /\ page[t].open /\ page[t].of = x /\ page[t].todo = << >>
              /\ \A f \in Field \ {touched} : row'[x].refs[f] # row[x].refs[f] =>
                    \/ page[t].shown[f] # row[x].refs[f]
                    \/ page[t].shown[f] \notin page[t].list[f]
<1>1. row' # row
  OBVIOUS
<1>2. changes \in Int /\ opened \in Int /\ row \in Rows
  BY PageBounds DEF IInv, TypeOK, Rows
<1>3. ~Outside
  BY <1>2 DEF Outside
<1>4. PICK t \in Tab : TabStep(t)
  BY <1>1, <1>3 DEF Next, vars, RemoveProduct, DeleteProduct, RemoveCategory, DeleteCategory, Deactivate, DeleteRow,
     CreateAuthor, DeleteAuthor, CreatePromotion, DeletePromotion, CreateTarget, DeleteOrder,
     UpdatePaymentStatus
<1>5. CreateProduct(t) \/ CreateCategory(t) \/ UpdateProduct(t) \/ UpdateCategory(t)
  BY <1>1, <1>4 DEF TabStep, OpenSome, Open, FetchRow, FetchOrder, FetchFails, FetchList, SubmitOrder
<1>6. ~(CreateProduct(t) \/ CreateCategory(t))
  <2>1. ASSUME NEW y \in Id, NEW refs \in Bodies(t), CreateRow(y, refs)
        PROVE  FALSE
    <3>1. row'[x] = row[x]
      BY <1>2, <2>1 DEF CreateRow, Exists, Rows
    <3> QED  BY <3>1
  <2> QED  BY <2>1 DEF CreateProduct, CreateCategory, Id
<1>7. page[t].open /\ page[t].todo = << >>
  BY <1>5, <1>6 DEF UpdateProduct, UpdateCategory, Submits, Ready
<1>8. PICK refs \in Bodies(t) : UpdateRow(page[t].of, refs)
  BY <1>5, <1>6 DEF UpdateProduct, UpdateCategory
<1>9. page[t].of = x /\ row' = [row EXCEPT ![x].refs = refs]
  BY <1>1, <1>2, <1>8 DEF UpdateRow, Rows
<1>10. row'[x].refs = refs
  BY <1>2, <1>9 DEF Rows
<1>11. PICK touched \in Field : \A f \in Field \ {touched} : refs[f] = Preselected(t)[f]
  <2>1. Preselected(t) \in Refs
    BY ThisPage DEF PageOK, Page, Preselected, Refs
  <2>2. CASE refs = Preselected(t)
    BY <2>2 DEF Field
  <2>3. CASE \E f \in Field : \E v \in page[t].list[f] \cup {None} : refs = [Preselected(t) EXCEPT ![f] = v]
    BY <2>1, <2>3 DEF Refs
  <2> QED  BY <2>2, <2>3 DEF Bodies
<1>12. ASSUME NEW f \in Field \ {touched}, row'[x].refs[f] # row[x].refs[f]
       PROVE  \/ page[t].shown[f] # row[x].refs[f]
              \/ page[t].shown[f] \notin page[t].list[f]
  <2>1. Preselected(t)[f] # row[x].refs[f]
    BY <1>10, <1>11, <1>12
  <2> QED  BY <2>1 DEF Preselected
<1> QED  BY <1>7, <1>9, <1>12

\* A form changes the field its administrator touched, what others changed
\* since the page was opened, and what the page could not offer; no more.
THEOREM EditsKeep == Spec => EditsKeepTheRest
<1>1. IInv /\ [Next]_vars =>
        [\A x \in Id : Exists(x) /\ row[x].refs # row'[x].refs /\ opened' = opened /\ changes' = changes
          => \E t \in Tab, touched \in Field :
                /\ page[t].open /\ page[t].of = x /\ page[t].todo = << >>
                /\ \A f \in Field \ {touched} : row'[x].refs[f] # row[x].refs[f] =>
                      \/ page[t].shown[f] # row[x].refs[f]
                      \/ page[t].shown[f] \notin page[t].list[f]]_vars
  BY EditKeeps
<1> QED  BY <1>1, Invariance, PTL DEF Spec, EditsKeepTheRest

\* A payment is lost to a form opened before it, or to the customers' mutation.
LEMMA PaymentKept ==
    ASSUME IInv, [Next]_vars, NEW o \in Order, order[o].payment = "PAID", order'[o].payment = "UNPAID",
           ~UpdatePaymentStatus(o, "UNPAID")
    PROVE  \E t \in Tab : page[t].open /\ page[t].of = o /\ page[t].payment = "UNPAID"
<1>1. order' # order
  OBVIOUS
<1>2. ASSUME NEW p \in Order, NEW pay \in {"PAID", "UNPAID"}, UpdatePaymentStatus(p, pay)
      PROVE  FALSE
  <2>1. order'[p].payment = pay /\ \A q \in Order \ {p} : order'[q] = order[q]
    BY <1>2, UpdateOrderOK DEF UpdatePaymentStatus
  <2>2. p = o /\ pay = "UNPAID"
    BY <2>1
  <2> QED  BY <1>2, <2>2
<1>3. ASSUME NEW p \in Order, DeleteOrder(p)
      PROVE  FALSE
  BY <1>3 DEF DeleteOrder, IInv, TypeOK
<1>4. PICK t \in Tab : TabStep(t)
  BY <1>1, <1>2, <1>3 DEF Next, vars, RemoveProduct, DeleteProduct, RemoveCategory, DeleteCategory,
     Deactivate, DeleteRow, CreateAuthor, DeleteAuthor, CreatePromotion, DeletePromotion, CreateTarget
<1>5. SubmitOrder(t)
  BY <1>1, <1>4 DEF TabStep, OpenSome, Open, FetchRow, FetchOrder, FetchFails, FetchList,
     CreateProduct, UpdateProduct, CreateCategory, UpdateCategory, Submits
<1>6. PageOK(page[t]) /\ page[t].open /\ page[t].todo = << >> /\ page[t].form = "order"
  BY <1>5, ThisPage DEF SubmitOrder, Ready
<1>7. page[t].of \in Order
  BY <1>6 DEF PageOK, Page
<1>8. page[t].payment \in {"PAID", "UNPAID"}
  <2>1. <<"row">> # << >>
    OBVIOUS
  <2> QED  BY <1>6, <2>1 DEF PageOK, Page
<1>9. ASSUME NEW s \in Status, UpdateOrder(page[t].of, [status |-> s])
      PROVE  FALSE
  BY <1>7, <1>9, UpdateOrderOK
<1>10. PICK s \in Status, pay \in PaymentsOffered(t) : UpdateOrder(page[t].of, [status |-> s, payment |-> pay])
  BY <1>5, <1>9 DEF SubmitOrder
<1>11. page[t].payment = "UNPAID"
  BY <1>8, <1>10 DEF PaymentsOffered
<1>12. page[t].of = o
  <2>1. pay \in {"PAID", "UNPAID"}
    BY <1>10 DEF PaymentsOffered
  <2>2. \A p \in Order \ {page[t].of} : order'[p] = order[p]
    BY <1>7, <1>10, <2>1, UpdateOrderOK
  <2> QED  BY <2>2
<1> QED  BY <1>6, <1>11, <1>12

\* The form of an order that is shown as paid cannot unpay it: a payment is
\* lost only to a form opened before it, or to a call that says so.
THEOREM PaidStays == Spec => PaidStaysPaid
<1>1. IInv /\ [Next]_vars =>
        [\A o \in Order : order[o].payment = "PAID" /\ order'[o].payment = "UNPAID"
          => \/ \E t \in Tab : page[t].open /\ page[t].of = o /\ page[t].payment = "UNPAID"
             \/ UpdatePaymentStatus(o, "UNPAID")]_vars
  BY PaymentKept
<1> QED  BY <1>1, Invariance, PTL DEF Spec, PaidStaysPaid

=============================================================================
