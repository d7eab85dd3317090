------------------------ MODULE ProductRemovalProofs ------------------------
(***************************************************************************)
(* Proofs about ProductRemoval, for any products, removals and carts.      *)
(*                                                                         *)
(* Who may still hold a product that is off sale is settled at COMMIT from *)
(* what the purge met earlier.  IInv carries it there: a removal commits   *)
(* only with an answered call (Phases), whoever an answered purge did not  *)
(* take is late, gone or holds another product (PurgeIsComplete), and what *)
(* is purged has a call that did it (PurgedByACall).                       *)
(***************************************************************************)
EXTENDS ProductRemoval, TLAPS

\* Every product is on sale, in nobody's cart.
LEMMA InitIInv == Init => IInv
<1>1. SomeProduct \in Product
  BY ProductAssumption DEF SomeProduct
<1> QED  BY <1>1, AddAssumption, FaultAssumption
         DEF Init, IInv, TypeOK, RemovalState, AddState, Ends, Add, Phases, PurgeIsComplete,
             RacersOnTheWay, PurgedByACall

\* Begin (remove) keeps the invariant.
LEMMA BeginStep ==
    ASSUME NEW r \in Removal, NEW p \in Product, IInv, Begin(r, p)
    PROVE  IInv'
<1> USE AddAssumption, FaultAssumption DEF IInv, RemovalState, AddState, Ends, Add
<1>1. TypeOK'
  BY DEF TypeOK, Begin
<1>2. Phases'
  BY DEF TypeOK, Phases, Begin
<1>3. PurgeIsComplete'
  BY DEF TypeOK, PurgeIsComplete, Begin
<1>4. RacersOnTheWay'
  BY DEF TypeOK, RacersOnTheWay, Begin
<1>5. PurgedByACall'
  BY DEF TypeOK, Phases, PurgedByACall, Begin
<1> QED  BY <1>1, <1>2, <1>3, <1>4, <1>5

\* BeginFails (remove) keeps the invariant.
LEMMA BeginFailsStep ==
    ASSUME NEW r \in Removal, NEW p \in Product, IInv, BeginFails(r, p)
    PROVE  IInv'
<1> USE AddAssumption, FaultAssumption DEF IInv, RemovalState, AddState, Ends, Add
<1>1. TypeOK'
  <2>1. [removal[r] EXCEPT !.at = "dbError", !.product = p] \in RemovalState
    <3>1. removal[r] \in RemovalState
      BY DEF TypeOK
    <3> QED  BY <3>1
  <2>2. removal' = [removal EXCEPT ![r] = [removal[r] EXCEPT !.at = "dbError", !.product = p]]
    BY DEF TypeOK, BeginFails
  <2>3. removal' \in [Removal -> RemovalState]
    <3> HIDE DEF RemovalState
    <3> QED  BY <2>1, <2>2 DEF TypeOK
  <2> QED  BY <2>3 DEF TypeOK, BeginFails, Fault
<1>2. Phases'
  BY DEF TypeOK, Phases, BeginFails, Fault
<1>3. PurgeIsComplete'
  BY DEF TypeOK, PurgeIsComplete, BeginFails, Fault
<1>4. RacersOnTheWay'
  BY DEF TypeOK, RacersOnTheWay, BeginFails, Fault
<1>5. PurgedByACall'
  BY DEF TypeOK, PurgedByACall, BeginFails, Fault
<1> QED  BY <1>1, <1>2, <1>3, <1>4, <1>5

\* Answered (remove) keeps the invariant.
LEMMA AnsweredStep ==
    ASSUME NEW r \in Removal, IInv, Answered(r)
    PROVE  IInv'
<1> USE AddAssumption, FaultAssumption DEF IInv, RemovalState, AddState, Ends, Add
<1>1. TypeOK'
  BY DEF TypeOK, Answered, Goto
<1>2. Phases'
  BY DEF TypeOK, Phases, Answered, Goto
<1>3. PurgeIsComplete'
  BY DEF TypeOK, PurgeIsComplete, Answered, Goto
<1>4. RacersOnTheWay'
  BY DEF TypeOK, RacersOnTheWay, Answered, Goto
<1>5. PurgedByACall'
  BY DEF TypeOK, PurgedByACall, Answered, Goto
<1> QED  BY <1>1, <1>2, <1>3, <1>4, <1>5

\* Commit (remove) keeps the invariant.
LEMMA CommitStep ==
    ASSUME NEW r \in Removal, IInv, Commit(r)
    PROVE  IInv'
<1> USE AddAssumption, FaultAssumption DEF IInv, RemovalState, AddState, Ends, Add
<1>1. TypeOK'
  BY DEF TypeOK, Commit, Deactivated, Goto
<1>2. Phases'
  BY DEF TypeOK, Phases, Commit, Deactivated, Goto
<1>3. PurgeIsComplete'
  BY DEF TypeOK, PurgeIsComplete, Commit, Deactivated, Goto
<1>4. RacersOnTheWay'
  <2>1. CASE UNCHANGED <<state, racers>>
    BY <2>1 DEF RacersOnTheWay, Commit
  <2>2. CASE ~ UNCHANGED <<state, racers>>
    <3> DEFINE p == removal[r].product
    <3>1. /\ state' = [state EXCEPT ![p] = "inactive"]
          /\ racers' = [racers EXCEPT ![p] =
                          {k \in late[r] : add[k].product = p /\ add[k].at \in {"quoted", "in"}}]
      BY <2>2 DEF Commit, Deactivated
    <3>2. p \in Product /\ removal[r].call = "answered" /\ add' = add
      BY DEF TypeOK, Phases, Commit
    <3>3. ASSUME NEW k \in UserAdd, add[k].at \in {"quoted", "in"}, state'[add[k].product] = "inactive"
          PROVE  k \in racers'[add[k].product]
      <4>1. CASE add[k].product = p
        <5>1. k \in late[r]
          BY <3>2, <3>3, <4>1 DEF PurgeIsComplete
        <5> QED  BY <3>1, <3>2, <3>3, <4>1, <5>1 DEF TypeOK
      <4>2. CASE add[k].product # p
        BY <3>1, <3>2, <3>3, <4>2 DEF TypeOK, RacersOnTheWay
      <4> QED  BY <4>1, <4>2
    <3> QED  BY <3>2, <3>3 DEF RacersOnTheWay
  <2> QED  BY <2>1, <2>2
<1>5. PurgedByACall'
  BY DEF TypeOK, PurgedByACall, Commit, Deactivated, Goto
<1> QED  BY <1>1, <1>2, <1>3, <1>4, <1>5

\* CommitFails (remove) keeps the invariant.
LEMMA CommitFailsStep ==
    ASSUME NEW r \in Removal, IInv, CommitFails(r)
    PROVE  IInv'
<1> USE AddAssumption, FaultAssumption DEF IInv, RemovalState, AddState, Ends, Add
<1>1. TypeOK'
  <2>1. removal' \in [Removal -> RemovalState]
    BY DEF TypeOK, CommitFails, Goto
  <2>2. state' \in [Product -> {"active", "inactive", "deleted"}] /\ racers' \in [Product -> SUBSET UserAdd]
    BY DEF TypeOK, CommitFails, Deactivated
  <2> QED  BY <2>1, <2>2 DEF TypeOK, CommitFails, Fault
<1>2. Phases'
  BY DEF TypeOK, Phases, CommitFails, Fault, Deactivated, Goto
<1>3. PurgeIsComplete'
  BY DEF TypeOK, PurgeIsComplete, CommitFails, Fault, Deactivated, Goto
<1>4. RacersOnTheWay'
  <2>1. CASE UNCHANGED <<state, racers>>
    BY <2>1 DEF RacersOnTheWay, CommitFails
  <2>2. CASE ~ UNCHANGED <<state, racers>>
    <3> DEFINE p == removal[r].product
    <3>1. /\ state' = [state EXCEPT ![p] = "inactive"]
          /\ racers' = [racers EXCEPT ![p] =
                          {k \in late[r] : add[k].product = p /\ add[k].at \in {"quoted", "in"}}]
      BY <2>2 DEF CommitFails, Deactivated
    <3>2. p \in Product /\ removal[r].call = "answered" /\ add' = add
      BY DEF TypeOK, Phases, CommitFails
    <3>3. ASSUME NEW k \in UserAdd, add[k].at \in {"quoted", "in"}, state'[add[k].product] = "inactive"
          PROVE  k \in racers'[add[k].product]
      <4>1. CASE add[k].product = p
        <5>1. k \in late[r]
          BY <3>2, <3>3, <4>1 DEF PurgeIsComplete
        <5> QED  BY <3>1, <3>2, <3>3, <4>1, <5>1 DEF TypeOK
      <4>2. CASE add[k].product # p
        BY <3>1, <3>2, <3>3, <4>2 DEF TypeOK, RacersOnTheWay
      <4> QED  BY <4>1, <4>2
    <3> QED  BY <3>2, <3>3 DEF RacersOnTheWay
  <2> QED  BY <2>1, <2>2
<1>5. PurgedByACall'
  BY DEF TypeOK, PurgedByACall, CommitFails, Fault, Deactivated, Goto
<1> QED  BY <1>1, <1>2, <1>3, <1>4, <1>5

\* TimesOut (remove) keeps the invariant.
LEMMA TimesOutStep ==
    ASSUME NEW r \in Removal, IInv, TimesOut(r)
    PROVE  IInv'
<1> USE AddAssumption, FaultAssumption DEF IInv, RemovalState, AddState, Ends, Add
<1>1. TypeOK'
  BY DEF TypeOK, TimesOut, Goto
<1>2. Phases'
  BY DEF TypeOK, Phases, TimesOut, Goto
<1>3. PurgeIsComplete'
  BY DEF TypeOK, PurgeIsComplete, TimesOut, Goto
<1>4. RacersOnTheWay'
  BY DEF TypeOK, RacersOnTheWay, TimesOut, Goto
<1>5. PurgedByACall'
  BY DEF TypeOK, PurgedByACall, TimesOut, Goto
<1> QED  BY <1>1, <1>2, <1>3, <1>4, <1>5

\* Refused (remove) keeps the invariant.
LEMMA RefusedStep ==
    ASSUME NEW r \in Removal, IInv, Refused(r)
    PROVE  IInv'
<1> USE AddAssumption, FaultAssumption DEF IInv, RemovalState, AddState, Ends, Add
<1>1. TypeOK'
  BY DEF TypeOK, Refused, Goto
<1>2. Phases'
  BY DEF TypeOK, Phases, Refused, Goto
<1>3. PurgeIsComplete'
  BY DEF TypeOK, PurgeIsComplete, Refused, Goto
<1>4. RacersOnTheWay'
  BY DEF TypeOK, RacersOnTheWay, Refused, Goto
<1>5. PurgedByACall'
  BY DEF TypeOK, PurgedByACall, Refused, Goto
<1> QED  BY <1>1, <1>2, <1>3, <1>4, <1>5

\* ProductServiceDies (remove) keeps the invariant.
LEMMA ProductServiceDiesStep ==
    ASSUME IInv, ProductServiceDies
    PROVE  IInv'
<1> USE AddAssumption, FaultAssumption DEF IInv, RemovalState, AddState, Ends, Add
<1>1. TypeOK'
  BY DEF TypeOK, ProductServiceDies, Fault, InFlight
<1>2. Phases'
  BY DEF TypeOK, Phases, ProductServiceDies, Fault, InFlight
<1>3. PurgeIsComplete'
  BY DEF TypeOK, PurgeIsComplete, ProductServiceDies, Fault, InFlight
<1>4. RacersOnTheWay'
  BY DEF TypeOK, RacersOnTheWay, ProductServiceDies, Fault, InFlight
<1>5. PurgedByACall'
  BY DEF TypeOK, PurgedByACall, ProductServiceDies, Fault, InFlight
<1> QED  BY <1>1, <1>2, <1>3, <1>4, <1>5

\* DeleteProduct (delete) keeps the invariant.
LEMMA DeleteProductStep ==
    ASSUME NEW p \in Product, IInv, DeleteProduct(p)
    PROVE  IInv'
<1> USE AddAssumption, FaultAssumption DEF IInv, RemovalState, AddState, Ends, Add
<1>1. TypeOK'
  BY DEF TypeOK, DeleteProduct
<1>2. Phases'
  BY DEF TypeOK, Phases, DeleteProduct
<1>3. PurgeIsComplete'
  BY DEF TypeOK, PurgeIsComplete, DeleteProduct
<1>4. RacersOnTheWay'
  BY DEF TypeOK, RacersOnTheWay, DeleteProduct
<1>5. PurgedByACall'
  BY DEF TypeOK, PurgedByACall, DeleteProduct
<1> QED  BY <1>1, <1>2, <1>3, <1>4, <1>5

\* Handle (removeCartItemForProduct) keeps the invariant.
LEMMA HandleStep ==
    ASSUME NEW r \in Removal, IInv, Handle(r)
    PROVE  IInv'
<1> USE AddAssumption, FaultAssumption DEF IInv, RemovalState, AddState, Ends, Add
<1>1. TypeOK'
  BY DEF TypeOK, Handle, Purged, Absent
<1>2. Phases'
  BY DEF TypeOK, Phases, Handle, Purged, Absent
<1>3. PurgeIsComplete'
  BY DEF TypeOK, PurgeIsComplete, Handle, Purged, Absent
<1>4. RacersOnTheWay'
  BY DEF TypeOK, RacersOnTheWay, Handle, Purged, Absent
<1>5. PurgedByACall'
  BY DEF TypeOK, PurgedByACall, Handle, Purged, Absent
<1> QED  BY <1>1, <1>2, <1>3, <1>4, <1>5

\* HandleFails (removeCartItemForProduct) keeps the invariant.
LEMMA HandleFailsStep ==
    ASSUME NEW r \in Removal, IInv, HandleFails(r)
    PROVE  IInv'
<1> USE AddAssumption, FaultAssumption DEF IInv, RemovalState, AddState, Ends, Add
<1>1. TypeOK'
  BY DEF TypeOK, HandleFails, Fault
<1>2. Phases'
  BY DEF TypeOK, Phases, HandleFails, Fault
<1>3. PurgeIsComplete'
  BY DEF TypeOK, PurgeIsComplete, HandleFails, Fault
<1>4. RacersOnTheWay'
  BY DEF TypeOK, RacersOnTheWay, HandleFails, Fault
<1>5. PurgedByACall'
  BY DEF TypeOK, PurgedByACall, HandleFails, Fault
<1> QED  BY <1>1, <1>2, <1>3, <1>4, <1>5

\* HandleCommitFails (removeCartItemForProduct) keeps the invariant.
LEMMA HandleCommitFailsStep ==
    ASSUME NEW r \in Removal, IInv, HandleCommitFails(r)
    PROVE  IInv'
<1> USE AddAssumption, FaultAssumption DEF IInv, RemovalState, AddState, Ends, Add
<1>1. TypeOK'
  BY DEF TypeOK, HandleCommitFails, Fault, Purged
<1>2. Phases'
  BY DEF TypeOK, Phases, HandleCommitFails, Fault, Purged
<1>3. PurgeIsComplete'
  BY DEF TypeOK, PurgeIsComplete, HandleCommitFails, Fault, Purged
<1>4. RacersOnTheWay'
  BY DEF TypeOK, RacersOnTheWay, HandleCommitFails, Fault, Purged
<1>5. PurgedByACall'
  BY DEF TypeOK, PurgedByACall, HandleCommitFails, Fault, Purged
<1> QED  BY <1>1, <1>2, <1>3, <1>4, <1>5

\* CartServiceDies (getMicroserviceOptions) keeps the invariant.
LEMMA CartServiceDiesStep ==
    ASSUME IInv, CartServiceDies, faults' \in 0..MaxFaults
    PROVE  IInv'
<1> USE AddAssumption, FaultAssumption DEF IInv, RemovalState, AddState, Ends, Add
<1>1. TypeOK'
  BY DEF TypeOK, CartServiceDies, Queued, Purged
<1>2. Phases'
  BY DEF TypeOK, Phases, CartServiceDies, Queued, Purged
<1>3. PurgeIsComplete'
  BY DEF TypeOK, PurgeIsComplete, CartServiceDies, Queued, Purged
<1>4. RacersOnTheWay'
  BY DEF TypeOK, RacersOnTheWay, CartServiceDies, Queued, Purged
<1>5. PurgedByACall'
  BY DEF TypeOK, PurgedByACall, CartServiceDies, Queued, Purged
<1> QED  BY <1>1, <1>2, <1>3, <1>4, <1>5

\* Quote (create) keeps the invariant.
LEMMA QuoteStep ==
    ASSUME NEW k \in UserAdd, NEW p \in Product, IInv, Quote(k, p)
    PROVE  IInv'
<1> USE AddAssumption, FaultAssumption DEF IInv, RemovalState, AddState, Ends, Add
<1>1. TypeOK'
  BY DEF TypeOK, Quote
<1>2. Phases'
  BY DEF TypeOK, Phases, Quote
<1>3. PurgeIsComplete'
  BY DEF TypeOK, PurgeIsComplete, Quote
<1>4. RacersOnTheWay'
  BY DEF TypeOK, RacersOnTheWay, Quote
<1>5. PurgedByACall'
  BY DEF TypeOK, PurgedByACall, Quote
<1> QED  BY <1>1, <1>2, <1>3, <1>4, <1>5

\* Insert (create) keeps the invariant.
LEMMA InsertStep ==
    ASSUME NEW k \in Add, IInv, Insert(k)
    PROVE  IInv'
<1> USE AddAssumption, FaultAssumption DEF IInv, RemovalState, AddState, Ends, Add
<1>1. TypeOK'
  BY DEF TypeOK, Insert
<1>2. Phases'
  BY DEF TypeOK, Phases, Insert
<1>3. PurgeIsComplete'
  BY DEF TypeOK, PurgeIsComplete, Insert
<1>4. RacersOnTheWay'
  BY DEF TypeOK, RacersOnTheWay, Insert
<1>5. PurgedByACall'
  BY DEF TypeOK, PurgedByACall, Insert
<1> QED  BY <1>1, <1>2, <1>3, <1>4, <1>5

\* Leave (delete) keeps the invariant.
LEMMA LeaveStep ==
    ASSUME NEW k \in Add, IInv, Leave(k)
    PROVE  IInv'
<1> USE AddAssumption, FaultAssumption DEF IInv, RemovalState, AddState, Ends, Add
<1>1. TypeOK'
  BY DEF TypeOK, Leave
<1>2. Phases'
  BY DEF TypeOK, Phases, Leave
<1>3. PurgeIsComplete'
  BY DEF TypeOK, PurgeIsComplete, Leave
<1>4. RacersOnTheWay'
  BY DEF TypeOK, RacersOnTheWay, Leave
<1>5. PurgedByACall'
  BY DEF TypeOK, PurgedByACall, Leave
<1> QED  BY <1>1, <1>2, <1>3, <1>4, <1>5

\* InsertForGuest (createForGuest) keeps the invariant.
LEMMA InsertForGuestStep ==
    ASSUME NEW g \in GuestAdd, NEW p \in Product, IInv, InsertForGuest(g, p)
    PROVE  IInv'
<1> USE AddAssumption, FaultAssumption DEF IInv, RemovalState, AddState, Ends, Add
<1>1. TypeOK'
  BY DEF TypeOK, InsertForGuest
<1>2. Phases'
  BY DEF TypeOK, Phases, InsertForGuest
<1>3. PurgeIsComplete'
  BY DEF TypeOK, PurgeIsComplete, InsertForGuest
<1>4. RacersOnTheWay'
  BY DEF TypeOK, RacersOnTheWay, InsertForGuest
<1>5. PurgedByACall'
  BY DEF TypeOK, PurgedByACall, InsertForGuest
<1> QED  BY <1>1, <1>2, <1>3, <1>4, <1>5

\* LookedUpForGuest (findProductOnCart) keeps the invariant.
LEMMA LookedUpForGuestStep ==
    ASSUME NEW g \in GuestAdd, IInv, LookedUpForGuest(g)
    PROVE  IInv'
<1> USE AddAssumption, FaultAssumption DEF IInv, RemovalState, AddState, Ends, Add
<1>1. TypeOK'
  BY DEF TypeOK, LookedUpForGuest
<1>2. Phases'
  BY DEF TypeOK, Phases, LookedUpForGuest
<1>3. PurgeIsComplete'
  BY DEF TypeOK, PurgeIsComplete, LookedUpForGuest
<1>4. RacersOnTheWay'
  BY DEF TypeOK, RacersOnTheWay, LookedUpForGuest
<1>5. PurgedByACall'
  BY DEF TypeOK, PurgedByACall, LookedUpForGuest
<1> QED  BY <1>1, <1>2, <1>3, <1>4, <1>5

\* What holds of the variables holds after a step that changes none.
LEMMA StutteringStep ==
    ASSUME IInv, UNCHANGED vars
    PROVE  IInv'
BY DEF vars, IInv, TypeOK, RemovalState, AddState, Ends, Add, Phases, PurgeIsComplete,
       RacersOnTheWay, PurgedByACall

\* Every step keeps the invariant.
LEMMA NextStep ==
    ASSUME IInv, [Next]_vars
    PROVE  IInv'
<1>1. ASSUME NEW r \in Removal, Progress(r)
      PROVE  IInv'
  BY <1>1, AnsweredStep, CommitStep, TimesOutStep, RefusedStep DEF Progress
<1>2. ASSUME NEW r \in Removal, CommitFails(r) \/ Handle(r) \/ HandleFails(r) \/ HandleCommitFails(r)
      PROVE  IInv'
  BY <1>2, CommitFailsStep, HandleStep, HandleFailsStep, HandleCommitFailsStep
<1>3. ASSUME NEW r \in Removal, NEW p \in Product, Begin(r, p) \/ BeginFails(r, p)
      PROVE  IInv'
  BY <1>3, BeginStep, BeginFailsStep
<1>4. ASSUME NEW p \in Product, DeleteProduct(p)
      PROVE  IInv'
  BY <1>4, DeleteProductStep
<1>5. ASSUME NEW k \in UserAdd, NEW p \in Product, Quote(k, p)
      PROVE  IInv'
  BY <1>5, QuoteStep
<1>6. ASSUME NEW k \in Add, Insert(k) \/ Leave(k)
      PROVE  IInv'
  BY <1>6, InsertStep, LeaveStep
<1>7. ASSUME NEW g \in GuestAdd, NEW p \in Product, InsertForGuest(g, p)
      PROVE  IInv'
  BY <1>7, InsertForGuestStep
<1>8. ASSUME NEW g \in GuestAdd, LookedUpForGuest(g)
      PROVE  IInv'
  BY <1>8, LookedUpForGuestStep
<1>9. ASSUME NEW g \in GuestAdd, LookupRejectedForGuest(g)
      PROVE  IInv'
  <2>1. CartServiceDies /\ faults' \in 0..MaxFaults
    BY <1>9 DEF LookupRejectedForGuest, IInv, TypeOK
  <2> QED  BY <2>1, CartServiceDiesStep
<1>10. CASE ProductServiceDies
  BY <1>10, ProductServiceDiesStep
<1>11. CASE CartServiceCrashes
  <2>1. CartServiceDies /\ faults' \in 0..MaxFaults
    BY <1>11, FaultAssumption DEF CartServiceCrashes, Fault, IInv, TypeOK
  <2> QED  BY <2>1, CartServiceDiesStep
<1>12. CASE UNCHANGED vars
  BY <1>12, StutteringStep
<1> QED  BY <1>1, <1>2, <1>3, <1>4, <1>5, <1>6, <1>7, <1>8, <1>9, <1>10, <1>11, <1>12 DEF Next

\* In every state of every run of the removals, carts and crashes the invariant
\* holds.
THEOREM Invariance == Spec => []IInv
<1>1. Init => IInv
  BY InitIInv
<1>2. IInv /\ [Next]_vars => IInv'
  BY NextStep
<1> QED  BY <1>1, <1>2, PTL DEF Spec

\* remove: a product off sale stays in users' carts only through requests that
\* were between their quote and their insert around purge and COMMIT.
THEOREM OnlyRacers == Spec => []OnlyRacersRemain
<1>1. IInv => OnlyRacersRemain
  BY DEF IInv, RacersOnTheWay, OnlyRacersRemain
<1> QED  BY <1>1, Invariance, PTL

\* remove: rows of a product still on sale are purged only by a removal under
\* way, or one that timed out, crashed or met a COMMIT that threw.
THEOREM Culprit == Spec => []PurgeHasCulprit
<1>1. IInv => PurgeHasCulprit
  <2> SUFFICES ASSUME IInv, NEW k \in UserAdd, add[k].at = "purged", state[add[k].product] = "active"
               PROVE  \E r \in Removal :
                         /\ removal[r].product = add[k].product
                         /\ \/ InFlight(r)
                            \/ removal[r].at \in {"timeout", "crashed", "commitFailed"}
                            \/ removal[r].call = "unsure"
    BY DEF PurgeHasCulprit
  <2>1. PICK r \in Removal : /\ removal[r].product = add[k].product
                             /\ removal[r].call \in {"answered", "unsure", "lost"}
    BY DEF IInv, PurgedByACall
  <2>2. \/ removal[r].call = "unsure"
        \/ removal[r].at \notin {"idle", "dbError", "refused", "ok"}
    BY <2>1 DEF IInv, Phases
  <2>3. removal[r].at \in {"idle", "waiting", "committing"} \cup Ends
    BY DEF IInv, TypeOK, RemovalState
  <2> QED  BY <2>1, <2>2, <2>3 DEF InFlight, Ends
<1> QED  BY <1>1, Invariance, PTL

=============================================================================
