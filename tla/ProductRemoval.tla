--------------------------- MODULE ProductRemoval ---------------------------
(***************************************************************************)
(* Taking a product off sale: ProductService.remove, a transaction of the  *)
(* product service around the call REMOVE_CART_ITEM to the cart service,   *)
(* against users and guests who put the product into their carts.          *)
(*                                                                         *)
(* The UPDATE that deactivates the product is not awaited: it waits in the *)
(* connection's queue, shows at COMMIT, and if it fails the rejection is   *)
(* nobody's and ends the process.                                          *)
(***************************************************************************)
EXTENDS Naturals, FiniteSets

CONSTANTS
    Product,
    Removal,     \* requests DELETE /api/products/:id
    UserAdd,     \* requests createCartItem
    GuestAdd,    \* requests createCartItemForGuest
    MaxFaults    \* failing statements, timeouts of one call, crashes

Add == UserAdd \cup GuestAdd

ASSUME ProductAssumption == Product # {}
ASSUME AddAssumption == UserAdd \cap GuestAdd = {}
ASSUME FaultAssumption == MaxFaults \in Nat

VARIABLES
    state,      \* product: what its row says
    removal,    \* each removal: where it stands and its call
    add,        \* each request to add, and the row it inserted
    pending,    \* guests whose product is still being looked up, by nobody
    late,       \* removal: who was not in the table when its purge ran
    racers,     \* product: who was on the way when it was deactivated
    faults

vars == <<state, removal, add, pending, late, racers, faults>>

Ends == {"ok", "dbError", "timeout", "refused", "commitFailed", "crashed"}

RemovalState == [at : {"idle", "waiting", "committing"} \cup Ends, product : Product,
                 call : {"unsent", "queued", "answered", "refused", "unsure", "lost"}]
AddState == [at : {"idle", "quoted", "in", "purged", "over"}, product : Product]

TypeOK ==
    /\ state \in [Product -> {"active", "inactive", "deleted"}]
    /\ removal \in [Removal -> RemovalState]
    /\ add \in [Add -> AddState]
    /\ pending \subseteq GuestAdd
    /\ late \in [Removal -> SUBSET UserAdd]
    /\ racers \in [Product -> SUBSET UserAdd]
    /\ faults \in 0..MaxFaults

SomeProduct == CHOOSE p \in Product : TRUE

Init ==
    /\ state = [p \in Product |-> "active"]
    /\ removal = [r \in Removal |-> [at |-> "idle", product |-> SomeProduct, call |-> "unsent"]]
    /\ add = [k \in Add |-> [at |-> "idle", product |-> SomeProduct]]
    /\ pending = {}
    /\ late = [r \in Removal |-> {}]
    /\ racers = [p \in Product |-> {}]
    /\ faults = 0

InFlight(r) == removal[r].at \in {"waiting", "committing"}
Queued == {r \in Removal : removal[r].call = "queued"}

Fault == faults < MaxFaults /\ faults' = faults + 1

-----------------------------------------------------------------------------
(* The product service.                                                    *)

Goto(r, place) == removal' = [removal EXCEPT ![r].at = place]

\* connect, START TRANSACTION, the UPDATE is queued, the call is sent: with
\* any id, of a product that is gone too.
Begin(r, p) ==
    /\ removal[r].at = "idle"
    /\ removal' = [removal EXCEPT ![r] = [at |-> "waiting", product |-> p, call |-> "queued"]]
    /\ UNCHANGED <<state, add, pending, late, racers, faults>>

BeginFails(r, p) ==
    /\ removal[r].at = "idle"
    /\ Fault
    /\ removal' = [removal EXCEPT ![r].at = "dbError", ![r].product = p]
    /\ UNCHANGED <<state, add, pending, late, racers>>

\* As Answered, with nobody looking at what the call returned.
AnsweredAnyhow(r) ==
    /\ removal[r].at = "waiting"
    /\ Goto(r, "committing")
    /\ UNCHANGED <<state, add, pending, late, racers, faults>>

Answered(r) ==
    /\ removal[r].at = "waiting"
    /\ removal[r].call = "answered"
    /\ Goto(r, "committing")
    /\ UNCHANGED <<state, add, pending, late, racers, faults>>

\* The UPDATE of a row that was deleted meanwhile changes nothing.
Deactivated(r) ==
    LET p == removal[r].product IN
       IF state[p] # "active" THEN UNCHANGED <<state, racers>>
       ELSE /\ state' = [state EXCEPT ![p] = "inactive"]
            /\ racers' = [racers EXCEPT ![p] =
                            {k \in late[r] : add[k].product = p /\ add[k].at \in {"quoted", "in"}}]

Commit(r) ==
    /\ removal[r].at = "committing"
    /\ Deactivated(r)
    /\ Goto(r, "ok")
    /\ UNCHANGED <<add, pending, late, faults>>

\* COMMIT that throws may have been performed.
CommitFails(r) ==
    /\ removal[r].at = "committing"
    /\ Fault
    /\ Deactivated(r) \/ UNCHANGED <<state, racers>>
    /\ Goto(r, "commitFailed")
    /\ UNCHANGED <<add, pending, late>>

\* As TimesOut, if the timer were stopped when the cart service takes the call.
TimesOutInQueue(r) ==
    /\ removal[r].at = "waiting"
    /\ removal[r].call = "queued"
    /\ Goto(r, "timeout")
    /\ UNCHANGED <<state, add, pending, late, racers, faults>>

\* 10 s without an answer; the call stays where it is.
TimesOut(r) ==
    /\ removal[r].at = "waiting"
    /\ Goto(r, "timeout")
    /\ UNCHANGED <<state, add, pending, late, racers, faults>>

Refused(r) ==
    /\ removal[r].at = "waiting"
    /\ removal[r].call \in {"refused", "unsure"}
    /\ Goto(r, "refused")
    /\ UNCHANGED <<state, add, pending, late, racers, faults>>

\* The process ends: by itself, or because an UPDATE nobody awaits failed.
\* A COMMIT on the way is CommitFails followed by this.
ProductServiceDies ==
    /\ Fault
    /\ \E r \in Removal : InFlight(r)
    /\ removal' = [r \in Removal |-> IF InFlight(r) THEN [removal[r] EXCEPT !.at = "crashed"]
                                     ELSE removal[r]]
    /\ UNCHANGED <<state, add, pending, late, racers>>

\* DELETE /api/products/delete/:id tells the carts nothing.
DeleteProduct(p) ==
    /\ state[p] # "deleted"
    /\ state' = [state EXCEPT ![p] = "deleted"]
    /\ UNCHANGED <<removal, add, pending, late, racers, faults>>

-----------------------------------------------------------------------------
(* The cart service.                                                       *)

\* The rows of users' carts that the DELETE of a removal finds.
Purged(R) ==
    [k \in Add |-> IF k \in UserAdd /\ add[k].at = "in" /\ \E r \in R : removal[r].product = add[k].product
                   THEN [add[k] EXCEPT !.at = "purged"] ELSE add[k]]

Absent == {k \in UserAdd : add[k].at # "in"}

\* REMOVE_CART_ITEM, whether its caller still waits or not.
Handle(r) ==
    /\ removal[r].call = "queued"
    /\ add' = Purged({r})
    /\ removal' = [removal EXCEPT ![r].call = "answered"]
    /\ late' = [late EXCEPT ![r] = Absent]
    /\ UNCHANGED <<state, pending, racers, faults>>

\* As HandleFails, with the DELETE outside of the transaction.
HandleFailsLate(r) ==
    /\ removal[r].call = "queued"
    /\ Fault
    /\ add' = Purged({r})
    /\ removal' = [removal EXCEPT ![r].call = "refused"]
    /\ UNCHANGED <<state, pending, late, racers>>

\* Rolled back; convertRpcException hands the caller an error.
HandleFails(r) ==
    /\ removal[r].call = "queued"
    /\ Fault
    /\ removal' = [removal EXCEPT ![r].call = "refused"]
    /\ UNCHANGED <<state, add, pending, late, racers>>

\* COMMIT throws after the server has performed it: the caller is told that
\* nothing was done.
HandleCommitFails(r) ==
    /\ removal[r].call = "queued"
    /\ Fault
    /\ add' = Purged({r})
    /\ removal' = [removal EXCEPT ![r].call = "unsure"]
    /\ UNCHANGED <<state, pending, late, racers>>

\* The process ends: calls it had taken are lost (noAck), done or not, and so
\* is every request under way.
CartServiceDies ==
    \E lost \in SUBSET Queued : \E done \in SUBSET lost :
       /\ removal' = [r \in Removal |-> IF r \in lost THEN [removal[r] EXCEPT !.call = "lost"]
                                        ELSE removal[r]]
       /\ add' = [k \in Add |-> IF add[k].at = "quoted" THEN [add[k] EXCEPT !.at = "over"]
                                ELSE Purged(done)[k]]
       /\ pending' = {}
       /\ UNCHANGED <<state, late, racers>>

CartServiceCrashes ==
    /\ Fault
    /\ CartServiceDies

\* As Quote, with inactive products answered for.
QuoteAny(k, p) ==
    /\ k \in UserAdd
    /\ add[k].at = "idle"
    /\ add' = [add EXCEPT ![k] = [at |-> IF state[p] # "deleted" THEN "quoted" ELSE "over",
                                  product |-> p]]
    /\ UNCHANGED <<state, removal, pending, late, racers, faults>>

\* createCartItem as far as the answer to GET_PRODUCT_BY_ID.
Quote(k, p) ==
    /\ k \in UserAdd
    /\ add[k].at = "idle"
    /\ add' = [add EXCEPT ![k] = [at |-> IF state[p] = "active" THEN "quoted" ELSE "over",
                                  product |-> p]]
    /\ UNCHANGED <<state, removal, pending, late, racers, faults>>

\* The rest of it: CartItems has the statements.
Insert(k) ==
    /\ add[k].at = "quoted"
    /\ add' = [add EXCEPT ![k].at = "in"]
    /\ UNCHANGED <<state, removal, pending, late, racers, faults>>

\* The item is taken out, or bought.
Leave(k) ==
    /\ add[k].at = "in"
    /\ add' = [add EXCEPT ![k].at = "over"]
    /\ UNCHANGED <<state, removal, pending, late, racers, faults>>

\* createForGuest sends the same call, does not await it and inserts.
InsertForGuest(g, p) ==
    /\ add[g].at = "idle"
    /\ add' = [add EXCEPT ![g] = [at |-> "in", product |-> p]]
    /\ pending' = pending \cup {g}
    /\ UNCHANGED <<state, removal, late, racers, faults>>

LookedUpForGuest(g) ==
    /\ g \in pending
    /\ state[add[g].product] = "active"
    /\ pending' = pending \ {g}
    /\ UNCHANGED <<state, removal, add, late, racers, faults>>

\* Nobody handles the rejection, and Node ends the process.
LookupRejectedForGuest(g) ==
    /\ g \in pending
    /\ state[add[g].product] # "active"
    /\ CartServiceDies
    /\ UNCHANGED faults

-----------------------------------------------------------------------------
\* The steps that the product service takes for a removal by itself.
Progress(r) == Answered(r) \/ Commit(r) \/ TimesOut(r) \/ Refused(r)

Next ==
    \/ \E r \in Removal : Progress(r) \/ CommitFails(r)
    \/ \E r \in Removal : Handle(r) \/ HandleFails(r) \/ HandleCommitFails(r)
    \/ \E r \in Removal, p \in Product : Begin(r, p) \/ BeginFails(r, p)
    \/ \E p \in Product : DeleteProduct(p)
    \/ \E k \in UserAdd, p \in Product : Quote(k, p)
    \/ \E k \in Add : Insert(k) \/ Leave(k)
    \/ \E g \in GuestAdd, p \in Product : InsertForGuest(g, p)
    \/ \E g \in GuestAdd : LookedUpForGuest(g) \/ LookupRejectedForGuest(g)
    \/ ProductServiceDies \/ CartServiceCrashes

Spec == Init /\ [][Next]_vars
FairSpec == Spec /\ \A r \in Removal : WF_vars(Progress(r))

-----------------------------------------------------------------------------
(* Properties.                                                             *)

\* "Purges cart items referencing a deleted product across all carts": once
\* a product is inactive it is in a user's cart only through a request that
\* had not inserted it when the purge ran and had been quoted a price when
\* the product was deactivated.  (Guests' rows are never purged.)
OnlyRacersRemain ==
    \A k \in UserAdd : add[k].at = "in" /\ state[add[k].product] = "inactive"
                       => k \in racers[add[k].product]

\* Rows of a product that is kept go only with a removal that is under way,
\* timed out, crashed or for which one of the two COMMITs threw: a call that
\* was refused for any other reason has purged nothing.
PurgeHasCulprit ==
    \A k \in UserAdd : add[k].at = "purged" /\ state[add[k].product] = "active" =>
       \E r \in Removal : /\ removal[r].product = add[k].product
                          /\ \/ InFlight(r)
                             \/ removal[r].at \in {"timeout", "crashed", "commitFailed"}
                             \/ removal[r].call = "unsure"

\* Where a removal stands, what has become of its call, what it has done.
Phases ==
    \A r \in Removal :
       /\ removal[r].at \in {"idle", "dbError"} <=> removal[r].call = "unsent"
       /\ removal[r].at \in {"committing", "ok"} => removal[r].call = "answered"
       /\ removal[r].at = "refused" => removal[r].call \in {"refused", "unsure"}
       /\ removal[r].at = "ok" => state[removal[r].product] # "active"

\* Whom a purge that was answered did not meet: who came later, who is gone,
\* and the rows of other products.
PurgeIsComplete ==
    \A r \in Removal, k \in UserAdd : removal[r].call = "answered" =>
       \/ k \in late[r]
       \/ add[k].at \in {"purged", "over"}
       \/ add[k].at = "in" /\ add[k].product # removal[r].product

RacersOnTheWay ==
    \A k \in UserAdd : add[k].at \in {"quoted", "in"} /\ state[add[k].product] = "inactive"
                       => k \in racers[add[k].product]

PurgedByACall ==
    \A k \in UserAdd : add[k].at = "purged" =>
       \E r \in Removal : /\ removal[r].product = add[k].product
                          /\ removal[r].call \in {"answered", "unsure", "lost"}

\* The invariant of the proofs: what is true of every call, purge and racer
\* on the way to the two properties above.
IInv == TypeOK /\ Phases /\ PurgeIsComplete /\ RacersOnTheWay /\ PurgedByACall

\* A removal ends, whatever becomes of its call and of the cart service.
EveryRemovalEnds == \A r \in Removal : removal[r].at = "waiting" ~> removal[r].at \in Ends

=============================================================================
