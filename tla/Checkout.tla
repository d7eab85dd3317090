------------------------------ MODULE Checkout ------------------------------
(***************************************************************************)
(* The checkout saga of apps/order and the half of apps/cart it talks to.  *)
(*                                                                         *)
(* A request is one call of OrderService.placeOrder.  It asks the cart     *)
(* service for the user's cart (GET_CART_BY_USER), writes the order row in *)
(* an open transaction, asks the cart service to delete the cart           *)
(* (DELETE_CART), commits once the deletion is acknowledged, and only then *)
(* inserts the order items one by one on a second pooled connection.       *)
(*                                                                         *)
(* The two services share nothing but RabbitMQ.  A call may be lost before *)
(* or after it is handled (the consumers run with noAck = true), and its   *)
(* handler may run after the caller's 10 s timeout has fired.              *)
(***************************************************************************)
EXTENDS Naturals, FiniteSets

CONSTANTS
    User,       \* the users who own carts
    Request,    \* placeOrder calls
    Cart,       \* ids of cart rows, never reused (uuid); bounds the carts made
    Line,       \* ids of cart_item rows: one product and one quantity each
    Visit,      \* concurrent getUserCart calls
    NoCart,     \* no cart row
    NoUser,     \* no user
    PoolSize,   \* connections of the order service's pool (pg: 10)
    MaxCrashes  \* bound on restarts of the order service

ASSUME NoCartAssumption == NoCart \notin Cart
ASSUME NoUserAssumption == NoUser \notin User
ASSUME PoolAssumption == PoolSize \in Nat \ {0}
ASSUME CrashAssumption == MaxCrashes \in Nat

VARIABLES
    pc,         \* where each placeOrder call stands, or how it ended
    by,         \* its user
    method,     \* its payment_method
    found,      \* the cart its findCart was answered with
    order,      \* its row in the order table
    inserted,   \* the lines its order has an order_item row for
    getCall,    \* the GET_CART_BY_USER call
    delCall,    \* the DELETE_CART call
    cartState,  \* the cart table: does the row exist
    cartOwner,  \* its user_id
    cartLines,  \* its cart_item rows
    visit,      \* getUserCart calls that found no cart and will insert one
    crashes     \* restarts so far

saga   == <<pc, by, method, found>>
orders == <<order, inserted>>
bus    == <<getCall, delCall>>
carts  == <<cartState, cartOwner, cartLines>>
vars   == <<saga, orders, bus, carts, visit, crashes>>

Waiting   == {"findCart", "deleteCart"}
Holding   == {"save", "deleteCart", "commit", "insertItems", "insertRow"}
Working   == Holding \cup {"findCart", "connect", "payment"}
Failed    == {"emptyCart", "findFailed", "dbError", "deleteRefused", "deleteTimeout",
              "commitFailed", "itemsFailed", "paymentFailed", "crashed"}
Ended     == Failed \cup {"ok"}
CallState == {"unsent", "queued", "answered", "refused", "unsure", "lost"}
Method    == {"COD", "STRIPE"}
CartReply == [cart : Cart \cup {NoCart}, lines : SUBSET Line]

NoReply == [cart |-> NoCart, lines |-> {}]

TypeOK ==
    /\ pc \in [Request -> {"idle"} \cup Working \cup Ended]
    /\ by \in [Request -> User \cup {NoUser}]
    /\ method \in [Request -> Method]
    /\ found \in [Request -> CartReply]
    /\ order \in [Request -> {"none", "uncommitted", "committed", "deleted"}]
    /\ inserted \in [Request -> SUBSET Line]
    /\ getCall \in [Request -> CallState]
    /\ delCall \in [Request -> CallState]
    /\ cartState \in [Cart -> {"unused", "live", "gone"}]
    /\ cartOwner \in [Cart -> User \cup {NoUser}]
    /\ cartLines \in [Cart -> SUBSET Line]
    /\ visit \in [Visit -> User \cup {NoUser}]
    /\ crashes \in 0..MaxCrashes

Init ==
    /\ pc = [r \in Request |-> "idle"]
    /\ by = [r \in Request |-> NoUser]
    /\ method = [r \in Request |-> "COD"]
    /\ found = [r \in Request |-> NoReply]
    /\ order = [r \in Request |-> "none"]
    /\ inserted = [r \in Request |-> {}]
    /\ getCall = [r \in Request |-> "unsent"]
    /\ delCall = [r \in Request |-> "unsent"]
    /\ cartState = [c \in Cart |-> "unused"]
    /\ cartOwner = [c \in Cart |-> NoUser]
    /\ cartLines = [c \in Cart |-> {}]
    /\ visit = [v \in Visit |-> NoUser]
    /\ crashes = 0

-----------------------------------------------------------------------------
(* The pool of the order service: an open query runner keeps one           *)
(* connection, a row being saved through the repository takes another.     *)

InUse == Cardinality({r \in Request : pc[r] \in Holding})
         + Cardinality({r \in Request : pc[r] = "insertRow"})

FreeConnection == InUse < PoolSize

\* As LiveCarts, when deleted rows are still found.
LiveCartsOrGone(u) == {c \in Cart : cartOwner[c] = u}

LiveCarts(u) == {c \in Cart : cartState[c] = "live" /\ cartOwner[c] = u}

-----------------------------------------------------------------------------
(* The order service.                                                      *)

Goto(r, place) == pc' = [pc EXCEPT ![r] = place]

\* placeOrder -> createOrder -> findCart: the call is published.
Start(r, u, m) ==
    /\ pc[r] = "idle"
    /\ Goto(r, "findCart")
    /\ by' = [by EXCEPT ![r] = u]
    /\ method' = [method EXCEPT ![r] = m]
    /\ getCall' = [getCall EXCEPT ![r] = "queued"]
    /\ UNCHANGED <<found, orders, delCall, carts, visit, crashes>>

\* The cart arrives.  An empty one is a BadRequestException.
ReceiveCart(r) ==
    /\ pc[r] = "findCart"
    /\ getCall[r] = "answered"
    /\ Goto(r, IF found[r].lines = {} THEN "emptyCart" ELSE "connect")
    /\ UNCHANGED <<by, method, found, orders, bus, carts, visit, crashes>>

\* findCart throws: an RpcException came back, or nothing within 10 s.
FindFails(r) ==
    /\ pc[r] = "findCart"
    /\ Goto(r, "findFailed")
    /\ UNCHANGED <<by, method, found, orders, bus, carts, visit, crashes>>

\* queryRunner.connect and startTransaction, once the pool has a connection.
Connect(r) ==
    /\ pc[r] = "connect"
    /\ FreeConnection
    /\ Goto(r, "save")
    /\ UNCHANGED <<by, method, found, orders, bus, carts, visit, crashes>>

\* As SaveOrder, when DELETE_CART is emitted and its answer not awaited.
SaveOrderUnawaited(r) ==
    /\ pc[r] = "save"
    /\ Goto(r, "commit")
    /\ order' = [order EXCEPT ![r] = "uncommitted"]
    /\ delCall' = [delCall EXCEPT ![r] = "queued"]
    /\ UNCHANGED <<by, method, found, inserted, getCall, carts, visit, crashes>>

\* save(order) inside the transaction, then DELETE_CART is published.
SaveOrder(r) ==
    /\ pc[r] = "save"
    /\ Goto(r, "deleteCart")
    /\ order' = [order EXCEPT ![r] = "uncommitted"]
    /\ delCall' = [delCall EXCEPT ![r] = "queued"]
    /\ UNCHANGED <<by, method, found, inserted, getCall, carts, visit, crashes>>

\* As Abort, when the catch block forgets the rollback.
AbortWithoutRollback(r, cause) ==
    /\ Goto(r, cause)
    /\ UNCHANGED <<by, method, found, orders, bus, carts, visit, crashes>>

\* As Abort, when the whole of createOrder were undone.
AbortUndoesCommit(r, cause) ==
    /\ Goto(r, cause)
    /\ order' = [order EXCEPT ![r] = "none"]
    /\ UNCHANGED <<by, method, found, inserted, bus, carts, visit, crashes>>

\* The catch and finally blocks: rollbackTransaction undoes what is not
\* committed (and throws when no transaction is open), then the runner is
\* released.
Abort(r, cause) ==
    /\ Goto(r, cause)
    /\ order' = [order EXCEPT ![r] = IF @ = "uncommitted" THEN "none" ELSE @]
    /\ UNCHANGED <<by, method, found, inserted, bus, carts, visit, crashes>>

\* PostgreSQL refuses the connection, BEGIN or the INSERT of the order.  (A
\* call that waits for the pool does not fail: the pool has no timeout.)
SaveFails(r) ==
    /\ pc[r] = "save"
    /\ Abort(r, "dbError")

\* The acknowledgement of DELETE_CART: ok is true.
ReceiveAck(r) ==
    /\ pc[r] = "deleteCart"
    /\ delCall[r] = "answered"
    /\ Goto(r, "commit")
    /\ UNCHANGED <<by, method, found, orders, bus, carts, visit, crashes>>

DeleteRefused(r) ==
    /\ pc[r] = "deleteCart"
    /\ delCall[r] \in {"refused", "unsure"}
    /\ Abort(r, "deleteRefused")

\* As DeleteTimesOut, when only a refusal ends the wait.
DeleteNeverTimesOut(r) ==
    /\ pc[r] = "deleteCart"
    /\ delCall[r] = "refused"
    /\ Abort(r, "deleteTimeout")

\* No answer within 10 s; the call itself stays where it is.
DeleteTimesOut(r) ==
    /\ pc[r] = "deleteCart"
    /\ Abort(r, "deleteTimeout")

Commit(r) ==
    /\ pc[r] = "commit"
    /\ Goto(r, "insertItems")
    /\ order' = [order EXCEPT ![r] = "committed"]
    /\ UNCHANGED <<by, method, found, inserted, bus, carts, visit, crashes>>

\* commitTransaction throws: the connection broke before or after the
\* server performed COMMIT.
CommitFails(r) ==
    /\ pc[r] = "commit"
    /\ Goto(r, "commitFailed")
    /\ \E outcome \in {"none", "committed"} : order' = [order EXCEPT ![r] = outcome]
    /\ UNCHANGED <<by, method, found, inserted, bus, carts, visit, crashes>>

\* itemService.create: the next insert waits for a connection of its own
\* while the query runner still holds the first.
TakeSecondConnection(r) ==
    /\ pc[r] = "insertItems"
    /\ inserted[r] # found[r].lines
    /\ FreeConnection
    /\ Goto(r, "insertRow")
    /\ UNCHANGED <<by, method, found, orders, bus, carts, visit, crashes>>

\* One order_item row; its foreign key needs the order row.
InsertItem(r, l) ==
    /\ pc[r] = "insertRow"
    /\ l \in found[r].lines \ inserted[r]
    /\ order[r] = "committed"
    /\ Goto(r, "insertItems")
    /\ inserted' = [inserted EXCEPT ![r] = @ \cup {l}]
    /\ UNCHANGED <<by, method, found, order, bus, carts, visit, crashes>>

\* An insert fails.  The catch block's rollback finds no open transaction.
ItemsFail(r) ==
    /\ pc[r] = "insertRow"
    /\ Abort(r, "itemsFailed")

\* As ItemsDone, when itemService.create is not awaited.
ItemsNotAwaited(r) ==
    /\ pc[r] = "insertItems"
    /\ Goto(r, IF method[r] = "COD" THEN "ok" ELSE "payment")
    /\ UNCHANGED <<by, method, found, orders, bus, carts, visit, crashes>>

\* createOrder returns; placeOrder answers a COD order and goes on to the
\* PaymentIntent of a STRIPE one.
ItemsDone(r) ==
    /\ pc[r] = "insertItems"
    /\ inserted[r] = found[r].lines
    /\ Goto(r, IF method[r] = "COD" THEN "ok" ELSE "payment")
    /\ UNCHANGED <<by, method, found, orders, bus, carts, visit, crashes>>

CreatePayment(r) ==
    /\ pc[r] = "payment"
    /\ \E result \in {"ok", "paymentFailed"} : Goto(r, result)
    /\ UNCHANGED <<by, method, found, orders, bus, carts, visit, crashes>>

\* DELETE /orders/:id by an administrator; order_item rows cascade.
DeleteOrder(r) ==
    /\ order[r] = "committed"
    /\ FreeConnection
    /\ order' = [order EXCEPT ![r] = "deleted"]
    /\ UNCHANGED <<saga, inserted, bus, carts, visit, crashes>>

\* The process dies: every call in flight ends unanswered and PostgreSQL
\* rolls its open transactions back.  Nothing resumes them after a restart.
Crash ==
    /\ crashes < MaxCrashes
    /\ \E r \in Request : pc[r] \in Working
    /\ crashes' = crashes + 1
    /\ pc' = [r \in Request |-> IF pc[r] \in Working THEN "crashed" ELSE pc[r]]
    /\ order' = [r \in Request |-> IF order[r] = "uncommitted" THEN "none" ELSE order[r]]
    /\ UNCHANGED <<by, method, found, inserted, bus, carts, visit>>

-----------------------------------------------------------------------------
(* The message bus: at most once.                                          *)

LoseGet(r) ==
    /\ getCall[r] \in {"queued", "answered", "refused"}
    /\ getCall' = [getCall EXCEPT ![r] = "lost"]
    /\ UNCHANGED <<saga, orders, delCall, carts, visit, crashes>>

LoseDelete(r) ==
    /\ delCall[r] \in {"queued", "answered", "refused"}
    /\ delCall' = [delCall EXCEPT ![r] = "lost"]
    /\ UNCHANGED <<saga, orders, getCall, carts, visit, crashes>>

-----------------------------------------------------------------------------
(* The cart service.                                                       *)

\* findCartForOrder: any cart of the user, with its items.
HandleGet(r) ==
    /\ getCall[r] = "queued"
    /\ \E c \in LiveCarts(by[r]) :
          found' = [found EXCEPT ![r] = [cart |-> c, lines |-> cartLines[c]]]
    /\ getCall' = [getCall EXCEPT ![r] = "answered"]
    /\ UNCHANGED <<pc, by, method, orders, delCall, carts, visit, crashes>>

\* NotFoundException or a database error, as an RpcException.
RefuseGet(r) ==
    /\ getCall[r] = "queued"
    /\ getCall' = [getCall EXCEPT ![r] = "refused"]
    /\ UNCHANGED <<saga, orders, delCall, carts, visit, crashes>>

\* As HandleDelete, when carts are deleted by user_id.
HandleDeleteByUser(r) ==
    /\ delCall[r] = "queued"
    /\ cartState' = [c \in Cart |-> IF cartState[c] = "live" /\ cartOwner[c] = by[r]
                                    THEN "gone" ELSE cartState[c]]
    /\ cartLines' = [c \in Cart |-> IF cartOwner[c] = by[r] THEN {} ELSE cartLines[c]]
    /\ delCall' = [delCall EXCEPT ![r] = "answered"]
    /\ UNCHANGED <<saga, orders, getCall, cartOwner, visit, crashes>>

\* placeOrder(cartId): delete the row, cascading to its items, and answer
\* true, whether or not the row was still there; or COMMIT throws after the
\* server performed it, and the caller gets an error.
HandleDelete(r) ==
    /\ delCall[r] = "queued"
    /\ cartState' = [cartState EXCEPT ![found[r].cart] = "gone"]
    /\ cartLines' = [cartLines EXCEPT ![found[r].cart] = {}]
    /\ \E reply \in {"answered", "unsure"} : delCall' = [delCall EXCEPT ![r] = reply]
    /\ UNCHANGED <<saga, orders, getCall, cartOwner, visit, crashes>>

\* The cart service's transaction fails and is rolled back.
RefuseDelete(r) ==
    /\ delCall[r] = "queued"
    /\ delCall' = [delCall EXCEPT ![r] = "refused"]
    /\ UNCHANGED <<saga, orders, getCall, carts, visit, crashes>>

\* getUserCart finds no cart of the user ...
VisitFindsNone(v, u) ==
    /\ visit[v] = NoUser
    /\ LiveCarts(u) = {}
    /\ visit' = [visit EXCEPT ![v] = u]
    /\ UNCHANGED <<saga, orders, bus, carts, crashes>>

\* ... and inserts one, although another call may have done so since.
VisitCreates(v, c) ==
    /\ visit[v] # NoUser
    /\ cartState[c] = "unused"
    /\ cartState' = [cartState EXCEPT ![c] = "live"]
    /\ cartOwner' = [cartOwner EXCEPT ![c] = visit[v]]
    /\ visit' = [visit EXCEPT ![v] = NoUser]
    /\ UNCHANGED <<saga, orders, bus, cartLines, crashes>>

\* The INSERT of ItemService.create; its foreign key needs the cart row.
AddLine(c, l) ==
    /\ cartState[c] = "live"
    /\ \A d \in Cart : l \notin cartLines[d]
    /\ cartLines' = [cartLines EXCEPT ![c] = @ \cup {l}]
    /\ UNCHANGED <<saga, orders, bus, cartState, cartOwner, visit, crashes>>

\* The DELETE of ItemService.delete or removeCartItemForProduct.
RemoveLine(c, l) ==
    /\ l \in cartLines[c]
    /\ cartLines' = [cartLines EXCEPT ![c] = @ \ {l}]
    /\ UNCHANGED <<saga, orders, bus, cartState, cartOwner, visit, crashes>>

-----------------------------------------------------------------------------
\* What the order service does next for a call it has accepted.
Progress(r) ==
    \/ ReceiveCart(r) \/ FindFails(r)
    \/ Connect(r) \/ SaveOrder(r) \/ SaveFails(r)
    \/ ReceiveAck(r) \/ DeleteRefused(r) \/ DeleteTimesOut(r)
    \/ Commit(r) \/ CommitFails(r)
    \/ TakeSecondConnection(r) \/ (\E l \in Line : InsertItem(r, l))
    \/ ItemsFail(r) \/ ItemsDone(r) \/ CreatePayment(r)

Bus(r) == LoseGet(r) \/ LoseDelete(r)

CartService(r) == HandleGet(r) \/ RefuseGet(r) \/ HandleDelete(r) \/ RefuseDelete(r)

Shopping ==
    \/ \E v \in Visit, u \in User : VisitFindsNone(v, u)
    \/ \E v \in Visit, c \in Cart : VisitCreates(v, c)
    \/ \E c \in Cart, l \in Line : AddLine(c, l) \/ RemoveLine(c, l)

Next ==
    \/ \E r \in Request, u \in User, m \in Method : Start(r, u, m)
    \/ \E r \in Request : Progress(r) \/ DeleteOrder(r) \/ Bus(r) \/ CartService(r)
    \/ Crash
    \/ Shopping

Spec == Init /\ [][Next]_vars

\* Node's event loop runs whatever is ready: a call whose next step stays
\* possible takes it.  Users, administrators, the bus and the cart service
\* owe nothing.
FairSpec == Spec /\ \A r \in Request : WF_vars(Progress(r))

-----------------------------------------------------------------------------
(* Properties.                                                             *)

Placed(r) == order[r] \in {"committed", "deleted"}

\* An order is committed only when the cart it was made from no longer
\* exists: the acknowledgement of DELETE_CART precedes the COMMIT on every
\* path, and no cart comes back.
CommittedOrderRetiresCart ==
    \A r \in Request : Placed(r) => /\ found[r].cart \in Cart
                                   /\ cartState[found[r].cart] = "gone"

\* A caller told that its order was placed has an order, and that order got
\* an order_item row for every line of the cart that was read.
AnsweredMeansComplete ==
    \A r \in Request : pc[r] = "ok" => /\ Placed(r)
                                       /\ inserted[r] = found[r].lines

\* Whatever way createOrder ends, no transaction stays open on the
\* connection it hands back to the pool.
NoTransactionLeftOpen ==
    \A r \in Request : order[r] = "uncommitted" => pc[r] \in {"deleteCart", "commit"}

\* A cart that disappeared without any order made from it was deleted for a
\* request that read it, and that request is still waiting, timed out on
\* DELETE_CART, met a COMMIT that threw (its own or the cart service's), or
\* died with the process.  Nothing else loses a cart.
LostCartHasCulprit ==
    \A c \in Cart :
        cartState[c] = "gone" =>
            \E r \in Request :
                /\ found[r].cart = c
                /\ \/ Placed(r)
                   \/ /\ delCall[r] \in {"answered", "unsure", "lost"}
                      /\ pc[r] \in {"deleteCart", "commit", "deleteTimeout",
                                    "commitFailed", "crashed"}
                   \/ delCall[r] = "unsure" /\ pc[r] = "deleteRefused"

\* No request is handed a cart from which an order has already been
\* committed: two orders from one cart need two overlapping requests.
NoResale ==
    [][\A r, s \in Request :
          getCall[r] = "queued" /\ getCall'[r] = "answered" /\ Placed(s)
              => found'[r].cart # found[s].cart]_vars

\* A committed order row disappears by an administrator's delete only; in
\* particular no failure after the COMMIT undoes it, and what was inserted
\* for it stays.
CommitIsFinal ==
    [][\A r \in Request : Placed(r) => /\ Placed(r)'
                                      /\ inserted[r] \subseteq inserted'[r]]_vars

\* Every accepted checkout ends, with an answer or an error, however the bus
\* and the cart service behave: both waits have a timeout.
EveryCheckoutEnds == \A r \in Request : pc[r] = "findCart" ~> pc[r] \in Ended

\* The saga keeps the promise of CheckoutPromise.
Promise ==
    INSTANCE CheckoutPromise WITH
        taken  <- {c \in Cart : cartState[c] = "gone"},
        placed <- [r \in Request |-> IF Placed(r) THEN found[r].cart ELSE NoCart],
        filled <- {r \in Request : Placed(r) /\ inserted[r] = found[r].lines},
        reply  <- [r \in Request |-> IF pc[r] = "idle" THEN "none"
                                     ELSE IF pc[r] = "ok" THEN "ok"
                                     ELSE IF pc[r] \in Failed THEN "error"
                                     ELSE "pending"]

KeepsPromise == Promise!Spec

-----------------------------------------------------------------------------
(* The inductive invariant behind these properties.                        *)

\* r was answered with a cart, which no later answer can replace.
HasCart(r) ==
    /\ getCall[r] \in {"answered", "refused", "lost"}
    /\ found[r].cart \in Cart

\* r's own DELETE_CART was handled.
Retired(r) ==
    /\ delCall[r] \in {"answered", "lost"}
    /\ cartState[found[r].cart] = "gone"

\* How far the calls and tables are at each place of placeOrder: no cart is
\* deleted on behalf of a request that was not handed it, and past its
\* "commit" step a request has both retired its cart and placed its order.
Phases ==
    \A r \in Request :
        /\ pc[r] = "idle" => getCall[r] = "unsent"
        /\ getCall[r] = "answered" => HasCart(r)
        /\ pc[r] \in {"connect", "payment", "ok"} \cup Holding => HasCart(r)
        /\ pc[r] \in {"idle", "findCart", "connect", "save"} => delCall[r] = "unsent"
        /\ delCall[r] # "unsent" => HasCart(r)
        /\ delCall[r] = "queued" => pc[r] \in {"deleteCart", "deleteTimeout", "crashed"}
        /\ delCall[r] = "answered" => Retired(r)
        /\ pc[r] = "commit" => Retired(r)
        /\ Placed(r) => /\ Retired(r)
                        /\ pc[r] \in {"insertItems", "insertRow", "payment", "ok", "crashed",
                                     "commitFailed", "itemsFailed", "paymentFailed"}
        /\ pc[r] \in {"insertItems", "insertRow", "payment", "ok",
                     "itemsFailed", "paymentFailed"} => Placed(r)
        /\ pc[r] \in {"payment", "ok"} => inserted[r] = found[r].lines
        /\ pc[r] \in {"idle", "findCart", "connect", "save", "deleteCart", "commit"} =>
              inserted[r] = {}
        /\ pc[r] \in {"connect", "save", "deleteCart", "commit"} => found[r].lines # {}

IInv == TypeOK /\ Phases /\ NoTransactionLeftOpen /\ LostCartHasCulprit

=============================================================================
