--------------------------- MODULE CheckoutProofs ---------------------------
(***************************************************************************)
(* Proofs about Checkout for any number of users, requests, carts, lines,  *)
(* visits and restarts and any pool size: the saga's inductive invariant   *)
(* IInv, the safety properties that follow from it, and the refinement of  *)
(* CheckoutPromise.                                                        *)
(*                                                                         *)
(* IInv is needed because CommittedOrderRetiresCart speaks of committed    *)
(* orders only, while what makes it true happens two steps earlier: the    *)
(* cart is gone as soon as the DELETE_CART of a request that holds its id  *)
(* is acknowledged.  Phases records that for every place of placeOrder.    *)
(***************************************************************************)
EXTENDS Checkout, TLAPS

-----------------------------------------------------------------------------
(* The initial states, and one lemma per action.                           *)

\* The invariant holds of empty tables and idle requests.
LEMMA InitIInv == Init => IInv
BY NoCartAssumption, NoUserAssumption, CrashAssumption
   DEF Init, IInv, TypeOK, Phases, NoTransactionLeftOpen, LostCartHasCulprit, Placed,
       Holding, HasCart, Retired, Working, CallState, Method, CartReply, NoReply

\* Start (placeOrder) keeps the invariant.
LEMMA StartStep ==
    ASSUME NEW r \in Request, NEW u \in User, NEW m \in Method, IInv, Start(r, u, m)
    PROVE  IInv'
<1> USE DEF IInv
<1>1. TypeOK'
  BY DEF TypeOK, Start, Goto, orders, carts, Working, Holding, Ended, Failed,
         CallState, CartReply, Method
<1>2. Phases'
  BY DEF TypeOK, Phases, NoTransactionLeftOpen, Start, Goto, orders, carts, Placed,
         HasCart, Retired, Working, Holding, CartReply
<1>3. NoTransactionLeftOpen'
  BY DEF TypeOK, Phases, NoTransactionLeftOpen, Start, Goto, orders, carts, Working,
         Holding
<1>4. LostCartHasCulprit'
  BY DEF TypeOK, Phases, LostCartHasCulprit, Start, Goto, orders, carts, Placed,
         HasCart, Retired, Working, Holding
<1> QED  BY <1>1, <1>2, <1>3, <1>4

\* ReceiveCart (createOrder) keeps the invariant.
LEMMA ReceiveCartStep ==
    ASSUME NEW r \in Request, IInv, ReceiveCart(r)
    PROVE  IInv'
<1> USE DEF IInv
<1>1. TypeOK'
  BY DEF TypeOK, ReceiveCart, Goto, orders, bus, carts, Working, Holding, Ended,
         Failed, CallState, CartReply, Method
<1>2. Phases'
  BY DEF TypeOK, Phases, NoTransactionLeftOpen, ReceiveCart, Goto, orders, bus,
         carts, Placed, HasCart, Retired, Working, Holding, CartReply
<1>3. NoTransactionLeftOpen'
  BY DEF TypeOK, Phases, NoTransactionLeftOpen, ReceiveCart, Goto, orders, bus,
         carts, Working, Holding
<1>4. LostCartHasCulprit'
  BY DEF TypeOK, Phases, LostCartHasCulprit, ReceiveCart, Goto, orders, bus, carts,
         Placed, HasCart, Retired, Working, Holding
<1> QED  BY <1>1, <1>2, <1>3, <1>4

\* FindFails (findCart) keeps the invariant.
LEMMA FindFailsStep ==
    ASSUME NEW r \in Request, IInv, FindFails(r)
    PROVE  IInv'
<1> USE DEF IInv
<1>1. TypeOK'
  BY DEF TypeOK, FindFails, Goto, orders, bus, carts, Working, Holding, Ended,
         Failed, CallState, CartReply, Method
<1>2. Phases'
  BY DEF TypeOK, Phases, NoTransactionLeftOpen, FindFails, Goto, orders, bus, carts,
         Placed, HasCart, Retired, Working, Holding, CartReply
<1>3. NoTransactionLeftOpen'
  BY DEF TypeOK, Phases, NoTransactionLeftOpen, FindFails, Goto, orders, bus, carts,
         Working, Holding
<1>4. LostCartHasCulprit'
  BY DEF TypeOK, Phases, LostCartHasCulprit, FindFails, Goto, orders, bus, carts,
         Placed, HasCart, Retired, Working, Holding
<1> QED  BY <1>1, <1>2, <1>3, <1>4

\* Connect (createOrder) keeps the invariant.
LEMMA ConnectStep ==
    ASSUME NEW r \in Request, IInv, Connect(r)
    PROVE  IInv'
<1> USE DEF IInv
<1>1. TypeOK'
  BY DEF TypeOK, Connect, Goto, orders, bus, carts, Working, Holding, Ended, Failed,
         CallState, CartReply, Method
<1>2. Phases'
  BY DEF TypeOK, Phases, NoTransactionLeftOpen, Connect, Goto, orders, bus, carts,
         Placed, HasCart, Retired, Working, Holding, CartReply
<1>3. NoTransactionLeftOpen'
  BY DEF TypeOK, Phases, NoTransactionLeftOpen, Connect, Goto, orders, bus, carts,
         Working, Holding
<1>4. LostCartHasCulprit'
  BY DEF TypeOK, Phases, LostCartHasCulprit, Connect, Goto, orders, bus, carts,
         Placed, HasCart, Retired, Working, Holding
<1> QED  BY <1>1, <1>2, <1>3, <1>4

\* SaveOrder (createOrder) keeps the invariant.
LEMMA SaveOrderStep ==
    ASSUME NEW r \in Request, IInv, SaveOrder(r)
    PROVE  IInv'
<1> USE DEF IInv
<1>1. TypeOK'
  BY DEF TypeOK, SaveOrder, Goto, carts, Working, Holding, Ended, Failed, CallState,
         CartReply, Method
<1>2. Phases'
  BY DEF TypeOK, Phases, NoTransactionLeftOpen, SaveOrder, Goto, carts, Placed,
         HasCart, Retired, Working, Holding, CartReply
<1>3. NoTransactionLeftOpen'
  BY DEF TypeOK, Phases, NoTransactionLeftOpen, SaveOrder, Goto, carts, Working,
         Holding
<1>4. LostCartHasCulprit'
  BY DEF TypeOK, Phases, LostCartHasCulprit, SaveOrder, Goto, carts, Placed,
         HasCart, Retired, Working, Holding
<1> QED  BY <1>1, <1>2, <1>3, <1>4

\* SaveFails (createOrder) keeps the invariant.
LEMMA SaveFailsStep ==
    ASSUME NEW r \in Request, IInv, SaveFails(r)
    PROVE  IInv'
<1> USE DEF IInv
<1>1. TypeOK'
  BY DEF TypeOK, SaveFails, Abort, Goto, bus, carts, Working, Holding, Ended,
         Failed, CallState, CartReply, Method
<1>2. Phases'
  BY DEF TypeOK, Phases, NoTransactionLeftOpen, SaveFails, Abort, Goto, bus, carts,
         Placed, HasCart, Retired, Working, Holding, CartReply
<1>3. NoTransactionLeftOpen'
  BY DEF TypeOK, Phases, NoTransactionLeftOpen, SaveFails, Abort, Goto, bus, carts,
         Working, Holding
<1>4. LostCartHasCulprit'
  BY DEF TypeOK, Phases, LostCartHasCulprit, SaveFails, Abort, Goto, bus, carts,
         Placed, HasCart, Retired, Working, Holding
<1> QED  BY <1>1, <1>2, <1>3, <1>4

\* ReceiveAck (createOrder) keeps the invariant.
LEMMA ReceiveAckStep ==
    ASSUME NEW r \in Request, IInv, ReceiveAck(r)
    PROVE  IInv'
<1> USE DEF IInv
<1>1. TypeOK'
  BY DEF TypeOK, ReceiveAck, Goto, orders, bus, carts, Working, Holding, Ended,
         Failed, CallState, CartReply, Method
<1>2. Phases'
  BY DEF TypeOK, Phases, NoTransactionLeftOpen, ReceiveAck, Goto, orders, bus,
         carts, Placed, HasCart, Retired, Working, Holding, CartReply
<1>3. NoTransactionLeftOpen'
  BY DEF TypeOK, Phases, NoTransactionLeftOpen, ReceiveAck, Goto, orders, bus,
         carts, Working, Holding
<1>4. LostCartHasCulprit'
  BY DEF TypeOK, Phases, LostCartHasCulprit, ReceiveAck, Goto, orders, bus, carts,
         Placed, HasCart, Retired, Working, Holding
<1> QED  BY <1>1, <1>2, <1>3, <1>4

\* DeleteRefused (createOrder) keeps the invariant.
LEMMA DeleteRefusedStep ==
    ASSUME NEW r \in Request, IInv, DeleteRefused(r)
    PROVE  IInv'
<1> USE DEF IInv
<1>1. TypeOK'
  BY DEF TypeOK, DeleteRefused, Abort, Goto, bus, carts, Working, Holding, Ended,
         Failed, CallState, CartReply, Method
<1>2. Phases'
  BY DEF TypeOK, Phases, NoTransactionLeftOpen, DeleteRefused, Abort, Goto, bus,
         carts, Placed, HasCart, Retired, Working, Holding, CartReply
<1>3. NoTransactionLeftOpen'
  BY DEF TypeOK, Phases, NoTransactionLeftOpen, DeleteRefused, Abort, Goto, bus,
         carts, Working, Holding
<1>4. LostCartHasCulprit'
  BY DEF TypeOK, Phases, LostCartHasCulprit, DeleteRefused, Abort, Goto, bus, carts,
         Placed, HasCart, Retired, Working, Holding
<1> QED  BY <1>1, <1>2, <1>3, <1>4

\* DeleteTimesOut (createOrder) keeps the invariant.
LEMMA DeleteTimesOutStep ==
    ASSUME NEW r \in Request, IInv, DeleteTimesOut(r)
    PROVE  IInv'
<1> USE DEF IInv
<1>1. TypeOK'
  BY DEF TypeOK, DeleteTimesOut, Abort, Goto, bus, carts, Working, Holding, Ended,
         Failed, CallState, CartReply, Method
<1>2. Phases'
  BY DEF TypeOK, Phases, NoTransactionLeftOpen, DeleteTimesOut, Abort, Goto, bus,
         carts, Placed, HasCart, Retired, Working, Holding, CartReply
<1>3. NoTransactionLeftOpen'
  BY DEF TypeOK, Phases, NoTransactionLeftOpen, DeleteTimesOut, Abort, Goto, bus,
         carts, Working, Holding
<1>4. LostCartHasCulprit'
  BY DEF TypeOK, Phases, LostCartHasCulprit, DeleteTimesOut, Abort, Goto, bus,
         carts, Placed, HasCart, Retired, Working, Holding
<1> QED  BY <1>1, <1>2, <1>3, <1>4

\* Commit (createOrder) keeps the invariant.
LEMMA CommitStep ==
    ASSUME NEW r \in Request, IInv, Commit(r)
    PROVE  IInv'
<1> USE DEF IInv
<1>1. TypeOK'
  BY DEF TypeOK, Commit, Goto, bus, carts, Working, Holding, Ended, Failed,
         CallState, CartReply, Method
<1>2. Phases'
  BY DEF TypeOK, Phases, NoTransactionLeftOpen, Commit, Goto, bus, carts, Placed,
         HasCart, Retired, Working, Holding, CartReply
<1>3. NoTransactionLeftOpen'
  BY DEF TypeOK, Phases, NoTransactionLeftOpen, Commit, Goto, bus, carts, Working,
         Holding
<1>4. LostCartHasCulprit'
  BY DEF TypeOK, Phases, LostCartHasCulprit, Commit, Goto, bus, carts, Placed,
         HasCart, Retired, Working, Holding
<1> QED  BY <1>1, <1>2, <1>3, <1>4

\* CommitFails (createOrder) keeps the invariant.
LEMMA CommitFailsStep ==
    ASSUME NEW r \in Request, IInv, CommitFails(r)
    PROVE  IInv'
<1> USE DEF IInv
<1>1. TypeOK'
  BY DEF TypeOK, CommitFails, Goto, bus, carts, Working, Holding, Ended, Failed,
         CallState, CartReply, Method
<1>2. Phases'
  BY DEF TypeOK, Phases, NoTransactionLeftOpen, CommitFails, Goto, bus, carts,
         Placed, HasCart, Retired, Working, Holding, CartReply
<1>3. NoTransactionLeftOpen'
  BY DEF TypeOK, Phases, NoTransactionLeftOpen, CommitFails, Goto, bus, carts,
         Working, Holding
<1>4. LostCartHasCulprit'
  BY DEF TypeOK, Phases, LostCartHasCulprit, CommitFails, Goto, bus, carts, Placed,
         HasCart, Retired, Working, Holding
<1> QED  BY <1>1, <1>2, <1>3, <1>4

\* TakeSecondConnection (create) keeps the invariant.
LEMMA TakeSecondConnectionStep ==
    ASSUME NEW r \in Request, IInv, TakeSecondConnection(r)
    PROVE  IInv'
<1> USE DEF IInv
<1>1. TypeOK'
  BY DEF TypeOK, TakeSecondConnection, Goto, orders, bus, carts, Working, Holding,
         Ended, Failed, CallState, CartReply, Method
<1>2. Phases'
  BY DEF TypeOK, Phases, NoTransactionLeftOpen, TakeSecondConnection, Goto, orders,
         bus, carts, Placed, HasCart, Retired, Working, Holding, CartReply
<1>3. NoTransactionLeftOpen'
  BY DEF TypeOK, Phases, NoTransactionLeftOpen, TakeSecondConnection, Goto, orders,
         bus, carts, Working, Holding
<1>4. LostCartHasCulprit'
  BY DEF TypeOK, Phases, LostCartHasCulprit, TakeSecondConnection, Goto, orders,
         bus, carts, Placed, HasCart, Retired, Working, Holding
<1> QED  BY <1>1, <1>2, <1>3, <1>4

\* InsertItem (create) keeps the invariant.
LEMMA InsertItemStep ==
    ASSUME NEW r \in Request, NEW l \in Line, IInv, InsertItem(r, l)
    PROVE  IInv'
<1> USE DEF IInv
<1>1. TypeOK'
  BY DEF TypeOK, InsertItem, Goto, bus, carts, Working, Holding, Ended, Failed,
         CallState, CartReply, Method
<1>2. Phases'
  BY DEF TypeOK, Phases, NoTransactionLeftOpen, InsertItem, Goto, bus, carts,
         Placed, HasCart, Retired, Working, Holding, CartReply
<1>3. NoTransactionLeftOpen'
  BY DEF TypeOK, Phases, NoTransactionLeftOpen, InsertItem, Goto, bus, carts,
         Working, Holding
<1>4. LostCartHasCulprit'
  BY DEF TypeOK, Phases, LostCartHasCulprit, InsertItem, Goto, bus, carts, Placed,
         HasCart, Retired, Working, Holding
<1> QED  BY <1>1, <1>2, <1>3, <1>4

\* ItemsFail (createOrder) keeps the invariant.
LEMMA ItemsFailStep ==
    ASSUME NEW r \in Request, IInv, ItemsFail(r)
    PROVE  IInv'
<1> USE DEF IInv
<1>1. TypeOK'
  BY DEF TypeOK, ItemsFail, Abort, Goto, bus, carts, Working, Holding, Ended,
         Failed, CallState, CartReply, Method
<1>2. Phases'
  BY DEF TypeOK, Phases, NoTransactionLeftOpen, ItemsFail, Abort, Goto, bus, carts,
         Placed, HasCart, Retired, Working, Holding, CartReply
<1>3. NoTransactionLeftOpen'
  BY DEF TypeOK, Phases, NoTransactionLeftOpen, ItemsFail, Abort, Goto, bus, carts,
         Working, Holding
<1>4. LostCartHasCulprit'
  BY DEF TypeOK, Phases, LostCartHasCulprit, ItemsFail, Abort, Goto, bus, carts,
         Placed, HasCart, Retired, Working, Holding
<1> QED  BY <1>1, <1>2, <1>3, <1>4

\* ItemsDone (placeOrder) keeps the invariant.
LEMMA ItemsDoneStep ==
    ASSUME NEW r \in Request, IInv, ItemsDone(r)
    PROVE  IInv'
<1> USE DEF IInv
<1>1. TypeOK'
  BY DEF TypeOK, ItemsDone, Goto, orders, bus, carts, Working, Holding, Ended,
         Failed, CallState, CartReply, Method
<1>2. Phases'
  BY DEF TypeOK, Phases, NoTransactionLeftOpen, ItemsDone, Goto, orders, bus, carts,
         Placed, HasCart, Retired, Working, Holding, CartReply
<1>3. NoTransactionLeftOpen'
  BY DEF TypeOK, Phases, NoTransactionLeftOpen, ItemsDone, Goto, orders, bus, carts,
         Working, Holding
<1>4. LostCartHasCulprit'
  BY DEF TypeOK, Phases, LostCartHasCulprit, ItemsDone, Goto, orders, bus, carts,
         Placed, HasCart, Retired, Working, Holding
<1> QED  BY <1>1, <1>2, <1>3, <1>4

\* CreatePayment (createStripePayment) keeps the invariant.
LEMMA CreatePaymentStep ==
    ASSUME NEW r \in Request, IInv, CreatePayment(r)
    PROVE  IInv'
<1> USE DEF IInv
<1>1. TypeOK'
  BY DEF TypeOK, CreatePayment, Goto, orders, bus, carts, Working, Holding, Ended,
         Failed, CallState, CartReply, Method
<1>2. Phases'
  BY DEF TypeOK, Phases, NoTransactionLeftOpen, CreatePayment, Goto, orders, bus,
         carts, Placed, HasCart, Retired, Working, Holding, CartReply
<1>3. NoTransactionLeftOpen'
  BY DEF TypeOK, Phases, NoTransactionLeftOpen, CreatePayment, Goto, orders, bus,
         carts, Working, Holding
<1>4. LostCartHasCulprit'
  BY DEF TypeOK, Phases, LostCartHasCulprit, CreatePayment, Goto, orders, bus,
         carts, Placed, HasCart, Retired, Working, Holding
<1> QED  BY <1>1, <1>2, <1>3, <1>4

\* DeleteOrder (delete) keeps the invariant.
LEMMA DeleteOrderStep ==
    ASSUME NEW r \in Request, IInv, DeleteOrder(r)
    PROVE  IInv'
<1> USE DEF IInv
<1>1. TypeOK'
  BY DEF TypeOK, DeleteOrder, saga, bus, carts, Working, Holding, Ended, Failed,
         CallState, CartReply, Method
<1>2. Phases'
  BY DEF TypeOK, Phases, NoTransactionLeftOpen, DeleteOrder, saga, bus, carts,
         Placed, HasCart, Retired, Working, Holding, CartReply
<1>3. NoTransactionLeftOpen'
  BY DEF TypeOK, Phases, NoTransactionLeftOpen, DeleteOrder, saga, bus, carts,
         Working, Holding
<1>4. LostCartHasCulprit'
  BY DEF TypeOK, Phases, LostCartHasCulprit, DeleteOrder, saga, bus, carts, Placed,
         HasCart, Retired, Working, Holding
<1> QED  BY <1>1, <1>2, <1>3, <1>4

\* LoseGet (getMicroserviceOptions) keeps the invariant.
LEMMA LoseGetStep ==
    ASSUME NEW r \in Request, IInv, LoseGet(r)
    PROVE  IInv'
<1> USE DEF IInv
<1>1. TypeOK'
  BY DEF TypeOK, LoseGet, saga, orders, carts, Working, Holding, Ended, Failed,
         CallState, CartReply, Method
<1>2. Phases'
  BY DEF TypeOK, Phases, NoTransactionLeftOpen, LoseGet, saga, orders, carts,
         Placed, HasCart, Retired, Working, Holding, CartReply
<1>3. NoTransactionLeftOpen'
  BY DEF TypeOK, Phases, NoTransactionLeftOpen, LoseGet, saga, orders, carts,
         Working, Holding
<1>4. LostCartHasCulprit'
  BY DEF TypeOK, Phases, LostCartHasCulprit, LoseGet, saga, orders, carts, Placed,
         HasCart, Retired, Working, Holding
<1> QED  BY <1>1, <1>2, <1>3, <1>4

\* LoseDelete (getMicroserviceOptions) keeps the invariant.
LEMMA LoseDeleteStep ==
    ASSUME NEW r \in Request, IInv, LoseDelete(r)
    PROVE  IInv'
<1> USE DEF IInv
<1>1. TypeOK'
  BY DEF TypeOK, LoseDelete, saga, orders, carts, Working, Holding, Ended, Failed,
         CallState, CartReply, Method
<1>2. Phases'
  BY DEF TypeOK, Phases, NoTransactionLeftOpen, LoseDelete, saga, orders, carts,
         Placed, HasCart, Retired, Working, Holding, CartReply
<1>3. NoTransactionLeftOpen'
  BY DEF TypeOK, Phases, NoTransactionLeftOpen, LoseDelete, saga, orders, carts,
         Working, Holding
<1>4. LostCartHasCulprit'
  BY DEF TypeOK, Phases, LostCartHasCulprit, LoseDelete, saga, orders, carts,
         Placed, HasCart, Retired, Working, Holding
<1> QED  BY <1>1, <1>2, <1>3, <1>4

\* HandleGet (findCartForOrder) keeps the invariant.
LEMMA HandleGetStep ==
    ASSUME NEW r \in Request, IInv, HandleGet(r)
    PROVE  IInv'
<1> USE DEF IInv
<1>1. TypeOK'
  BY DEF TypeOK, HandleGet, orders, carts, LiveCarts, Working, Holding, Ended,
         Failed, CallState, CartReply, Method
<1>2. Phases'
  BY DEF TypeOK, Phases, NoTransactionLeftOpen, HandleGet, orders, carts, LiveCarts,
         Placed, HasCart, Retired, Working, Holding, CartReply
<1>3. NoTransactionLeftOpen'
  BY DEF TypeOK, Phases, NoTransactionLeftOpen, HandleGet, orders, carts, LiveCarts,
         Working, Holding
<1>4. LostCartHasCulprit'
  <2>1. delCall[r] = "unsent"
    BY DEF Phases, HasCart, TypeOK, CallState, HandleGet
  <2> SUFFICES ASSUME NEW c \in Cart, cartState[c] = "gone"
               PROVE  \E s \in Request :
                         /\ found'[s].cart = c
                         /\ \/ Placed(s)'
                            \/ /\ delCall'[s] \in {"answered", "unsure", "lost"}
                               /\ pc'[s] \in {"deleteCart", "commit", "deleteTimeout",
                                              "commitFailed", "crashed"}
                            \/ delCall'[s] = "unsure" /\ pc'[s] = "deleteRefused"
    BY DEF LostCartHasCulprit, HandleGet, carts
  <2>2. PICK s \in Request :
           /\ found[s].cart = c
           /\ \/ Placed(s)
              \/ /\ delCall[s] \in {"answered", "unsure", "lost"}
                 /\ pc[s] \in {"deleteCart", "commit", "deleteTimeout",
                               "commitFailed", "crashed"}
              \/ delCall[s] = "unsure" /\ pc[s] = "deleteRefused"
    BY DEF LostCartHasCulprit
  <2>3. s # r
    BY <2>1, <2>2 DEF Phases, Retired
  <2> QED  BY <2>2, <2>3 DEF HandleGet, orders, Placed, TypeOK
<1> QED  BY <1>1, <1>2, <1>3, <1>4

\* RefuseGet (findCartForOrder) keeps the invariant.
LEMMA RefuseGetStep ==
    ASSUME NEW r \in Request, IInv, RefuseGet(r)
    PROVE  IInv'
<1> USE DEF IInv
<1>1. TypeOK'
  BY DEF TypeOK, RefuseGet, saga, orders, carts, Working, Holding, Ended, Failed,
         CallState, CartReply, Method
<1>2. Phases'
  BY DEF TypeOK, Phases, NoTransactionLeftOpen, RefuseGet, saga, orders, carts,
         Placed, HasCart, Retired, Working, Holding, CartReply
<1>3. NoTransactionLeftOpen'
  BY DEF TypeOK, Phases, NoTransactionLeftOpen, RefuseGet, saga, orders, carts,
         Working, Holding
<1>4. LostCartHasCulprit'
  BY DEF TypeOK, Phases, LostCartHasCulprit, RefuseGet, saga, orders, carts, Placed,
         HasCart, Retired, Working, Holding
<1> QED  BY <1>1, <1>2, <1>3, <1>4

\* HandleDelete (placeOrder) keeps the invariant.
LEMMA HandleDeleteStep ==
    ASSUME NEW r \in Request, IInv, HandleDelete(r)
    PROVE  IInv'
<1> USE DEF IInv
<1>1. TypeOK'
  <2>1. delCall' \in [Request -> CallState]
    BY DEF TypeOK, HandleDelete, CallState
  <2> QED  BY <2>1 DEF TypeOK, HandleDelete, saga, orders
<1>2. Phases'
  BY DEF TypeOK, Phases, NoTransactionLeftOpen, HandleDelete, saga, orders, Placed,
         HasCart, Retired, Working, Holding, CartReply
<1>3. NoTransactionLeftOpen'
  BY DEF TypeOK, Phases, NoTransactionLeftOpen, HandleDelete, saga, orders, Working,
         Holding
<1>4. LostCartHasCulprit'
  BY DEF TypeOK, Phases, LostCartHasCulprit, HandleDelete, saga, orders, Placed,
         HasCart, Retired, Working, Holding
<1> QED  BY <1>1, <1>2, <1>3, <1>4

\* RefuseDelete (placeOrder) keeps the invariant.
LEMMA RefuseDeleteStep ==
    ASSUME NEW r \in Request, IInv, RefuseDelete(r)
    PROVE  IInv'
<1> USE DEF IInv
<1>1. TypeOK'
  BY DEF TypeOK, RefuseDelete, saga, orders, carts, Working, Holding, Ended, Failed,
         CallState, CartReply, Method
<1>2. Phases'
  BY DEF TypeOK, Phases, NoTransactionLeftOpen, RefuseDelete, saga, orders, carts,
         Placed, HasCart, Retired, Working, Holding, CartReply
<1>3. NoTransactionLeftOpen'
  BY DEF TypeOK, Phases, NoTransactionLeftOpen, RefuseDelete, saga, orders, carts,
         Working, Holding
<1>4. LostCartHasCulprit'
  BY DEF TypeOK, Phases, LostCartHasCulprit, RefuseDelete, saga, orders, carts,
         Placed, HasCart, Retired, Working, Holding
<1> QED  BY <1>1, <1>2, <1>3, <1>4

\* Crash (getMicroserviceOptions) keeps the invariant.
LEMMA CrashStep ==
    ASSUME IInv, Crash
    PROVE  IInv'
<1> USE DEF IInv
<1>1. TypeOK'
  BY CrashAssumption DEF TypeOK, Crash, bus, carts, Working, Holding, Ended, Failed,
         CallState, CartReply, Method
<1>2. Phases'
  BY DEF TypeOK, Phases, NoTransactionLeftOpen, Crash, bus, carts, Placed, HasCart,
         Retired, Working, Holding, CartReply
<1>3. NoTransactionLeftOpen'
  BY DEF TypeOK, Phases, NoTransactionLeftOpen, Crash, bus, carts, Working, Holding
<1>4. LostCartHasCulprit'
  BY DEF TypeOK, Phases, LostCartHasCulprit, Crash, bus, carts, Placed, HasCart,
         Retired, Working, Holding
<1> QED  BY <1>1, <1>2, <1>3, <1>4

\* VisitFindsNone (getUserCart) keeps the invariant.
LEMMA VisitFindsNoneStep ==
    ASSUME NEW v \in Visit, NEW u \in User, IInv, VisitFindsNone(v, u)
    PROVE  IInv'
<1> USE DEF IInv
<1>1. TypeOK'
  BY DEF TypeOK, VisitFindsNone, saga, orders, bus, carts, Working, Holding, Ended,
         Failed, CallState, CartReply, Method
<1>2. Phases'
  BY DEF TypeOK, Phases, NoTransactionLeftOpen, VisitFindsNone, saga, orders, bus,
         carts, Placed, HasCart, Retired, Working, Holding, CartReply
<1>3. NoTransactionLeftOpen'
  BY DEF TypeOK, Phases, NoTransactionLeftOpen, VisitFindsNone, saga, orders, bus,
         carts, Working, Holding
<1>4. LostCartHasCulprit'
  BY DEF TypeOK, Phases, LostCartHasCulprit, VisitFindsNone, saga, orders, bus,
         carts, Placed, HasCart, Retired, Working, Holding
<1> QED  BY <1>1, <1>2, <1>3, <1>4

\* VisitCreates (create) keeps the invariant.
LEMMA VisitCreatesStep ==
    ASSUME NEW v \in Visit, NEW c \in Cart, IInv, VisitCreates(v, c)
    PROVE  IInv'
<1> USE DEF IInv
<1>1. TypeOK'
  BY DEF TypeOK, VisitCreates, saga, orders, bus, Working, Holding, Ended, Failed,
         CallState, CartReply, Method
<1>2. Phases'
  BY DEF TypeOK, Phases, NoTransactionLeftOpen, VisitCreates, saga, orders, bus,
         Placed, HasCart, Retired, Working, Holding, CartReply
<1>3. NoTransactionLeftOpen'
  BY DEF TypeOK, Phases, NoTransactionLeftOpen, VisitCreates, saga, orders, bus,
         Working, Holding
<1>4. LostCartHasCulprit'
  BY DEF TypeOK, Phases, LostCartHasCulprit, VisitCreates, saga, orders, bus,
         Placed, HasCart, Retired, Working, Holding
<1> QED  BY <1>1, <1>2, <1>3, <1>4

\* AddLine (create) keeps the invariant.
LEMMA AddLineStep ==
    ASSUME NEW c \in Cart, NEW l \in Line, IInv, AddLine(c, l)
    PROVE  IInv'
<1> USE DEF IInv
<1>1. TypeOK'
  BY DEF TypeOK, AddLine, saga, orders, bus, Working, Holding, Ended, Failed,
         CallState, CartReply, Method
<1>2. Phases'
  BY DEF TypeOK, Phases, NoTransactionLeftOpen, AddLine, saga, orders, bus, Placed,
         HasCart, Retired, Working, Holding, CartReply
<1>3. NoTransactionLeftOpen'
  BY DEF TypeOK, Phases, NoTransactionLeftOpen, AddLine, saga, orders, bus, Working,
         Holding
<1>4. LostCartHasCulprit'
  BY DEF TypeOK, Phases, LostCartHasCulprit, AddLine, saga, orders, bus, Placed,
         HasCart, Retired, Working, Holding
<1> QED  BY <1>1, <1>2, <1>3, <1>4

\* RemoveLine (delete) keeps the invariant.
LEMMA RemoveLineStep ==
    ASSUME NEW c \in Cart, NEW l \in Line, IInv, RemoveLine(c, l)
    PROVE  IInv'
<1> USE DEF IInv
<1>1. TypeOK'
  BY DEF TypeOK, RemoveLine, saga, orders, bus, Working, Holding, Ended, Failed,
         CallState, CartReply, Method
<1>2. Phases'
  BY DEF TypeOK, Phases, NoTransactionLeftOpen, RemoveLine, saga, orders, bus,
         Placed, HasCart, Retired, Working, Holding, CartReply
<1>3. NoTransactionLeftOpen'
  BY DEF TypeOK, Phases, NoTransactionLeftOpen, RemoveLine, saga, orders, bus,
         Working, Holding
<1>4. LostCartHasCulprit'
  BY DEF TypeOK, Phases, LostCartHasCulprit, RemoveLine, saga, orders, bus, Placed,
         HasCart, Retired, Working, Holding
<1> QED  BY <1>1, <1>2, <1>3, <1>4

\* A step that changes nothing keeps the invariant.
LEMMA Stuttering == IInv /\ UNCHANGED vars => IInv'
BY DEF IInv, TypeOK, Phases, NoTransactionLeftOpen, LostCartHasCulprit, Placed,
       HasCart, Retired, vars, saga, orders, bus, carts

\* Whatever the order service, the bus, the cart service or a shopper does keeps the invariant.
LEMMA NextStep == IInv /\ [Next]_vars => IInv'
<1> SUFFICES ASSUME IInv, [Next]_vars
             PROVE  IInv'
  OBVIOUS
<1>1. ASSUME NEW r \in Request, NEW u \in User, NEW m \in Method, Start(r, u, m)
      PROVE  IInv'
  BY <1>1, StartStep
<1>2. ASSUME NEW r \in Request, Progress(r)
      PROVE  IInv'
  BY <1>2, ReceiveCartStep, FindFailsStep, ConnectStep, SaveOrderStep, SaveFailsStep,
     ReceiveAckStep, DeleteRefusedStep, DeleteTimesOutStep, CommitStep, CommitFailsStep,
     TakeSecondConnectionStep, InsertItemStep, ItemsFailStep, ItemsDoneStep,
     CreatePaymentStep
     DEF Progress
<1>3. ASSUME NEW r \in Request, DeleteOrder(r) \/ Bus(r) \/ CartService(r)
      PROVE  IInv'
  BY <1>3, DeleteOrderStep, LoseGetStep, LoseDeleteStep, HandleGetStep, RefuseGetStep,
     HandleDeleteStep, RefuseDeleteStep
     DEF Bus, CartService
<1>4. CASE Crash
  BY <1>4, CrashStep
<1>5. CASE Shopping
  BY <1>5, VisitFindsNoneStep, VisitCreatesStep, AddLineStep, RemoveLineStep
     DEF Shopping
<1>6. CASE UNCHANGED vars
  BY <1>6, Stuttering
<1> QED  BY <1>1, <1>2, <1>3, <1>4, <1>5, <1>6 DEF Next

\* IInv holds in every reachable state of the saga.
THEOREM Invariance == Spec => []IInv
<1>1. Init => IInv
  BY InitIInv
<1>2. IInv /\ [Next]_vars => IInv'
  BY NextStep
<1> QED  BY <1>1, <1>2, PTL DEF Spec

-----------------------------------------------------------------------------
(* What follows from it.                                                   *)

\* Type correctness of the order and cart tables, the calls and the saga.
THEOREM TypeCorrect == Spec => []TypeOK
<1>1. IInv => TypeOK
  BY DEF IInv
<1> QED  BY <1>1, Invariance, PTL

\* An order is committed only after the cart it was made from is gone.
THEOREM CommitAfterDelete == Spec => []CommittedOrderRetiresCart
<1>1. IInv => CommittedOrderRetiresCart
  BY DEF IInv, Phases, HasCart, Retired, CommittedOrderRetiresCart
<1> QED  BY <1>1, Invariance, PTL

\* A request answered "ok" has a committed order with all its items.
THEOREM Completeness == Spec => []AnsweredMeansComplete
<1>1. IInv => AnsweredMeansComplete
  BY DEF IInv, Phases, AnsweredMeansComplete
<1> QED  BY <1>1, Invariance, PTL

\* No way out of createOrder leaves its transaction open.
THEOREM TransactionsClosed == Spec => []NoTransactionLeftOpen
<1>1. IInv => NoTransactionLeftOpen
  BY DEF IInv
<1> QED  BY <1>1, Invariance, PTL

\* The only ways a cart is lost without an order.
THEOREM LossesExplained == Spec => []LostCartHasCulprit
<1>1. IInv => LostCartHasCulprit
  BY DEF IInv
<1> QED  BY <1>1, Invariance, PTL


-----------------------------------------------------------------------------
(* Action properties.                                                      *)

\* A cart from which an order was committed is never handed out again.
THEOREM NoResaleHolds == Spec => NoResale
<1>1. ASSUME IInv, [Next]_vars, NEW r \in Request, NEW s \in Request,
             getCall[r] = "queued", getCall'[r] = "answered", Placed(s)
      PROVE  found'[r].cart # found[s].cart
  <2>1. cartState[found[s].cart] = "gone"
    BY <1>1 DEF IInv, Phases, Retired
  <2>2. ASSUME HandleGet(r)
        PROVE  found'[r].cart # found[s].cart
    BY <1>1, <2>1, <2>2 DEF HandleGet, LiveCarts, IInv, TypeOK
  <2>3. HandleGet(r)
    <3>1. ASSUME NEW q \in Request, Progress(q) \/ DeleteOrder(q)
          PROVE  getCall' = getCall
      BY <3>1 DEF Progress, DeleteOrder, ReceiveCart, FindFails, Connect, SaveOrder,
         SaveFails, ReceiveAck, DeleteRefused, DeleteTimesOut, Commit, CommitFails,
         TakeSecondConnection, InsertItem, ItemsFail, ItemsDone, CreatePayment, Abort, bus
    <3>2. ASSUME NEW q \in Request, Bus(q) \/ CartService(q), ~HandleGet(r)
          PROVE  getCall'[r] # "answered"
      BY <1>1, <3>2 DEF Bus, CartService, LoseGet, LoseDelete, HandleGet, RefuseGet,
         HandleDelete, RefuseDelete, IInv, TypeOK
    <3>3. ASSUME NEW q \in Request, NEW u \in User, NEW m \in Method, Start(q, u, m)
          PROVE  getCall'[r] # "answered"
      BY <1>1, <3>3 DEF Start, IInv, TypeOK
    <3>4. ASSUME Crash \/ Shopping \/ UNCHANGED vars
          PROVE  getCall' = getCall
      BY <3>4 DEF Crash, Shopping, VisitFindsNone, VisitCreates, AddLine, RemoveLine,
         vars, bus
    <3> QED  BY <1>1, <3>1, <3>2, <3>3, <3>4 DEF Next
  <2> QED  BY <2>2, <2>3
<1>2. IInv /\ [Next]_vars =>
        [\A r, s \in Request :
            getCall[r] = "queued" /\ getCall'[r] = "answered" /\ Placed(s)
                => found'[r].cart # found[s].cart]_vars
  BY <1>1
<1> QED  BY <1>2, Invariance, PTL DEF Spec, NoResale

\* No failure after the COMMIT undoes an order or its items.
THEOREM CommitIsFinalHolds == Spec => CommitIsFinal
<1>1. ASSUME IInv, [Next]_vars, NEW r \in Request, Placed(r)
      PROVE  Placed(r)' /\ inserted[r] \subseteq inserted'[r]
  <2>1. ASSUME NEW q \in Request, Progress(q)
        PROVE  Placed(r)' /\ inserted[r] \subseteq inserted'[r]
    <3>1. CASE q = r
      BY <1>1, <2>1, <3>1 DEF Progress, ReceiveCart, FindFails, Connect, SaveOrder,
         SaveFails, ReceiveAck, DeleteRefused, DeleteTimesOut, Commit, CommitFails,
         TakeSecondConnection, InsertItem, ItemsFail, ItemsDone, CreatePayment, Abort,
         Goto, orders, Placed, IInv, TypeOK, Phases
    <3>2. CASE q # r
      BY <1>1, <2>1, <3>2 DEF Progress, ReceiveCart, FindFails, Connect, SaveOrder,
         SaveFails, ReceiveAck, DeleteRefused, DeleteTimesOut, Commit, CommitFails,
         TakeSecondConnection, InsertItem, ItemsFail, ItemsDone, CreatePayment, Abort,
         Goto, orders, Placed, IInv, TypeOK
    <3> QED  BY <3>1, <3>2
  <2>2. ASSUME NEW q \in Request, DeleteOrder(q) \/ Bus(q) \/ CartService(q)
        PROVE  Placed(r)' /\ inserted[r] \subseteq inserted'[r]
    BY <1>1, <2>2 DEF DeleteOrder, Bus, CartService, LoseGet, LoseDelete, HandleGet,
       RefuseGet, HandleDelete, RefuseDelete, orders, Placed, IInv, TypeOK
  <2>3. ASSUME NEW q \in Request, NEW u \in User, NEW m \in Method, Start(q, u, m)
        PROVE  Placed(r)' /\ inserted[r] \subseteq inserted'[r]
    BY <1>1, <2>3 DEF Start, orders, Placed
  <2>4. ASSUME Crash \/ Shopping \/ UNCHANGED vars
        PROVE  Placed(r)' /\ inserted[r] \subseteq inserted'[r]
    BY <1>1, <2>4 DEF Crash, Shopping, VisitFindsNone, VisitCreates, AddLine, RemoveLine,
       vars, orders, Placed, IInv, TypeOK
  <2> QED  BY <1>1, <2>1, <2>2, <2>3, <2>4 DEF Next
<1>2. IInv /\ [Next]_vars =>
        [\A r \in Request : Placed(r) => /\ Placed(r)'
                                        /\ inserted[r] \subseteq inserted'[r]]_vars
  BY <1>1
<1> QED  BY <1>2, Invariance, PTL DEF Spec, CommitIsFinal


-----------------------------------------------------------------------------
(* The saga implements CheckoutPromise: one lemma for the steps that       *)
(* change nothing the promise speaks of, one for the failures, one for     *)
(* each other action.                                                      *)

\* Nothing the promise speaks of changes.
SameView ==
    /\ {c \in Cart : cartState[c] = "gone"}' = {c \in Cart : cartState[c] = "gone"}
    /\ \A r \in Request : /\ Placed(r)' <=> Placed(r)
                          /\ Placed(r) => found'[r] = found[r]
                          /\ inserted'[r] = inserted[r]

\* The steps that the promise does not see: calls, reads and connections.
LEMMA HiddenSteps ==
    ASSUME IInv, SameView,
           \A r \in Request :
              \/ pc'[r] = pc[r]
              \/ pc[r] \in Working /\ pc'[r] \in Working
    PROVE  UNCHANGED Promise!vars
<1>1. [r \in Request |-> IF Placed(r) THEN found[r].cart ELSE NoCart]'
        = [r \in Request |-> IF Placed(r) THEN found[r].cart ELSE NoCart]
  BY DEF SameView
<1>2. {r \in Request : Placed(r) /\ inserted[r] = found[r].lines}'
        = {r \in Request : Placed(r) /\ inserted[r] = found[r].lines}
  BY DEF SameView
<1>3. [r \in Request |-> IF pc[r] = "idle" THEN "none"
                         ELSE IF pc[r] = "ok" THEN "ok"
                         ELSE IF pc[r] \in Failed THEN "error" ELSE "pending"]'
        = [r \in Request |-> IF pc[r] = "idle" THEN "none"
                             ELSE IF pc[r] = "ok" THEN "ok"
                             ELSE IF pc[r] \in Failed THEN "error" ELSE "pending"]
  BY DEF Working, Holding, Failed
<1> QED  BY <1>1, <1>2, <1>3 DEF SameView, Promise!vars

\* The ways in which placeOrder fails are the promise's Fail.
LEMMA FailingSteps ==
    ASSUME IInv, SameView, NEW R \in SUBSET Request,
           \A r \in R : pc[r] \in Working /\ pc'[r] \in Failed,
           \A r \in Request \ R : pc'[r] = pc[r]
    PROVE  Promise!Fail(R)
<1>1. [r \in Request |-> IF Placed(r) THEN found[r].cart ELSE NoCart]'
        = [r \in Request |-> IF Placed(r) THEN found[r].cart ELSE NoCart]
  BY DEF SameView
<1>2. {r \in Request : Placed(r) /\ inserted[r] = found[r].lines}'
        = {r \in Request : Placed(r) /\ inserted[r] = found[r].lines}
  BY DEF SameView
<1>3. \A r \in R : pc[r] \notin {"idle", "ok"} \cup Failed
  BY DEF Working, Holding, Failed
<1>4. \A r \in R : pc'[r] \in Failed /\ pc'[r] \notin {"idle", "ok"}
  BY DEF Failed
<1> QED  BY <1>1, <1>2, <1>3, <1>4 DEF SameView, Promise!Fail

\* Empty tables are where the promise begins.
LEMMA InitView == Init => Promise!Init
BY DEF Init, Promise!Init, Placed, NoReply

\* A placeOrder that begins is accepted.
LEMMA AcceptStep ==
    ASSUME IInv, NEW r \in Request, NEW u \in User, NEW m \in Method, Start(r, u, m)
    PROVE  Promise!Accept(r)
BY DEF Start, Goto, orders, carts, IInv, TypeOK, Promise!Accept, Placed, Failed

\* COMMIT places the order; one that throws may have placed it, or is a failure.
LEMMA PlaceStep ==
    ASSUME IInv, NEW r \in Request, Commit(r) \/ CommitFails(r)
    PROVE  \/ \E c \in Cart : Promise!Place(r, c)
           \/ Promise!Fail({r})
<1>1. /\ pc[r] = "commit" /\ ~Placed(r) /\ pc'[r] \in {"insertItems", "commitFailed"}
      /\ \A s \in Request \ {r} : pc'[s] = pc[s] /\ order'[s] = order[s]
      /\ UNCHANGED <<found, inserted, carts>>
  BY DEF Commit, CommitFails, Goto, IInv, Phases, TypeOK
<1>2. found[r].cart \in Cart /\ cartState[found[r].cart] = "gone"
  BY <1>1 DEF IInv, Phases, HasCart, Retired, Holding
<1>3. CASE order'[r] = "committed"
  <2>1. inserted[r] # found[r].lines
    BY <1>1 DEF IInv, Phases
  <2>2. [s \in Request |-> IF Placed(s) THEN found[s].cart ELSE NoCart]'
          = [[s \in Request |-> IF Placed(s) THEN found[s].cart ELSE NoCart]
                EXCEPT ![r] = found[r].cart]
    BY <1>1, <1>3 DEF Placed
  <2>3. {s \in Request : Placed(s) /\ inserted[s] = found[s].lines}'
          = {s \in Request : Placed(s) /\ inserted[s] = found[s].lines}
    BY <1>1, <1>3, <2>1 DEF Placed
  <2> DEFINE View(p) == [s \in Request |-> IF p[s] = "idle" THEN "none"
                                           ELSE IF p[s] = "ok" THEN "ok"
                                           ELSE IF p[s] \in Failed THEN "error"
                                           ELSE "pending"]
  <2>4. View(pc)[r] = "pending"
    BY <1>1 DEF Failed
  <2>5. View(pc') \in {View(pc), [View(pc) EXCEPT ![r] = "error"]}
    <3>1. CASE pc'[r] = "insertItems"
      BY <1>1, <3>1 DEF Failed
    <3>2. CASE pc'[r] = "commitFailed"
      BY <1>1, <3>2 DEF Failed
    <3> QED  BY <1>1, <3>1, <3>2
  <2>6. {c \in Cart : cartState[c] = "gone"}' = {c \in Cart : cartState[c] = "gone"}
    BY <1>1 DEF carts
  <2> QED  BY <1>1, <1>2, <2>2, <2>3, <2>4, <2>5, <2>6 DEF Promise!Place
<1>4. CASE order'[r] # "committed"
  <2>1. pc'[r] = "commitFailed" /\ ~Placed(r)'
    BY <1>4 DEF Commit, CommitFails, Goto, IInv, TypeOK, Placed
  <2>2. SameView
    BY <1>1, <2>1 DEF SameView, Placed, carts
  <2> QED  BY <1>1, <2>1, <2>2, FailingSteps DEF Working, Holding, Failed
<1> QED  BY <1>3, <1>4

\* The last insert of an order item fills the order, the others are hidden.
LEMMA FillStep ==
    ASSUME IInv, NEW r \in Request, NEW l \in Line, InsertItem(r, l)
    PROVE  \/ Promise!Fill(r)
           \/ UNCHANGED Promise!vars
<1>1. /\ pc[r] = "insertRow" /\ pc'[r] = "insertItems"
      /\ Placed(r) /\ found[r].cart \in Cart /\ inserted[r] # found[r].lines
      /\ \A s \in Request \ {r} : pc'[s] = pc[s] /\ inserted'[s] = inserted[s]
      /\ UNCHANGED <<found, order, carts>>
  BY DEF InsertItem, Goto, IInv, Phases, HasCart, Holding, TypeOK
<1>2. [s \in Request |-> IF Placed(s) THEN found[s].cart ELSE NoCart]'
        = [s \in Request |-> IF Placed(s) THEN found[s].cart ELSE NoCart]
  BY <1>1 DEF Placed
<1>3. [s \in Request |-> IF pc[s] = "idle" THEN "none"
                         ELSE IF pc[s] = "ok" THEN "ok"
                         ELSE IF pc[s] \in Failed THEN "error" ELSE "pending"]'
        = [s \in Request |-> IF pc[s] = "idle" THEN "none"
                             ELSE IF pc[s] = "ok" THEN "ok"
                             ELSE IF pc[s] \in Failed THEN "error" ELSE "pending"]
  BY <1>1 DEF Failed
<1>4. {c \in Cart : cartState[c] = "gone"}' = {c \in Cart : cartState[c] = "gone"}
  BY <1>1 DEF carts
<1>5. CASE inserted'[r] = found[r].lines
  <2>1. {s \in Request : Placed(s) /\ inserted[s] = found[s].lines}'
          = {s \in Request : Placed(s) /\ inserted[s] = found[s].lines} \cup {r}
    BY <1>1, <1>5 DEF Placed
  <2> QED
    BY <1>1, <1>2, <1>3, <1>4, <2>1, NoCartAssumption DEF Promise!Fill, Failed
<1>6. CASE inserted'[r] # found[r].lines
  <2>1. {s \in Request : Placed(s) /\ inserted[s] = found[s].lines}'
          = {s \in Request : Placed(s) /\ inserted[s] = found[s].lines}
    BY <1>1, <1>6 DEF Placed
  <2> QED  BY <1>2, <1>3, <1>4, <2>1 DEF Promise!vars
<1> QED  BY <1>5, <1>6

\* An answer is one for an order with all its items.
LEMMA SucceedStep ==
    ASSUME IInv, NEW r \in Request, pc[r] \in {"insertItems", "payment"}, pc'[r] = "ok",
           inserted[r] = found[r].lines,
           \A s \in Request \ {r} : pc'[s] = pc[s],
           UNCHANGED <<found, orders, carts>>
    PROVE  Promise!Succeed(r)
<1>1. Placed(r)
  BY DEF IInv, Phases
<1>2. [s \in Request |-> IF Placed(s) THEN found[s].cart ELSE NoCart]'
        = [s \in Request |-> IF Placed(s) THEN found[s].cart ELSE NoCart]
  BY DEF Placed, orders
<1>3. {s \in Request : Placed(s) /\ inserted[s] = found[s].lines}'
        = {s \in Request : Placed(s) /\ inserted[s] = found[s].lines}
  BY DEF Placed, orders
<1>4. {c \in Cart : cartState[c] = "gone"}' = {c \in Cart : cartState[c] = "gone"}
  BY DEF carts
<1> QED  BY <1>1, <1>2, <1>3, <1>4 DEF Promise!Succeed, Failed

\* The handler of DELETE_CART takes the cart, or finds it gone.
LEMMA TakeStep ==
    ASSUME IInv, NEW r \in Request, HandleDelete(r)
    PROVE  \/ \E c \in Cart : Promise!Take(c)
           \/ UNCHANGED Promise!vars
<1>1. found[r].cart \in Cart
  BY DEF HandleDelete, IInv, Phases, HasCart
<1>2. {c \in Cart : cartState[c] = "gone"}'
        = {c \in Cart : cartState[c] = "gone"} \cup {found[r].cart}
  BY <1>1 DEF HandleDelete, IInv, TypeOK
<1>3. UNCHANGED <<pc, found, order, inserted>>
  BY DEF HandleDelete, saga, orders
<1>4. [s \in Request |-> IF Placed(s) THEN found[s].cart ELSE NoCart]'
        = [s \in Request |-> IF Placed(s) THEN found[s].cart ELSE NoCart]
  BY <1>3 DEF Placed
<1>5. {s \in Request : Placed(s) /\ inserted[s] = found[s].lines}'
        = {s \in Request : Placed(s) /\ inserted[s] = found[s].lines}
  BY <1>3 DEF Placed
<1> QED  BY <1>1, <1>2, <1>3, <1>4, <1>5 DEF Promise!Take, Promise!vars

\* Every step of placeOrder is one of the promise, or hidden.
LEMMA ProgressRefines ==
    ASSUME IInv, NEW r \in Request, Progress(r)
    PROVE  [Promise!Next]_(Promise!vars)
<1> USE DEF Promise!Next
<1>1. ASSUME FindFails(r) \/ SaveFails(r) \/ DeleteRefused(r) \/ DeleteTimesOut(r)
             \/ ItemsFail(r)
      PROVE  Promise!Fail({r})
  <2>1. /\ pc[r] \in Working /\ pc'[r] \in Failed
        /\ \A s \in Request \ {r} : pc'[s] = pc[s]
    BY <1>1 DEF FindFails, SaveFails, DeleteRefused, DeleteTimesOut, ItemsFail, Abort, Goto,
       Working, Holding, Failed, IInv, TypeOK
  <2>2. SameView
    BY <1>1 DEF FindFails, SaveFails, DeleteRefused, DeleteTimesOut, ItemsFail, Abort,
       orders, carts, SameView, Placed, IInv, TypeOK
  <2> QED  BY <2>1, <2>2, FailingSteps
<1>2. ASSUME Connect(r) \/ SaveOrder(r) \/ ReceiveAck(r) \/ TakeSecondConnection(r)
      PROVE  UNCHANGED Promise!vars
  <2>1. \A s \in Request : \/ pc'[s] = pc[s]
                           \/ pc[s] \in Working /\ pc'[s] \in Working
    BY <1>2 DEF Connect, SaveOrder, ReceiveAck, TakeSecondConnection, Goto, Working, Holding,
       IInv, TypeOK
  <2>2. SameView
    BY <1>2 DEF Connect, SaveOrder, ReceiveAck, TakeSecondConnection, orders, carts,
       SameView, Placed, IInv, TypeOK, Phases
  <2> QED  BY <2>1, <2>2, HiddenSteps
<1>3. ASSUME ReceiveCart(r)
      PROVE  [Promise!Next]_(Promise!vars)
  <2>1. SameView
    BY <1>3 DEF ReceiveCart, orders, carts, SameView, Placed
  <2>2. \A s \in Request \ {r} : pc'[s] = pc[s]
    BY <1>3 DEF ReceiveCart, Goto, IInv, TypeOK
  <2>3. CASE pc'[r] = "connect"
    BY <1>3, <2>1, <2>2, <2>3, HiddenSteps DEF ReceiveCart, Working
  <2>4. CASE pc'[r] = "emptyCart"
    <3>1. Promise!Fail({r})
      BY <1>3, <2>1, <2>2, <2>4, FailingSteps DEF ReceiveCart, Working, Failed
    <3> QED  BY <3>1
  <2> QED  BY <1>3, <2>3, <2>4 DEF ReceiveCart, Goto, IInv, TypeOK
<1>4. ASSUME Commit(r) \/ CommitFails(r)
      PROVE  Promise!Next
  BY <1>4, PlaceStep
<1>5. ASSUME NEW l \in Line, InsertItem(r, l)
      PROVE  [Promise!Next]_(Promise!vars)
  BY <1>5, FillStep
<1>6. ASSUME ItemsDone(r) \/ CreatePayment(r)
      PROVE  [Promise!Next]_(Promise!vars)
  <2>1. /\ SameView
        /\ UNCHANGED <<found, orders, carts>>
        /\ \A s \in Request \ {r} : pc'[s] = pc[s]
        /\ pc[r] \in {"insertItems", "payment"} /\ inserted[r] = found[r].lines
        /\ pc'[r] \in {"ok", "payment", "paymentFailed"}
    BY <1>6 DEF ItemsDone, CreatePayment, Goto, orders, carts, SameView, Placed, IInv,
       TypeOK, Phases
  <2>2. CASE pc'[r] = "ok"
    BY <2>1, <2>2, SucceedStep
  <2>3. CASE pc'[r] = "payment"
    BY <2>1, <2>3, HiddenSteps DEF Working, Holding
  <2>4. CASE pc'[r] = "paymentFailed"
    <3>1. Promise!Fail({r})
      BY <2>1, <2>4, FailingSteps DEF Working, Holding, Failed
    <3> QED  BY <3>1
  <2> QED  BY <2>1, <2>2, <2>3, <2>4
<1> QED  BY <1>1, <1>2, <1>3, <1>4, <1>5, <1>6 DEF Progress

\* Every step of the system is one of the promise, or hidden.
LEMMA NextRefines == IInv /\ [Next]_vars => [Promise!Next]_(Promise!vars)
<1> SUFFICES ASSUME IInv, [Next]_vars
             PROVE  [Promise!Next]_(Promise!vars)
  OBVIOUS
<1>1. ASSUME NEW r \in Request, NEW u \in User, NEW m \in Method, Start(r, u, m)
      PROVE  Promise!Next
  BY <1>1, AcceptStep DEF Promise!Next
<1>2. ASSUME NEW r \in Request, HandleDelete(r)
      PROVE  [Promise!Next]_(Promise!vars)
  BY <1>2, TakeStep DEF Promise!Next
<1>3. ASSUME NEW r \in Request,
             DeleteOrder(r) \/ Bus(r) \/ HandleGet(r) \/ RefuseGet(r) \/ RefuseDelete(r)
      PROVE  UNCHANGED Promise!vars
  <2>1. pc' = pc
    BY <1>3 DEF DeleteOrder, Bus, LoseGet, LoseDelete, HandleGet, RefuseGet, RefuseDelete,
       saga
  <2>2. SameView
    BY <1>3 DEF DeleteOrder, Bus, LoseGet, LoseDelete, HandleGet, RefuseGet, RefuseDelete,
       saga, orders, carts, SameView, Placed, Phases, HasCart, Retired, IInv, TypeOK
  <2> QED  BY <2>1, <2>2, HiddenSteps
<1>4. ASSUME Crash
      PROVE  Promise!Next
  <2> PICK R \in SUBSET Request : R = {r \in Request : pc[r] \in Working}
    OBVIOUS
  <2>1. SameView
    BY <1>4 DEF Crash, SameView, Placed, carts, IInv, TypeOK
  <2>2. \A r \in R : pc[r] \in Working /\ pc'[r] \in Failed
    BY <1>4 DEF Crash, Failed
  <2>3. \A r \in Request \ R : pc'[r] = pc[r]
    BY <1>4 DEF Crash
  <2>4. Promise!Fail(R)
    BY <2>1, <2>2, <2>3, FailingSteps
  <2> QED  BY <2>4 DEF Promise!Next
<1>5. ASSUME Shopping \/ UNCHANGED vars
      PROVE  UNCHANGED Promise!vars
  <2>1. pc' = pc
    BY <1>5 DEF Shopping, VisitFindsNone, VisitCreates, AddLine, RemoveLine, vars, saga
  <2>2. SameView
    BY <1>5 DEF Shopping, VisitFindsNone, VisitCreates, AddLine, RemoveLine, vars, saga,
       orders, carts, SameView, Placed, IInv, TypeOK
  <2> QED  BY <2>1, <2>2, HiddenSteps
<1> QED  BY <1>1, <1>2, <1>3, <1>4, <1>5, ProgressRefines DEF Next, CartService

\* The saga implements CheckoutPromise under the mapping of Checkout.
THEOREM Refinement == Spec => KeepsPromise
<1>1. Init => Promise!Init
  BY InitView
<1>2. IInv /\ [Next]_vars => [Promise!Next]_(Promise!vars)
  BY NextRefines
<1> QED  BY <1>1, <1>2, Invariance, PTL DEF Spec, KeepsPromise, Promise!Spec

=============================================================================
