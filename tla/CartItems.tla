------------------------------ MODULE CartItems ------------------------------
(***************************************************************************)
(* The carts and their items: apps/cart ItemService create, update and     *)
(* delete, with the CartService operations they use, the two calls other   *)
(* services make, DELETE_CART and REMOVE_CART_ITEM, and the same for       *)
(* guests, whose rows are in tables of their own.                          *)
(*                                                                         *)
(* None of the three mutations runs in a transaction.  Each is a sequence  *)
(* of statements with an await between them, so every statement is a step: *)
(* what a call keeps in its local variables may be stale by the time it    *)
(* writes, and the cart's total is written as an absolute value.  Money is *)
(* in the smallest unit, where lodash's round(.., 2) changes nothing.      *)
(***************************************************************************)
EXTENDS Integers, FiniteSets, FiniteSetsExt

CONSTANTS
    Call,         \* queries and mutations of users and of guests
    User, Guest,
    Product,
    MaxCarts,     \* cart rows ever made
    MaxItems,     \* cart_item rows ever made
    MaxTempCarts, MaxTempItems,  \* the same for guests
    MaxQuantity,  \* quantities a user may ask for
    Price,        \* the price, less promotion, each product starts with
    NewPrice,     \* what an administrator may change it to
    Concurrency,  \* calls in flight at once
    MaxFaults,    \* failing statements and unanswered calls
    MaxReprices, MaxWithdrawals, MaxRemovals, MaxCheckouts,  \* steps of the other services
    MaxEvents     \* of all these together

Cart == 1..MaxCarts    \* in the order of created_at
Item == 1..MaxItems
TempCart == 1..MaxTempCarts
TempItem == 1..MaxTempItems
NoRow == 0

ASSUME BoundsAssumption ==
    {MaxCarts, MaxItems, MaxTempCarts, MaxTempItems, MaxQuantity, Concurrency, MaxFaults, MaxReprices, MaxWithdrawals,
     MaxRemovals, MaxCheckouts, MaxEvents} \subseteq Nat
ASSUME PeopleAssumption == User # {} /\ User \cap Guest = {}
ASSUME CallAssumption == IsFiniteSet(Call)
ASSUME PriceAssumption == Product # {} /\ Price \in [Product -> Nat] /\ NewPrice \in [Product -> Nat]

VARIABLES
    pc,        \* where each call stands
    mem,       \* its arguments and local variables
    effects,   \* what it has done to the item table
    cart,      \* the cart table
    item,      \* the cart_item table
    tempCart,  \* the temp_cart table, and the calls each row's opener raced
    tempItem,  \* the temp_item table
    price,     \* what each product costs, less its promotion
    quotable,  \* the products GET_PRODUCT_BY_ID answers for
    spent      \* faults and steps of other services so far

tables == <<cart, item>>
tempTables == <<tempCart, tempItem>>
catalog == <<price, quotable>>
vars   == <<pc, mem, effects, tables, tempTables, catalog, spent>>

InFlight == {"find", "open", "fetch", "lookup", "read", "refetch", "writeTotal",
             "writeItem", "ownTotal", "insert", "insertTotal",
             "findTemp", "openTemp", "insertTemp"}
Remote   == {"fetch", "refetch"}   \* waiting for GET_PRODUCT_BY_ID
Over     == {"ok", "failed"}
Op       == {"none", "visit", "create", "update", "delete", "guestVisit", "guestCreate"}
RowState == {"unused", "live", "gone"}
Budget   == {"fault", "reprice", "withdrawal", "removal", "checkout"}

Memory == [op : Op, user : User \cup Guest, product : Product, quantity : 0..MaxQuantity,
           cart : {NoRow} \cup Cart \cup TempCart, total : Int, price : Nat,   \* create's own
           item : {NoRow} \cup Item, newQuantity : Int,          \* update's
           itemCart : {NoRow} \cup Cart, itemTotal : Int, oldQuantity : Int, itemPrice : Nat]

TypeOK ==
    /\ pc \in [Call -> {"idle"} \cup InFlight \cup Over]
    /\ mem \in [Call -> Memory]
    /\ effects \in [Call -> SUBSET {"grown", "inserted"}]
    /\ cart \in [Cart -> [state : RowState, user : User, total : Int]]
    /\ item \in [Item -> [state : RowState, cart : {NoRow} \cup Cart,
                          product : Product, quantity : Int]]
    /\ tempCart \in [TempCart -> [state : RowState, guest : Guest \cup {NoRow}, by : Call \cup {NoRow},
                                   raced : SUBSET Call]]
    /\ tempItem \in [TempItem -> [state : RowState, cart : {NoRow} \cup TempCart,
                                   product : Product, quantity : Int]]
    /\ price \in [Product -> Nat]
    /\ quotable \subseteq Product
    /\ spent \in [Budget -> Nat]

SomeUser == CHOOSE u \in User : TRUE
SomeProduct == CHOOSE p \in Product : TRUE

NoMemory == [op |-> "none", user |-> SomeUser, product |-> SomeProduct, quantity |-> 0,
             cart |-> NoRow, total |-> 0, price |-> 0, item |-> NoRow, newQuantity |-> 0,
             itemCart |-> NoRow, itemTotal |-> 0, oldQuantity |-> 0, itemPrice |-> 0]

Init ==
    /\ pc = [k \in Call |-> "idle"]
    /\ mem = [k \in Call |-> NoMemory]
    /\ effects = [k \in Call |-> {}]
    /\ cart = [c \in Cart |-> [state |-> "unused", user |-> SomeUser, total |-> 0]]
    /\ item = [i \in Item |-> [state |-> "unused", cart |-> NoRow,
                               product |-> SomeProduct, quantity |-> 0]]
    /\ tempCart = [c \in TempCart |-> [state |-> "unused", guest |-> NoRow, by |-> NoRow, raced |-> {}]]
    /\ tempItem = [i \in TempItem |-> [state |-> "unused", cart |-> NoRow,
                                       product |-> SomeProduct, quantity |-> 0]]
    /\ price = Price
    /\ quotable = Product
    /\ spent = [b \in Budget |-> 0]

-----------------------------------------------------------------------------
(* Tables.                                                                 *)

LiveCart(c) == c \in Cart /\ cart[c].state = "live"
LiveItem(i) == i \in Item /\ item[i].state = "live"

CartsOf(u) == {c \in Cart : LiveCart(c) /\ cart[c].user = u}

\* As Carrying, when the lookup never finds a row.
CarryingNothing(u, p) == {}

\* The row itemRepository.findOne({ product_id }) may return: any cart's.
Carrying(u, p) == {i \in Item : LiveItem(i) /\ item[i].product = p}

Unused(table) == {x \in DOMAIN table : table[x].state = "unused"}

SetTotal(c, total) == cart' = [cart EXCEPT ![c].total = total]

Spend(what, limit) ==
    /\ spent[what] < limit
    /\ MapThenSumSet(LAMBDA b : spent[b], Budget) < MaxEvents
    /\ spent' = [spent EXCEPT ![what] = @ + 1]

InFlightNow == {k \in Call : pc[k] \in InFlight}

-----------------------------------------------------------------------------
(* A call begins, ends and fails.                                          *)

Begin(k, place, arguments) ==
    /\ pc[k] = "idle"
    /\ Cardinality(InFlightNow) < Concurrency
    /\ pc' = [pc EXCEPT ![k] = place]
    /\ mem' = [mem EXCEPT ![k] = arguments]
    /\ UNCHANGED <<effects, tables, catalog, spent>>

BeginVisit(k, u) ==
    Begin(k, "find", [NoMemory EXCEPT !.op = "visit", !.user = u])

BeginCreate(k, u, p, q) ==
    Begin(k, "find", [NoMemory EXCEPT !.op = "create", !.user = u, !.product = p, !.quantity = q])

\* The id comes from the cart the user was shown; the quantity is any number.
BeginUpdate(k, i, q) ==
    /\ LiveItem(i)
    /\ Begin(k, "read", [NoMemory EXCEPT !.op = "update", !.item = i, !.newQuantity = q])

BeginDelete(k, i) ==
    /\ LiveItem(i)
    /\ Begin(k, "read", [NoMemory EXCEPT !.op = "delete", !.item = i])

\* Locals are dropped when the call is over.
Goto(k, place) ==
    /\ pc' = [pc EXCEPT ![k] = place]
    /\ mem' = IF place \in Over THEN [mem EXCEPT ![k] = NoMemory] ELSE mem

Continue(k, place, locals) ==
    /\ pc' = [pc EXCEPT ![k] = place]
    /\ mem' = [mem EXCEPT ![k] = locals]

\* NotFoundException: create catches it and inserts the item, the other two
\* let it through.
NotFound(k) ==
    /\ Goto(k, IF mem[k].op = "create" THEN "insert" ELSE "failed")
    /\ UNCHANGED <<effects, tables>>

\* findProductOnCart destructures the promotion and the author of an active
\* product; without one of them it throws, and what convertRpcException makes
\* of it is never a NotFoundException.
Refused(k) ==
    /\ pc[k] \in Remote
    /\ mem[k].product \notin quotable
    /\ Goto(k, "failed")
    /\ UNCHANGED <<effects, tables, catalog, spent>>

\* As Fault, when the catch block inserts whatever the error was.
FaultTakenForNotFound(k) ==
    /\ pc[k] \in InFlight
    /\ Spend("fault", MaxFaults)
    /\ Goto(k, IF pc[k] \in {"lookup", "read", "writeTotal", "writeItem", "ownTotal"}
                  /\ mem[k].op = "create" THEN "insert" ELSE "failed")
    /\ UNCHANGED <<effects, tables, catalog>>

\* A statement fails, a call is not answered within 10 s, or the process
\* dies.  create's catch block rethrows what is not a NotFoundException.
Fault(k) ==
    /\ pc[k] \in InFlight
    /\ Spend("fault", MaxFaults)
    /\ Goto(k, "failed")
    /\ UNCHANGED <<effects, tables, catalog>>

-----------------------------------------------------------------------------
(* create: getUserCart, GET_PRODUCT_BY_ID, the lookup.                     *)

\* A visit only shows the cart, or how many items are in it.
Found(k, c, total) ==
    IF mem[k].op = "visit" THEN Goto(k, "ok")
    ELSE Continue(k, "fetch", [mem[k] EXCEPT !.cart = c, !.total = total])

\* As Find, without the test for an empty result: the id is undefined.
FindUnchecked(k) ==
    /\ pc[k] = "find"
    /\ LET mine == CartsOf(mem[k].user) IN
          IF mine = {} THEN Found(k, -1, 0) ELSE Found(k, Max(mine), cart[Max(mine)].total)
    /\ UNCHANGED <<effects, tables, catalog, spent>>

\* The user's newest cart.
Find(k) ==
    /\ pc[k] = "find"
    /\ LET mine == CartsOf(mem[k].user) IN
          IF mine = {} THEN Goto(k, "open") ELSE Found(k, Max(mine), cart[Max(mine)].total)
    /\ UNCHANGED <<effects, tables, catalog, spent>>

\* The user has none: a row is inserted, whoever else does the same.
Open(k) ==
    /\ pc[k] = "open"
    /\ Unused(cart) # {}
    /\ LET c == Min(Unused(cart)) IN
          /\ cart' = [cart EXCEPT ![c] = [state |-> "live", user |-> mem[k].user, total |-> 0]]
          /\ Found(k, c, 0)
    /\ UNCHANGED <<effects, item, catalog, spent>>

Fetch(k) ==
    /\ pc[k] = "fetch"
    /\ mem[k].product \in quotable
    /\ Continue(k, "lookup", [mem[k] EXCEPT !.price = price[mem[k].product]])
    /\ UNCHANGED <<effects, tables, catalog, spent>>

\* A row with the product: its quantity is to be raised.
Lookup(k) ==
    /\ pc[k] = "lookup"
    /\ \E i \in Carrying(mem[k].user, mem[k].product) :
          Continue(k, "read", [mem[k] EXCEPT !.item = i,
                                 !.newQuantity = item[i].quantity + mem[k].quantity])
    /\ UNCHANGED <<effects, tables, catalog, spent>>

LookupFindsNone(k) ==
    /\ pc[k] = "lookup"
    /\ Carrying(mem[k].user, mem[k].product) = {}
    /\ NotFound(k)
    /\ UNCHANGED <<catalog, spent>>

-----------------------------------------------------------------------------
(* update and delete; create runs update on the row it found.              *)

Read(k) ==
    /\ pc[k] = "read"
    /\ LET i == mem[k].item IN
          IF LiveItem(i)
          THEN /\ Continue(k, "refetch",
                     [mem[k] EXCEPT !.product = item[i].product,
                                    !.itemCart = item[i].cart,
                                    !.itemTotal = cart[item[i].cart].total,
                                    !.oldQuantity = item[i].quantity])
               /\ UNCHANGED <<effects, tables>>
          ELSE NotFound(k)
    /\ UNCHANGED <<catalog, spent>>

Refetch(k) ==
    /\ pc[k] = "refetch"
    /\ mem[k].product \in quotable
    /\ Continue(k, "writeTotal", [mem[k] EXCEPT !.itemPrice = price[mem[k].product]])
    /\ UNCHANGED <<effects, tables, catalog, spent>>

\* As NewQuantity, when delete subtracts one piece.
NewQuantityOneLess(k) == IF mem[k].op = "delete" THEN mem[k].oldQuantity - 1
                         ELSE mem[k].newQuantity

\* The quantity the item is to have after the call.
NewQuantity(k) == IF mem[k].op = "delete" THEN 0 ELSE mem[k].newQuantity

\* cartService.update with the total computed from what was read; update
\* skips it when the quantity does not change.
WriteTotal(k) ==
    /\ pc[k] = "writeTotal"
    /\ LET was == mem[k].oldQuantity
           new == NewQuantity(k)
       IN  IF mem[k].op # "delete" /\ new = was
           THEN Goto(k, "writeItem") /\ UNCHANGED <<effects, tables>>
           ELSE IF LiveCart(mem[k].itemCart)
           THEN /\ SetTotal(mem[k].itemCart, mem[k].itemTotal + (new - was) * mem[k].itemPrice)
                /\ Goto(k, "writeItem")
                /\ UNCHANGED <<effects, item>>
           ELSE NotFound(k)
    /\ UNCHANGED <<catalog, spent>>

\* As WriteItem, when the row is saved (insert or update) and not updated.
WriteItemSaves(k) ==
    /\ pc[k] = "writeItem"
    /\ LET i == mem[k].item IN
          item' = [item EXCEPT ![i].state = IF mem[k].op = "delete" THEN "gone" ELSE "live",
                               ![i].quantity = mem[k].newQuantity]
    /\ effects' = IF mem[k].op = "create"
                  THEN [effects EXCEPT ![k] = @ \cup {"grown"}] ELSE effects
    /\ Goto(k, IF mem[k].op = "create" THEN "ownTotal" ELSE "ok")
    /\ UNCHANGED <<cart, catalog, spent>>

WriteItem(k) ==
    /\ pc[k] = "writeItem"
    /\ IF ~LiveItem(mem[k].item) THEN NotFound(k)
       ELSE /\ item' = IF mem[k].op = "delete"
                       THEN [item EXCEPT ![mem[k].item].state = "gone"]
                       ELSE [item EXCEPT ![mem[k].item].quantity = mem[k].newQuantity]
            /\ effects' = IF mem[k].op = "create"
                          THEN [effects EXCEPT ![k] = @ \cup {"grown"}] ELSE effects
            /\ Goto(k, IF mem[k].op = "create" THEN "ownTotal" ELSE "ok")
            /\ UNCHANGED cart
    /\ UNCHANGED <<catalog, spent>>

-----------------------------------------------------------------------------
(* The rest of create.                                                     *)

\* What create writes as the total of the cart it began with.
CreateTotal(k) == mem[k].total + mem[k].quantity * mem[k].price

\* create's own cartService.update after update(...) returned.
OwnTotal(k) ==
    /\ pc[k] = "ownTotal"
    /\ IF LiveCart(mem[k].cart)
       THEN /\ SetTotal(mem[k].cart, CreateTotal(k))
            /\ Goto(k, "ok")
            /\ UNCHANGED <<effects, item>>
       ELSE NotFound(k)
    /\ UNCHANGED <<catalog, spent>>

\* The new row; its foreign key needs the cart.
Insert(k) ==
    /\ pc[k] = "insert"
    /\ IF LiveCart(mem[k].cart)
       THEN /\ Unused(item) # {}
            /\ item' = [item EXCEPT ![Min(Unused(item))] =
                           [state |-> "live", cart |-> mem[k].cart,
                            product |-> mem[k].product, quantity |-> mem[k].quantity]]
            /\ effects' = [effects EXCEPT ![k] = @ \cup {"inserted"}]
            /\ Goto(k, "insertTotal")
       ELSE Goto(k, "failed") /\ UNCHANGED <<item, effects>>
    /\ UNCHANGED <<cart, catalog, spent>>

InsertTotal(k) ==
    /\ pc[k] = "insertTotal"
    /\ IF LiveCart(mem[k].cart)
       THEN SetTotal(mem[k].cart, CreateTotal(k)) /\ Goto(k, "ok")
       ELSE Goto(k, "failed") /\ UNCHANGED cart
    /\ UNCHANGED <<effects, item, catalog, spent>>

-----------------------------------------------------------------------------
(* Guests: no prices, no totals, a row for every add.                      *)

BeginVisitForGuest(k, g) ==
    Begin(k, "findTemp", [NoMemory EXCEPT !.op = "guestVisit", !.user = g])

BeginCreateForGuest(k, g, p, q) ==
    Begin(k, "findTemp", [NoMemory EXCEPT !.op = "guestCreate", !.user = g, !.product = p, !.quantity = q])

LiveTempItem(i) == tempItem[i].state = "live"

\* As TempCartsOf, with the items joined by an inner join: empty carts are missed.
TempCartsWithItems(g) ==
    {c \in TempCart : /\ tempCart[c].state = "live" /\ tempCart[c].guest = g
                      /\ \E i \in TempItem : LiveTempItem(i) /\ tempItem[i].cart = c}

TempCartsOf(g) == {c \in TempCart : tempCart[c].state = "live" /\ tempCart[c].guest = g}

FoundTemp(k, c) ==
    IF mem[k].op = "guestVisit" THEN Goto(k, "ok")
    ELSE Continue(k, "insertTemp", [mem[k] EXCEPT !.cart = c])

\* getGuestCart: any of the guest's carts.
FindTemp(k) ==
    /\ pc[k] = "findTemp"
    /\ LET mine == TempCartsOf(mem[k].user) IN
          \/ mine = {} /\ Goto(k, "openTemp")
          \/ \E c \in mine : FoundTemp(k, c)
    /\ UNCHANGED <<effects, tempTables>>

OpenTemp(k) ==
    /\ pc[k] = "openTemp"
    /\ Unused(tempCart) # {}
    /\ LET c == Min(Unused(tempCart))
           rivals == {j \in Call \ {k} : pc[j] = "openTemp" /\ mem[j].user = mem[k].user}
       IN  /\ tempCart' = [tempCart EXCEPT ![c] = [state |-> "live", guest |-> mem[k].user,
                                                   by |-> k, raced |-> rivals]]
           /\ FoundTemp(k, c)
    /\ UNCHANGED <<effects, tempItem>>

\* GET_PRODUCT_BY_ID is sent and not awaited: what its answer does is
\* ProductRemoval's.
InsertTemp(k) ==
    /\ pc[k] = "insertTemp"
    /\ Unused(tempItem) # {}
    /\ tempItem' = [tempItem EXCEPT ![Min(Unused(tempItem))] =
                       [state |-> "live", cart |-> mem[k].cart,
                        product |-> mem[k].product, quantity |-> mem[k].quantity]]
    /\ Goto(k, "ok")
    /\ UNCHANGED <<effects, tempCart>>

\* One statement each; the id comes from the cart the guest was shown.
UpdateForGuest(i, q) ==
    /\ LiveTempItem(i)
    /\ tempItem' = [tempItem EXCEPT ![i].quantity = q]
    /\ UNCHANGED <<pc, mem, effects, tempCart>>

DeleteForGuest(i) ==
    /\ LiveTempItem(i)
    /\ tempItem' = [tempItem EXCEPT ![i].state = "gone"]
    /\ UNCHANGED <<pc, mem, effects, tempCart>>

-----------------------------------------------------------------------------
(* The other services.                                                     *)

\* An administrator changes the product or its promotion.
Reprice(p) ==
    /\ Spend("reprice", MaxReprices)
    /\ price' = [price EXCEPT ![p] = NewPrice[p]]
    /\ UNCHANGED <<pc, mem, effects, tables, quotable>>

\* The product is deactivated, or its promotion or author is deleted.
Withdraw(p) ==
    /\ p \in quotable
    /\ Spend("withdrawal", MaxWithdrawals)
    /\ quotable' = quotable \ {p}
    /\ UNCHANGED <<pc, mem, effects, tables, price>>

\* REMOVE_CART_ITEM: the product's rows go, the totals stay.
RemoveForProduct(p) ==
    /\ Spend("removal", MaxRemovals)
    /\ item' = [i \in Item |-> IF LiveItem(i) /\ item[i].product = p
                              THEN [item[i] EXCEPT !.state = "gone"] ELSE item[i]]
    /\ UNCHANGED <<pc, mem, effects, cart, catalog>>

\* DELETE_CART: the cart goes, and its items with it.
CheckOut(c) ==
    /\ LiveCart(c)
    /\ Spend("checkout", MaxCheckouts)
    /\ cart' = [cart EXCEPT ![c].state = "gone"]
    /\ item' = [i \in Item |-> IF LiveItem(i) /\ item[i].cart = c
                              THEN [item[i] EXCEPT !.state = "gone"] ELSE item[i]]
    /\ UNCHANGED <<pc, mem, effects, catalog>>

-----------------------------------------------------------------------------
Step(k) ==
    \/ Find(k) \/ Open(k) \/ Fetch(k) \/ Lookup(k) \/ LookupFindsNone(k)
    \/ Read(k) \/ Refetch(k) \/ WriteTotal(k) \/ WriteItem(k)
    \/ OwnTotal(k) \/ Insert(k) \/ InsertTotal(k)
    \/ Refused(k)

UserNext ==
    \/ \E k \in Call, u \in User : BeginVisit(k, u)
    \/ \E k \in Call, u \in User, p \in Product, q \in 1..MaxQuantity : BeginCreate(k, u, p, q)
    \/ \E k \in Call, i \in Item, q \in (-1)..MaxQuantity : BeginUpdate(k, i, q)
    \/ \E k \in Call, i \in Item : BeginDelete(k, i)
    \/ \E k \in Call, g \in Guest : BeginVisitForGuest(k, g)
    \/ \E k \in Call, g \in Guest, p \in Product, q \in 1..MaxQuantity : BeginCreateForGuest(k, g, p, q)
    \/ \E k \in Call : Step(k) \/ Fault(k)
    \/ \E p \in Product : Reprice(p) \/ Withdraw(p) \/ RemoveForProduct(p)
    \/ \E c \in Cart : CheckOut(c)

GuestNext ==
    \/ \E k \in Call : FindTemp(k) \/ OpenTemp(k) \/ InsertTemp(k)
    \/ \E i \in TempItem, q \in 0..MaxQuantity : UpdateForGuest(i, q)
    \/ \E i \in TempItem : DeleteForGuest(i)

\* Guests' statements are on tables that no other statement touches.
Next ==
    \/ UserNext /\ UNCHANGED tempTables
    \/ GuestNext /\ UNCHANGED <<tables, catalog, spent>>

Spec == Init /\ [][Next]_vars

-----------------------------------------------------------------------------
(* Properties.                                                             *)

\* One create adds its quantity once: although a NotFoundException of any
\* step of the update branch leads to the insert branch, no call both raises
\* a row and inserts another.
AddedOnce == \A k \in Call : effects[k] # {"grown", "inserted"}

\* A row, a guest's too, never leaves the cart it was put into, never changes
\* its product and never comes back; neither does a deleted cart.
RowsStayPut ==
    [][/\ \A i \in Item : item[i].state # "unused" =>
             /\ item'[i].cart = item[i].cart /\ item'[i].product = item[i].product
             /\ item[i].state = "gone" => item'[i].state = "gone"
       /\ \A i \in TempItem : tempItem[i].state # "unused" =>
             /\ tempItem'[i].cart = tempItem[i].cart /\ tempItem'[i].product = tempItem[i].product
             /\ tempItem[i].state = "gone" => tempItem'[i].state = "gone"
       /\ \A c \in Cart : cart[c].state = "gone" => cart'[c] = cart[c]]_vars

\* A guest's cart is one row, which every later visit finds, with its items
\* or without: there are two, and items that are not shown, only when the
\* second was about to be inserted while the first was.
OneCartPerGuest ==
    \A c, d \in TempCart :
       c < d /\ tempCart[d].state = "live" /\ tempCart[c].guest = tempCart[d].guest
          => tempCart[d].by \in tempCart[c].raced

\* "Persistent carts for registered users": when create answers, the product
\* is in a cart of the user who added it.
AddedToOwnCart ==
    [][\A k \in Call : /\ mem[k].op = "create" /\ pc[k] # "ok" /\ pc'[k] = "ok"
          => \E i \in Item : /\ item'[i].state = "live"
                             /\ item'[i].product = mem[k].product
                             /\ cart'[item'[i].cart].user = mem[k].user]_vars

-----------------------------------------------------------------------------
(* The inductive invariant.                                                *)

Adding   == {"fetch", "lookup", "ownTotal", "insert", "insertTotal"}   \* only create is there
Changing == {"read", "refetch", "writeTotal", "writeItem"}

\* What a call with the locals m knows, where it stands, of the rows it has
\* read: they are still of the same cart and product, if no longer there.
Knows(place, m) ==
    /\ m.op \in {"visit", "create"} => m.user \in User
    /\ m.op \in {"guestVisit", "guestCreate"} => m.user \in Guest
    /\ place \in {"find", "open"} => m.op \in {"visit", "create"}
    /\ place \in {"findTemp", "openTemp", "insertTemp"} => m.op \in {"guestVisit", "guestCreate"}
    /\ place \in Adding => m.op = "create"
    /\ place \in Changing => m.op \in {"create", "update", "delete"}
    /\ place \in Adding \cup Changing /\ m.op = "create" =>
          m.cart \in Cart /\ cart[m.cart].state # "unused"
    /\ place \in Changing \cup {"ownTotal"} => m.item \in Item /\ item[m.item].state # "unused"
    /\ place \in Changing \cup {"ownTotal"} /\ (place # "read" \/ m.op = "create") =>
          m.product = item[m.item].product
    /\ place \in (Changing \ {"read"}) \cup {"ownTotal"} => m.itemCart = item[m.item].cart
    /\ place = "insertTemp" => m.cart \in TempCart

Places == \A k \in Call : Knows(pc[k], mem[k])

\* Items are in carts, and go when these go.
ItemsAreInCarts ==
    /\ \A i \in Item : item[i].state # "unused" => item[i].cart \in Cart /\ cart[item[i].cart].state # "unused"
    /\ \A i \in Item : LiveItem(i) => LiveCart(item[i].cart)

\* A call that raised a row comes to insert only after its cart has gone.
Fits(effect, place, m) ==
    /\ "grown" \in effect => \/ place \in {"ownTotal"} \cup Over
                             \/ place = "insert" /\ ~LiveCart(m.cart)
    /\ "inserted" \in effect => place \in {"insertTotal"} \cup Over

GrownOnce == \A k \in Call : Fits(effects[k], pc[k], mem[k])

\* Rows of guests are made one after the other and stay, and who is about to
\* insert one raced all that the guest has.
OpenersRaced ==
    /\ \A c, d \in TempCart : c < d /\ tempCart[d].state = "live" => tempCart[c].state = "live"
    /\ \A c \in TempCart : tempCart[c].state \in {"unused", "live"}
    /\ \A k \in Call, c \in TempCart :
          pc[k] = "openTemp" /\ tempCart[c].state = "live" /\ tempCart[c].guest = mem[k].user
             => k \in tempCart[c].raced

IInv == /\ TypeOK /\ Places /\ ItemsAreInCarts /\ GrownOnce /\ AddedOnce
        /\ OpenersRaced /\ OneCartPerGuest

=============================================================================
