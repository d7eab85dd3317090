--------------------------- MODULE CartItemsProofs ---------------------------
(***************************************************************************)
(* Proofs about CartItems and CartHistory, for any calls, customers,       *)
(* guests and products and any bounds.                                     *)
(*                                                                         *)
(* Two inductive invariants.  IInv is of the calls and the rows, and does  *)
(* not see the totals.  HistoryInv adds what the totals are worth and when *)
(* a product has two rows, of whatever calls are under way.  For each, one *)
(* lemma says what is left to show when a call goes on (CallStep for IInv, *)
(* HandStep and LooksStay for HistoryInv), and one lemma an action shows   *)
(* it.                                                                     *)
(***************************************************************************)
EXTENDS CartHistory, FiniteSetTheorems, WellFoundedInduction, TLAPS

-----------------------------------------------------------------------------
(* Rows, calls and what they keep.                                         *)

\* The least of a set of rows is one of them, and the least.
LEMMA LeastRow ==
    ASSUME NEW S, S \subseteq Nat, S # {}
    PROVE  Min(S) \in S /\ \A y \in S : Min(S) <= y
<1> DEFINE Less == {ss \in Nat \X Nat : ss[1] < ss[2]}
<1>1. PICK x \in S : \A y \in S : ~ (<<y, x>> \in Less)
  <2>1. IsWellFoundedOn(Less, Nat)
    BY NatLessThanWellFounded DEF OpToRel
  <2> HIDE DEF Less
  <2> QED  BY <2>1, WFMin
<1>2. \A y \in S : ~ (y < x)
  BY <1>1
<1>3. \A y \in S : x <= y
  BY <1>2
<1> QED  BY <1>3 DEF Min

\* So is the greatest.
LEMMA GreatestRow ==
    ASSUME NEW n \in Nat, NEW S, S \subseteq 1..n, S # {}
    PROVE  Max(S) \in S
<1> DEFINE Less == {ss \in Nat \X Nat : ss[1] < ss[2]}
           Below == {n - x : x \in S}
<1>0. \A x \in S : x \in Nat /\ n - x \in Nat
  OBVIOUS
<1>1. PICK b \in Below : \A y \in Below : ~ (<<y, b>> \in Less)
  <2>1. IsWellFoundedOn(Less, Nat)
    BY NatLessThanWellFounded DEF OpToRel
  <2>2. Below \subseteq Nat /\ Below # {}
    BY <1>0
  <2> HIDE DEF Less, Below
  <2> QED  BY <2>1, <2>2, WFMin
<1>2. PICK x \in S : b = n - x
  OBVIOUS
<1>3. ASSUME NEW y \in S
      PROVE  x >= y
  <2>1. n - y \in Below /\ n - y \in Nat /\ b \in Nat
    BY <1>0, <1>2
  <2>2. ~ (n - y < b)
    BY <1>1, <2>1
  <2> QED  BY <1>0, <1>2, <2>2
<1> QED  BY <1>3 DEF Max

\* The places of a call.
Where == {"idle"} \cup InFlight \cup Over

\* The locals of a call that has not begun are locals.
LEMMA MemoryType ==
    /\ NoMemory \in Memory
    /\ NoMemory.op = "none"
  BY PeopleAssumption, PriceAssumption, BoundsAssumption
     DEF NoMemory, Memory, Op, SomeUser, SomeProduct, NoRow

\* Goto is Continue, with the locals there are, or none once it is over.
LEMMA GotoContinues ==
    ASSUME TypeOK, NEW k \in Call, NEW place, Goto(k, place)
    PROVE  Continue(k, place, IF place \in Over THEN NoMemory ELSE mem[k])
<1>1. mem = [mem EXCEPT ![k] = mem[k]]
  BY DEF TypeOK
<1> QED  BY <1>1 DEF Goto, Continue

\* What other services spend is counted.
LEMMA Spending ==
    ASSUME NEW what \in Budget, NEW limit, TypeOK, Spend(what, limit)
    PROVE  spent' \in [Budget -> Nat] /\ spent[what] < limit
  BY DEF Spend, TypeOK

\* What no step does to the rows there are.
RowsKept ==
    /\ \A i \in Item : item[i].state # "unused" =>
          /\ item'[i].state # "unused" /\ item'[i].cart = item[i].cart /\ item'[i].product = item[i].product
          /\ item[i].state = "gone" => item'[i].state = "gone"
    /\ \A c \in Cart : cart[c].state # "unused" =>
          cart'[c].state # "unused" /\ (cart[c].state = "gone" => cart'[c] = cart[c])

\* The types of the two tables, as TypeOK has them.
CartsType == cart \in [Cart -> [state : RowState, user : User, total : Int]]
\* And of the rows in the carts.
ItemsType ==
    item \in [Item -> [state : RowState, cart : {NoRow} \cup Cart, product : Product, quantity : Int]]

\* One call goes on: what is left to show of the invariant is what concerns
\* it and the tables.
LEMMA CallStep ==
    ASSUME IInv, NEW k \in Call, NEW place \in Where, NEW locals \in Memory,
           Continue(k, place, locals), RowsKept, CartsType', ItemsType', ItemsAreInCarts',
           Knows(place, locals)',
           NEW effect \in SUBSET {"grown", "inserted"}, effects' = [effects EXCEPT ![k] = effect],
           Fits(effect, place, locals)', effect # {"grown", "inserted"},
           \A c \in TempCart : place = "openTemp" =>
              ~(tempCart[c].state = "live" /\ tempCart[c].guest = locals.user),
           UNCHANGED tempTables, price' \in [Product -> Nat], quotable' \subseteq Product,
           spent' \in [Budget -> Nat]
    PROVE  IInv' /\ RowsKept
<1> USE DEF IInv
<1>1. /\ pc'[k] = place /\ mem'[k] = locals
      /\ \A j \in Call \ {k} : pc'[j] = pc[j] /\ mem'[j] = mem[j]
      /\ pc' \in [Call -> Where] /\ mem' \in [Call -> Memory]
      /\ effects'[k] = effect /\ \A j \in Call \ {k} : effects'[j] = effects[j]
      /\ effects' \in [Call -> SUBSET {"grown", "inserted"}]
  BY DEF Continue, TypeOK, Where
<1>2. TypeOK'
  BY <1>1 DEF TypeOK, Where, CartsType, ItemsType, tempTables
<1>3. Places'
  <2>1. ASSUME NEW j \in Call \ {k}
        PROVE  Knows(pc[j], mem[j])'
    BY <1>1 DEF Places, Knows, RowsKept
  <2> QED  BY <1>1, <2>1 DEF Places
<1>4. GrownOnce'
  <2>1. ASSUME NEW j \in Call \ {k}
        PROVE  Fits(effects[j], pc[j], mem[j])'
    <3>1. Fits(effects[j], pc[j], mem[j]) /\ Knows(pc[j], mem[j])
      BY DEF GrownOnce, Places
    <3>2. pc[j] = "insert" /\ ~LiveCart(mem[j].cart) => ~LiveCart(mem[j].cart)'
      <4> SUFFICES ASSUME pc[j] = "insert", ~LiveCart(mem[j].cart)
                   PROVE  ~LiveCart(mem[j].cart)'
        OBVIOUS
      <4>1. mem[j].cart \in Cart /\ cart[mem[j].cart].state # "unused"
        BY <3>1 DEF Knows, Adding
      <4>2. cart[mem[j].cart].state = "gone"
        BY <4>1 DEF TypeOK, RowState, LiveCart
      <4> QED  BY <1>1, <4>1, <4>2 DEF RowsKept, LiveCart
    <3> QED  BY <1>1, <3>1, <3>2 DEF Fits, LiveCart
  <2> QED  BY <1>1, <2>1 DEF GrownOnce
<1>5. AddedOnce'
  BY <1>1 DEF AddedOnce
<1>6. OpenersRaced'
  BY <1>1 DEF OpenersRaced, tempTables
<1>7. OneCartPerGuest'
  BY DEF OneCartPerGuest, tempTables
<1> QED  BY <1>2, <1>3, <1>4, <1>5, <1>6, <1>7

\* The same, when the call only reads.
LEMMA ReadStep ==
    ASSUME IInv, NEW k \in Call, NEW place \in Where, NEW locals \in Memory,
           Continue(k, place, locals), UNCHANGED <<effects, tables, tempTables>>,
           Knows(place, locals), Fits(effects[k], place, locals),
           \A c \in TempCart : place = "openTemp" =>
              ~(tempCart[c].state = "live" /\ tempCart[c].guest = locals.user),
           price' \in [Product -> Nat], quotable' \subseteq Product, spent' \in [Budget -> Nat]
    PROVE  IInv' /\ RowsKept
<1> USE DEF IInv
<1>1. UNCHANGED <<effects, cart, item, tempTables>>
  BY DEF tables
<1>2. RowsKept
  BY <1>1 DEF RowsKept
<1>3. CartsType' /\ ItemsType'
  BY <1>1 DEF TypeOK, CartsType, ItemsType
<1>4. ItemsAreInCarts'
  BY <1>1 DEF ItemsAreInCarts, LiveCart, LiveItem
<1>5. Knows(place, locals)'
  BY <1>1 DEF Knows
<1>6. effects' = [effects EXCEPT ![k] = effects[k]] /\ effects[k] \in SUBSET {"grown", "inserted"}
  BY <1>1 DEF TypeOK
<1>7. Fits(effects[k], place, locals)'
  <2>1. \A effect : Fits(effect, place, locals) => Fits(effect, place, locals)'
    BY <1>1 DEF Fits, LiveCart
  <2> QED  BY <2>1
<1>8. effects[k] # {"grown", "inserted"}
  BY DEF AddedOnce
<1> QED  BY <1>1, <1>2, <1>3, <1>4, <1>5, <1>6, <1>7, <1>8, CallStep

\* A call in the order of its places.
LEMMA ThisCall ==
    ASSUME IInv, NEW k \in Call
    PROVE  /\ pc[k] \in Where /\ mem[k] \in Memory /\ effects[k] \in SUBSET {"grown", "inserted"}
           /\ Knows(pc[k], mem[k]) /\ Fits(effects[k], pc[k], mem[k]) /\ effects[k] # {"grown", "inserted"}
           /\ price \in [Product -> Nat] /\ quotable \subseteq Product /\ spent \in [Budget -> Nat]
           /\ CartsType /\ ItemsType
  BY DEF IInv, TypeOK, Where, Places, GrownOnce, AddedOnce, CartsType, ItemsType

\* A call that goes on to a place where no more is known, or ends.
LEMMA GotoStep ==
    ASSUME IInv, NEW k \in Call, NEW place \in Where, Goto(k, place),
           UNCHANGED <<effects, tables, tempTables>>,
           place \in Over \/ Knows(place, mem[k]), place \in Over \/ Fits(effects[k], place, mem[k]),
           place # "openTemp",
           price' \in [Product -> Nat], quotable' \subseteq Product, spent' \in [Budget -> Nat]
    PROVE  IInv' /\ RowsKept
<1> DEFINE locals == IF place \in Over THEN NoMemory ELSE mem[k]
<1>1. Continue(k, place, locals)
  BY GotoContinues DEF IInv
<1>2. locals \in Memory
  BY ThisCall, MemoryType
<1>3. Knows(place, locals)
  <2>1. place \in Over => Knows(place, NoMemory)
    BY MemoryType DEF Knows, Over, Adding, Changing
  <2> QED  BY <2>1
<1>4. Fits(effects[k], place, locals)
  <2>1. place \in Over => Fits(effects[k], place, NoMemory)
    BY DEF Fits
  <2> QED  BY <2>1
<1> HIDE DEF locals
<1> QED  BY <1>1, <1>2, <1>3, <1>4, ReadStep

\* A call begins.
LEMMA BeginStep ==
    ASSUME IInv, NEW k \in Call, NEW place \in {"find", "read", "findTemp"}, NEW arguments \in Memory,
           Begin(k, place, arguments), UNCHANGED tempTables, Knows(place, arguments)
    PROVE  IInv' /\ RowsKept
<1>1. /\ place \in Where /\ Continue(k, place, arguments)
      /\ UNCHANGED <<effects, tables, tempTables, price, quotable, spent>>
  BY DEF Begin, Continue, Where, InFlight, catalog
<1>2. Fits(effects[k], place, arguments)
  BY ThisCall DEF Begin, Fits, Over
<1> QED  BY <1>1, <1>2, ThisCall, ReadStep

\* getUserCart for a page.
LEMMA BeginVisitStep ==
    ASSUME IInv, NEW k \in Call, NEW u \in User, BeginVisit(k, u), UNCHANGED tempTables
    PROVE  IInv' /\ RowsKept
<1> DEFINE arguments == [NoMemory EXCEPT !.op = "visit", !.user = u]
<1>1. arguments \in Memory /\ arguments.op = "visit" /\ arguments.user = u
  BY MemoryType DEF Memory, Op
<1>2. Knows("find", arguments)
  <2> HIDE DEF arguments
  <2> QED  BY <1>1 DEF Knows, Adding, Changing, BeginVisit, LiveItem
<1>3. Begin(k, "find", arguments)
  BY DEF BeginVisit
<1> HIDE DEF arguments
<1> QED  BY <1>1, <1>2, <1>3, BeginStep

\* create begins.
LEMMA BeginCreateStep ==
    ASSUME IInv, NEW k \in Call, NEW u \in User, NEW p \in Product, NEW q \in 1..MaxQuantity,
           BeginCreate(k, u, p, q), UNCHANGED tempTables
    PROVE  IInv' /\ RowsKept
<1> DEFINE arguments == [NoMemory EXCEPT !.op = "create", !.user = u, !.product = p, !.quantity = q]
<1>0. q \in 0..MaxQuantity
  BY BoundsAssumption
<1>1. arguments \in Memory /\ arguments.op = "create" /\ arguments.user = u
  BY <1>0, MemoryType DEF Memory, Op
<1>2. Knows("find", arguments)
  <2> HIDE DEF arguments
  <2> QED  BY <1>1 DEF Knows, Adding, Changing, BeginCreate, LiveItem
<1>3. Begin(k, "find", arguments)
  BY DEF BeginCreate
<1> HIDE DEF arguments
<1> QED  BY <1>1, <1>2, <1>3, BeginStep

\* update begins.
LEMMA BeginUpdateStep ==
    ASSUME IInv, NEW k \in Call, NEW i \in Item, NEW q \in (-1)..MaxQuantity,
           BeginUpdate(k, i, q), UNCHANGED tempTables
    PROVE  IInv' /\ RowsKept
<1> DEFINE arguments == [NoMemory EXCEPT !.op = "update", !.item = i, !.newQuantity = q]
<1>0. q \in Int
  BY BoundsAssumption
<1>1. arguments \in Memory /\ arguments.op = "update" /\ arguments.item = i
  BY <1>0, MemoryType DEF Memory, Op
<1>2. Knows("read", arguments)
  <2> HIDE DEF arguments
  <2> QED  BY <1>1 DEF Knows, Adding, Changing, BeginUpdate, LiveItem
<1>3. Begin(k, "read", arguments)
  BY DEF BeginUpdate
<1> HIDE DEF arguments
<1> QED  BY <1>1, <1>2, <1>3, BeginStep

\* delete begins.
LEMMA BeginDeleteStep ==
    ASSUME IInv, NEW k \in Call, NEW i \in Item, BeginDelete(k, i), UNCHANGED tempTables
    PROVE  IInv' /\ RowsKept
<1> DEFINE arguments == [NoMemory EXCEPT !.op = "delete", !.item = i]
<1>1. arguments \in Memory /\ arguments.op = "delete" /\ arguments.item = i
  BY MemoryType DEF Memory, Op
<1>2. Knows("read", arguments)
  <2> HIDE DEF arguments
  <2> QED  BY <1>1 DEF Knows, Adding, Changing, BeginDelete, LiveItem
<1>3. Begin(k, "read", arguments)
  BY DEF BeginDelete
<1> HIDE DEF arguments
<1> QED  BY <1>1, <1>2, <1>3, BeginStep

\* getGuestCart for a page.
LEMMA BeginVisitForGuestStep ==
    ASSUME IInv, NEW k \in Call, NEW g \in Guest, BeginVisitForGuest(k, g), UNCHANGED tempTables
    PROVE  IInv' /\ RowsKept
<1> DEFINE arguments == [NoMemory EXCEPT !.op = "guestVisit", !.user = g]
<1>1. arguments \in Memory /\ arguments.op = "guestVisit" /\ arguments.user = g
  BY MemoryType DEF Memory, Op
<1>2. Knows("findTemp", arguments)
  <2> HIDE DEF arguments
  <2> QED  BY <1>1 DEF Knows, Adding, Changing, BeginVisitForGuest, LiveItem
<1>3. Begin(k, "findTemp", arguments)
  BY DEF BeginVisitForGuest
<1> HIDE DEF arguments
<1> QED  BY <1>1, <1>2, <1>3, BeginStep

\* createForGuest begins.
LEMMA BeginCreateForGuestStep ==
    ASSUME IInv, NEW k \in Call, NEW g \in Guest, NEW p \in Product, NEW q \in 1..MaxQuantity,
           BeginCreateForGuest(k, g, p, q), UNCHANGED tempTables
    PROVE  IInv' /\ RowsKept
<1> DEFINE arguments == [NoMemory EXCEPT !.op = "guestCreate", !.user = g, !.product = p, !.quantity = q]
<1>0. q \in 0..MaxQuantity
  BY BoundsAssumption
<1>1. arguments \in Memory /\ arguments.op = "guestCreate" /\ arguments.user = g
  BY <1>0, MemoryType DEF Memory, Op
<1>2. Knows("findTemp", arguments)
  <2> HIDE DEF arguments
  <2> QED  BY <1>1 DEF Knows, Adding, Changing, BeginCreateForGuest, LiveItem
<1>3. Begin(k, "findTemp", arguments)
  BY DEF BeginCreateForGuest
<1> HIDE DEF arguments
<1> QED  BY <1>1, <1>2, <1>3, BeginStep

\* GET_PRODUCT_BY_ID refuses.
LEMMA RefusedStep ==
    ASSUME IInv, NEW k \in Call, Refused(k), UNCHANGED tempTables
    PROVE  IInv' /\ RowsKept
<1>1. Goto(k, "failed") /\ UNCHANGED <<effects, tables, tempTables, price, quotable, spent>>
  BY DEF Refused, catalog
<1>2. "failed" \in Where /\ "failed" \in Over
  BY DEF Where, Over
<1> QED  BY <1>1, <1>2, ThisCall, GotoStep

\* A statement fails.
LEMMA FaultStep ==
    ASSUME IInv, NEW k \in Call, Fault(k), UNCHANGED tempTables
    PROVE  IInv' /\ RowsKept
<1>1. Goto(k, "failed") /\ UNCHANGED <<effects, tables, tempTables, price, quotable>> /\ Spend("fault", MaxFaults)
  BY DEF Fault, catalog
<1>2. "failed" \in Where /\ "failed" \in Over /\ "fault" \in Budget
  BY DEF Where, Over, Budget
<1>3. spent' \in [Budget -> Nat]
  BY <1>1, <1>2, Spending DEF IInv
<1> QED  BY <1>1, <1>2, <1>3, ThisCall, GotoStep

\* A NotFoundException, at a place where create may go on to insert.
LEMMA NotFoundStep ==
    ASSUME IInv, NEW k \in Call, NotFound(k), UNCHANGED <<tempTables, price, quotable, spent>>,
           pc[k] \in {"lookup", "read", "writeTotal", "writeItem", "ownTotal"},
           "grown" \in effects[k] => ~LiveCart(mem[k].cart)
    PROVE  IInv' /\ RowsKept
<1> DEFINE place == IF mem[k].op = "create" THEN "insert" ELSE "failed"
<1>1. Goto(k, place) /\ UNCHANGED <<effects, tables, tempTables, price, quotable, spent>>
  BY DEF NotFound
<1>2. place \in Where
  BY DEF Where, Over, InFlight
<1>3. place \in Over \/ Knows(place, mem[k])
  BY ThisCall DEF Knows, Adding, Changing, Over
<1>4. place \in Over \/ Fits(effects[k], place, mem[k])
  BY ThisCall DEF Fits, Over
<1>5. place # "openTemp"
  OBVIOUS
<1> HIDE DEF place
<1> QED  BY <1>1, <1>2, <1>3, <1>4, <1>5, ThisCall, GotoStep

\* The places and rows there can be.
LEMMA Rows ==
    /\ MaxCarts \in Nat /\ MaxItems \in Nat /\ MaxTempCarts \in Nat /\ MaxTempItems \in Nat
    /\ Cart \subseteq Nat /\ Item \subseteq Nat /\ TempCart \subseteq Nat /\ TempItem \subseteq Nat
  BY BoundsAssumption DEF Cart, Item, TempCart, TempItem

\* getUserCart: the user's newest cart.
LEMMA FindStep ==
    ASSUME IInv, NEW k \in Call, Find(k), UNCHANGED tempTables
    PROVE  IInv' /\ RowsKept
<1> DEFINE mine == CartsOf(mem[k].user)
<1>1. UNCHANGED <<effects, tables, tempTables, price, quotable, spent>> /\ pc[k] = "find"
  BY DEF Find, catalog
<1>2. Knows("find", mem[k]) /\ Fits(effects[k], "find", mem[k]) /\ mem[k] \in Memory
  BY <1>1, ThisCall
<1>3. Fits(effects[k], "open", mem[k]) /\ \A m : Fits(effects[k], "fetch", m)
  BY <1>2 DEF Fits, Over
<1>4. CASE mine = {}
  <2>1. Goto(k, "open")
    BY <1>4 DEF Find
  <2>2. "open" \in Where /\ Knows("open", mem[k])
    BY <1>2 DEF Where, InFlight, Knows, Adding, Changing
  <2> QED  BY <1>1, <1>3, <2>1, <2>2, ThisCall, GotoStep
<1>5. CASE mine # {}
  <2> DEFINE c == Max(mine)
             locals == [mem[k] EXCEPT !.cart = c, !.total = cart[c].total]
  <2>1. c \in mine
    BY <1>5, Rows, GreatestRow DEF CartsOf, Cart
  <2>2. Found(k, c, cart[c].total)
    BY <1>5 DEF Find
  <2>3. c \in Cart /\ cart[c].state = "live" /\ cart[c].total \in Int
    BY <2>1, ThisCall DEF CartsOf, LiveCart, CartsType
  <2> HIDE DEF c
  <2>4. CASE mem[k].op = "visit"
    <3>1. Goto(k, "ok") /\ "ok" \in Where /\ "ok" \in Over
      BY <2>2, <2>4 DEF Found, Where, Over
    <3> QED  BY <1>1, <3>1, ThisCall, GotoStep
  <2>5. CASE mem[k].op # "visit"
    <3>1. Continue(k, "fetch", locals) /\ "fetch" \in Where
      BY <2>2, <2>5 DEF Found, Where, InFlight
    <3>2. locals \in Memory /\ locals.op = mem[k].op /\ locals.user = mem[k].user /\ locals.cart = c
      BY <1>2, <2>3 DEF Memory
    <3> HIDE DEF locals
    <3>3. Knows("fetch", locals)
      BY <1>2, <2>3, <2>5, <3>2 DEF Knows, Adding, Changing
    <3> QED  BY <1>1, <1>3, <3>1, <3>2, <3>3, ThisCall, ReadStep
  <2> QED  BY <2>4, <2>5
<1> QED  BY <1>4, <1>5

\* GET_PRODUCT_BY_ID answers.
LEMMA FetchStep ==
    ASSUME IInv, NEW k \in Call, Fetch(k), UNCHANGED tempTables
    PROVE  IInv' /\ RowsKept
<1> DEFINE locals == [mem[k] EXCEPT !.price = price[mem[k].product]]
<1>1. /\ pc[k] = "fetch" /\ Continue(k, "lookup", locals) /\ "lookup" \in Where
      /\ UNCHANGED <<effects, tables, tempTables, price, quotable, spent>>
  BY DEF Fetch, catalog, Where, InFlight
<1>2. locals \in Memory /\ locals.op = mem[k].op /\ locals.user = mem[k].user /\ locals.cart = mem[k].cart
  <2>1. mem[k].product \in Product /\ price[mem[k].product] \in Nat
    BY ThisCall DEF Memory
  <2> QED  BY <2>1, ThisCall DEF Memory
<1> HIDE DEF locals
<1>3. Knows("lookup", locals) /\ Fits(effects[k], "lookup", locals)
  BY <1>1, <1>2, ThisCall DEF Knows, Fits, Over, Adding, Changing
<1> QED  BY <1>1, <1>2, <1>3, ThisCall, ReadStep

\* The lookup finds a row of the product.
LEMMA LookupStep ==
    ASSUME IInv, NEW k \in Call, Lookup(k), UNCHANGED tempTables
    PROVE  IInv' /\ RowsKept
<1>1. PICK i \in Carrying(mem[k].user, mem[k].product) :
          Continue(k, "read", [mem[k] EXCEPT !.item = i,
                                 !.newQuantity = item[i].quantity + mem[k].quantity])
  BY DEF Lookup
<1> DEFINE locals == [mem[k] EXCEPT !.item = i, !.newQuantity = item[i].quantity + mem[k].quantity]
<1>2. /\ pc[k] = "lookup" /\ Continue(k, "read", locals) /\ "read" \in Where
      /\ UNCHANGED <<effects, tables, tempTables, price, quotable, spent>>
  BY <1>1 DEF Lookup, catalog, Where, InFlight
<1>3. i \in Item /\ item[i].state = "live" /\ item[i].product = mem[k].product
  BY DEF Carrying, LiveItem
<1>4. /\ locals \in Memory /\ locals.op = mem[k].op /\ locals.user = mem[k].user /\ locals.cart = mem[k].cart
      /\ locals.item = i /\ locals.product = mem[k].product
  <2>1. item[i].quantity \in Int /\ mem[k].quantity \in Int
    BY <1>3, ThisCall DEF Memory, ItemsType
  <2>2. item[i].quantity + mem[k].quantity \in Int
    BY <2>1
  <2> QED  BY <1>3, <2>2, ThisCall DEF Memory
<1> HIDE DEF locals
<1>5. Knows("read", locals)
  BY <1>2, <1>3, <1>4, ThisCall DEF Knows, Adding, Changing
<1>6. Fits(effects[k], "read", locals)
  BY <1>2, ThisCall DEF Fits, Over
<1> QED  BY <1>2, <1>4, <1>5, <1>6, ThisCall, ReadStep

\* The lookup finds none: create is to insert one.
LEMMA LookupFindsNoneStep ==
    ASSUME IInv, NEW k \in Call, LookupFindsNone(k), UNCHANGED tempTables
    PROVE  IInv' /\ RowsKept
<1>1. NotFound(k) /\ UNCHANGED <<tempTables, price, quotable, spent>> /\ pc[k] = "lookup"
  BY DEF LookupFindsNone, catalog
<1>2. "grown" \notin effects[k]
  BY <1>1, ThisCall DEF Fits, Over
<1> QED  BY <1>1, <1>2, NotFoundStep

\* The row to change is read, with its cart.
LEMMA ReadRowStep ==
    ASSUME IInv, NEW k \in Call, Read(k), UNCHANGED tempTables
    PROVE  IInv' /\ RowsKept
<1> DEFINE i == mem[k].item
           locals == [mem[k] EXCEPT !.product = item[i].product,
                                    !.itemCart = item[i].cart,
                                    !.itemTotal = cart[item[i].cart].total,
                                    !.oldQuantity = item[i].quantity]
<1>1. pc[k] = "read" /\ UNCHANGED <<tempTables, price, quotable, spent>>
  BY DEF Read, catalog
<1>2. "grown" \notin effects[k] /\ \A m : Fits(effects[k], "refetch", m)
  BY <1>1, ThisCall DEF Fits, Over
<1>3. CASE LiveItem(i)
  <2>1. /\ Continue(k, "refetch", locals) /\ "refetch" \in Where
        /\ UNCHANGED <<effects, tables, tempTables, price, quotable, spent>>
    BY <1>1, <1>3 DEF Read, Where, InFlight
  <2>2. i \in Item /\ item[i].state = "live" /\ item[i].cart \in Cart
    BY <1>3 DEF LiveItem, IInv, ItemsAreInCarts
  <2>3. /\ item[i].product \in Product /\ item[i].quantity \in Int
        /\ cart[item[i].cart].total \in Int
    BY <2>2, ThisCall DEF ItemsType, CartsType
  <2>4. /\ locals \in Memory /\ locals.op = mem[k].op /\ locals.user = mem[k].user /\ locals.cart = mem[k].cart
        /\ locals.item = i /\ locals.product = item[i].product /\ locals.itemCart = item[i].cart
    BY <2>2, <2>3, ThisCall DEF Memory
  <2> HIDE DEF locals
  <2>5. Knows("refetch", locals)
    BY <1>1, <2>2, <2>4, ThisCall DEF Knows, Adding, Changing
  <2> QED  BY <1>2, <2>1, <2>4, <2>5, ThisCall, ReadStep
<1>4. CASE ~LiveItem(i)
  <2>1. NotFound(k)
    BY <1>4 DEF Read
  <2> QED  BY <1>1, <1>2, <2>1, NotFoundStep
<1> QED  BY <1>3, <1>4

\* GET_PRODUCT_BY_ID answers again.
LEMMA RefetchStep ==
    ASSUME IInv, NEW k \in Call, Refetch(k), UNCHANGED tempTables
    PROVE  IInv' /\ RowsKept
<1> DEFINE locals == [mem[k] EXCEPT !.itemPrice = price[mem[k].product]]
<1>1. /\ pc[k] = "refetch" /\ Continue(k, "writeTotal", locals) /\ "writeTotal" \in Where
      /\ UNCHANGED <<effects, tables, tempTables, price, quotable, spent>>
  BY DEF Refetch, catalog, Where, InFlight
<1>2. /\ locals \in Memory /\ locals.op = mem[k].op /\ locals.user = mem[k].user /\ locals.cart = mem[k].cart
      /\ locals.item = mem[k].item /\ locals.product = mem[k].product
      /\ locals.itemCart = mem[k].itemCart
  <2>1. mem[k].product \in Product /\ price[mem[k].product] \in Nat
    BY ThisCall DEF Memory
  <2> QED  BY <2>1, ThisCall DEF Memory
<1> HIDE DEF locals
<1>3. Knows("writeTotal", locals)
  BY <1>1, <1>2, ThisCall DEF Knows, Adding, Changing
<1>4. Fits(effects[k], "writeTotal", locals)
  BY <1>1, <1>2, ThisCall DEF Fits, Over
<1> QED  BY <1>1, <1>2, <1>3, <1>4, ThisCall, ReadStep

\* getUserCart opens a cart.
LEMMA OpenStep ==
    ASSUME IInv, NEW k \in Call, Open(k), UNCHANGED tempTables
    PROVE  IInv' /\ RowsKept
<1> DEFINE c == Min(Unused(cart))
<1>1. /\ pc[k] = "open" /\ Unused(cart) # {} /\ Found(k, c, 0)
      /\ cart' = [cart EXCEPT ![c] = [state |-> "live", user |-> mem[k].user, total |-> 0]]
      /\ UNCHANGED <<effects, item, price, quotable, spent>>
  BY DEF Open, catalog
<1>2. c \in Cart /\ cart[c].state = "unused"
  <2>1. Unused(cart) \subseteq Cart
    BY ThisCall DEF Unused, CartsType
  <2>2. c \in Unused(cart)
    BY <1>1, <2>1, Rows, LeastRow
  <2> QED  BY <2>1, <2>2 DEF Unused
<1> HIDE DEF c
<1>3. /\ Knows("open", mem[k]) /\ Fits(effects[k], "open", mem[k]) /\ mem[k] \in Memory
      /\ mem[k].user \in User /\ mem[k].op \in {"visit", "create"}
  BY <1>1, ThisCall DEF Knows
<1>4. RowsKept
  BY <1>1, <1>2, ThisCall DEF RowsKept, CartsType
<1>5. CartsType' /\ ItemsType'
  BY <1>1, <1>2, <1>3, ThisCall DEF CartsType, ItemsType, RowState
<1>6. ItemsAreInCarts'
  BY <1>1, <1>2, ThisCall DEF IInv, ItemsAreInCarts, LiveItem, LiveCart, CartsType
<1>7. PICK effect \in SUBSET {"grown", "inserted"} :
         effect = effects[k] /\ effects' = [effects EXCEPT ![k] = effect] /\ effect # {"grown", "inserted"}
  <2>1. effects' = [effects EXCEPT ![k] = effects[k]]
    BY <1>1 DEF IInv, TypeOK
  <2> QED  BY <2>1, ThisCall
<1>8. PICK place \in {"ok", "fetch"}, locals \in Memory :
         /\ Continue(k, place, locals)
         /\ place = "fetch" => locals.op = "create" /\ locals.cart = c /\ locals.user \in User
         /\ place = "ok" => locals = NoMemory
  <2>1. CASE mem[k].op = "visit"
    <3>1. Goto(k, "ok") /\ "ok" \in Over
      BY <1>1, <2>1 DEF Found, Over
    <3> QED  BY <2>1, <3>1, GotoContinues, MemoryType DEF IInv
  <2>2. CASE mem[k].op # "visit"
    <3> DEFINE found == [mem[k] EXCEPT !.cart = c, !.total = 0]
    <3>1. Continue(k, "fetch", found)
      BY <1>1, <2>2 DEF Found
    <3>2. found \in Memory
      <4>1. PICK zero \in Int : zero = 0
        OBVIOUS
      <4>2. [mem[k] EXCEPT !.cart = c, !.total = zero] \in Memory
        BY <1>2, <1>3 DEF Memory
      <4> QED  BY <4>1, <4>2
    <3>3. found.op = mem[k].op /\ found.user = mem[k].user /\ found.cart = c
      BY <1>3 DEF Memory
    <3> HIDE DEF found
    <3> QED  BY <1>3, <2>2, <3>1, <3>2, <3>3
  <2> QED  BY <2>1, <2>2
<1>9. place \in Where /\ place # "openTemp"
  BY DEF Where, Over, InFlight
<1>11. Knows(place, locals)'
  <2>1. cart'[c].state # "unused"
    BY <1>1, <1>2, ThisCall DEF CartsType
  <2> QED  BY <1>2, <1>8, <2>1, MemoryType DEF Knows, Adding, Changing
<1>12. Fits(effect, place, locals)'
  <2>1. "grown" \notin effects[k] /\ "inserted" \notin effects[k]
    BY <1>3 DEF Fits, Over
  <2>2. effect = effects[k] => Fits(effect, place, locals)'
    BY <2>1 DEF Fits
  <2> QED  BY <1>7, <2>2
<1> QED  BY <1>1, <1>4, <1>5, <1>7, <1>8, <1>9, <1>6, <1>11, <1>12, ThisCall, CallStep

\* cartService.update writes a total; the call goes on, or ends.
LEMMA TotalStep ==
    ASSUME IInv, NEW k \in Call, NEW place \in {"writeItem", "ok"}, Goto(k, place),
           NEW c, LiveCart(c), NEW total \in Int, SetTotal(c, total),
           UNCHANGED <<effects, item, tempTables, price, quotable, spent>>,
           place = "writeItem" => Knows(place, mem[k]) /\ Fits(effects[k], place, mem[k])
    PROVE  IInv' /\ RowsKept
<1>1. PICK locals \in Memory :
         Continue(k, place, locals) /\ locals = IF place \in Over THEN NoMemory ELSE mem[k]
  BY GotoContinues, ThisCall, MemoryType DEF IInv
<1>2. Knows(place, locals) /\ Fits(effects[k], place, locals) /\ place \in Where
  BY <1>1, MemoryType, ThisCall DEF Knows, Fits, Over, Adding, Changing, Where, InFlight
<1>3. c \in Cart /\ cart[c].state = "live" /\ cart' = [cart EXCEPT ![c].total = total]
  BY DEF LiveCart, SetTotal
<1>4. /\ CartsType'
      /\ \A d \in Cart : cart'[d].state = cart[d].state
      /\ \A d \in Cart \ {c} : cart'[d] = cart[d]
  BY <1>3, ThisCall DEF CartsType
<1>5. RowsKept
  BY <1>3, <1>4 DEF RowsKept
<1>6. ItemsType' /\ ItemsAreInCarts'
  BY <1>4, ThisCall DEF IInv, ItemsType, ItemsAreInCarts, LiveItem, LiveCart
<1>7. PICK effect \in SUBSET {"grown", "inserted"} :
         effect = effects[k] /\ effects' = [effects EXCEPT ![k] = effect] /\ effect # {"grown", "inserted"}
  BY ThisCall DEF IInv, TypeOK
<1>8. Knows(place, locals)'
  BY <1>2, <1>4 DEF Knows
<1>9. Fits(effect, place, locals)'
  BY <1>2, <1>4, <1>7 DEF Fits, LiveCart
<1> QED  BY <1>1, <1>2, <1>4, <1>5, <1>6, <1>7, <1>8, <1>9, ThisCall, CallStep

\* The total update and delete write.
LEMMA WriteTotalStep ==
    ASSUME IInv, NEW k \in Call, WriteTotal(k), UNCHANGED tempTables
    PROVE  IInv' /\ RowsKept
<1> DEFINE was == mem[k].oldQuantity
           new == NewQuantity(k)
<1>1. pc[k] = "writeTotal" /\ UNCHANGED <<tempTables, price, quotable, spent>>
  BY DEF WriteTotal, catalog
<1>2. /\ Knows("writeItem", mem[k]) /\ Fits(effects[k], "writeItem", mem[k]) /\ "grown" \notin effects[k]
      /\ "writeItem" \in Where
  BY <1>1, ThisCall DEF Knows, Fits, Over, Adding, Changing, Where, InFlight
<1>3. CASE mem[k].op # "delete" /\ new = was
  <2>1. Goto(k, "writeItem") /\ UNCHANGED <<effects, tables>>
    BY <1>3 DEF WriteTotal
  <2> QED  BY <1>1, <1>2, <2>1, ThisCall, GotoStep
<1>4. CASE ~(mem[k].op # "delete" /\ new = was) /\ LiveCart(mem[k].itemCart)
  <2> DEFINE total == mem[k].itemTotal + (new - was) * mem[k].itemPrice
  <2>1. /\ SetTotal(mem[k].itemCart, total) /\ Goto(k, "writeItem")
        /\ UNCHANGED <<effects, item>>
    BY <1>4 DEF WriteTotal
  <2>2. total \in Int
    <3>1. mem[k].itemTotal \in Int /\ mem[k].itemPrice \in Int /\ was \in Int /\ new \in Int
      BY ThisCall DEF Memory, NewQuantity
    <3> HIDE DEF was, new
    <3> QED  BY <3>1
  <2> HIDE DEF total
  <2> QED  BY <1>1, <1>2, <1>4, <2>1, <2>2, TotalStep
<1>5. CASE ~(mem[k].op # "delete" /\ new = was) /\ ~LiveCart(mem[k].itemCart)
  <2>1. NotFound(k)
    BY <1>5 DEF WriteTotal
  <2> QED  BY <1>1, <1>2, <2>1, NotFoundStep
<1> QED  BY <1>3, <1>4, <1>5

\* What create writes is a number.
LEMMA CreateTotalType ==
    ASSUME IInv, NEW k \in Call
    PROVE  CreateTotal(k) \in Int
<1>1. mem[k].total \in Int /\ mem[k].quantity \in Int /\ mem[k].price \in Int
  BY ThisCall DEF Memory
<1> QED  BY <1>1 DEF CreateTotal

\* create's own total, after update returned.
LEMMA OwnTotalStep ==
    ASSUME IInv, NEW k \in Call, OwnTotal(k), UNCHANGED tempTables
    PROVE  IInv' /\ RowsKept
<1>1. pc[k] = "ownTotal" /\ UNCHANGED <<tempTables, price, quotable, spent>>
  BY DEF OwnTotal, catalog
<1>2. CASE LiveCart(mem[k].cart)
  BY <1>1, <1>2, CreateTotalType, TotalStep DEF OwnTotal
<1>3. CASE ~LiveCart(mem[k].cart)
  BY <1>1, <1>3, NotFoundStep DEF OwnTotal
<1> QED  BY <1>2, <1>3

\* create's total, after the insert.
LEMMA InsertTotalStep ==
    ASSUME IInv, NEW k \in Call, InsertTotal(k), UNCHANGED tempTables
    PROVE  IInv' /\ RowsKept
<1>1. pc[k] = "insertTotal" /\ UNCHANGED <<effects, item, tempTables, price, quotable, spent>>
  BY DEF InsertTotal, catalog
<1>2. CASE LiveCart(mem[k].cart)
  BY <1>1, <1>2, CreateTotalType, TotalStep DEF InsertTotal
<1>3. CASE ~LiveCart(mem[k].cart)
  <2>1. Goto(k, "failed") /\ UNCHANGED tables /\ "failed" \in Where /\ "failed" \in Over
    BY <1>1, <1>3 DEF InsertTotal, tables, Where, Over
  <2> QED  BY <1>1, <2>1, ThisCall, GotoStep
<1> QED  BY <1>2, <1>3

\* A row is changed or deleted.
LEMMA WriteItemStep ==
    ASSUME IInv, NEW k \in Call, WriteItem(k), UNCHANGED tempTables
    PROVE  IInv' /\ RowsKept
<1>1. /\ pc[k] = "writeItem" /\ UNCHANGED <<tempTables, price, quotable, spent>>
      /\ Fits(effects[k], "writeItem", mem[k]) /\ Knows("writeItem", mem[k]) /\ mem[k] \in Memory
  BY ThisCall DEF WriteItem, catalog
<1>2. "grown" \notin effects[k] /\ "inserted" \notin effects[k]
  BY <1>1 DEF Fits, Over
<1>3. CASE ~LiveItem(mem[k].item)
  <2>1. NotFound(k)
    BY <1>3 DEF WriteItem
  <2> QED  BY <1>1, <1>2, <2>1, NotFoundStep
<1>4. CASE LiveItem(mem[k].item)
  <2> DEFINE i == mem[k].item
  <2>0. PICK place \in {"ownTotal", "ok"}, effect \in {{}, {"grown"}}, locals \in Memory :
           /\ place = IF mem[k].op = "create" THEN "ownTotal" ELSE "ok"
           /\ locals = IF mem[k].op = "create" THEN mem[k] ELSE NoMemory
           /\ effect = IF mem[k].op = "create" THEN {"grown"} ELSE {}
    BY <1>1, MemoryType
  <2>1. /\ item' = IF mem[k].op = "delete"
                   THEN [item EXCEPT ![i].state = "gone"]
                   ELSE [item EXCEPT ![i].quantity = mem[k].newQuantity]
        /\ effects' = IF mem[k].op = "create"
                      THEN [effects EXCEPT ![k] = @ \cup {"grown"}] ELSE effects
        /\ Goto(k, place) /\ UNCHANGED cart
    BY <1>4, <2>0 DEF WriteItem
  <2>2. i \in Item /\ item[i].state = "live" /\ mem[k].newQuantity \in Int
    BY <1>1, <1>4 DEF LiveItem, Memory
  <2>3. /\ ItemsType'
        /\ \A j \in Item : item'[j].cart = item[j].cart /\ item'[j].product = item[j].product
        /\ item'[i].state \in {"live", "gone"}
        /\ \A j \in Item \ {i} : item'[j] = item[j]
    BY <2>1, <2>2, ThisCall DEF ItemsType, RowState
  <2>4. RowsKept /\ CartsType'
    BY <2>1, <2>2, <2>3, ThisCall DEF RowsKept, CartsType
  <2>5. ItemsAreInCarts'
    BY <2>1, <2>2, <2>3 DEF IInv, ItemsAreInCarts, LiveItem, LiveCart
  <2>6. effects[k] = {}
    BY <1>2, ThisCall
  <2>7. effects' = [effects EXCEPT ![k] = effect]
    BY <2>0, <2>1, <2>6 DEF IInv, TypeOK
  <2>8. Continue(k, place, locals) /\ place \in Where
    <3>1. Continue(k, place, IF place \in Over THEN NoMemory ELSE mem[k])
      BY <2>1, GotoContinues DEF IInv
    <3> QED  BY <2>0, <3>1 DEF Over, Where, InFlight
  <2>9. Knows(place, locals)'
    <3>1. CASE place = "ownTotal"
      <4>1. locals = mem[k]
        BY <2>0, <3>1
      <4>2. Knows("writeItem", locals)
        BY <1>1, <4>1
      <4>3. locals.op = "create"
        BY <2>0, <3>1
      <4> QED  BY <2>1, <2>3, <2>4, <3>1, <4>2, <4>3 DEF Knows, Adding, Changing, RowsKept
    <3>2. CASE place = "ok"
      BY <2>0, <3>2, MemoryType DEF Knows, Adding, Changing
    <3> QED  BY <3>1, <3>2
  <2>10. Fits(effect, place, locals)'
    BY DEF Fits, Over
  <2>11. effect \in SUBSET {"grown", "inserted"} /\ "inserted" \notin effect
    OBVIOUS
  <2>12. effect # {"grown", "inserted"} /\ place # "openTemp"
    BY <2>11
  <2> QED  BY <1>1, <2>11, <2>12, <2>3, <2>4, <2>5, <2>7, <2>8, <2>9, <2>10, ThisCall, CallStep
<1> QED  BY <1>3, <1>4

\* A row is inserted.
LEMMA InsertStep ==
    ASSUME IInv, NEW k \in Call, Insert(k), UNCHANGED tempTables
    PROVE  IInv' /\ RowsKept
<1>1. /\ pc[k] = "insert" /\ UNCHANGED <<cart, tempTables, price, quotable, spent>>
      /\ Fits(effects[k], "insert", mem[k]) /\ Knows("insert", mem[k]) /\ mem[k] \in Memory
  BY ThisCall DEF Insert, catalog
<1>2. CASE ~LiveCart(mem[k].cart)
  <2>1. Goto(k, "failed") /\ UNCHANGED <<effects, tables>> /\ "failed" \in Where /\ "failed" \in Over
    BY <1>1, <1>2 DEF Insert, tables, Where, Over
  <2> QED  BY <1>1, <2>1, ThisCall, GotoStep
<1>3. CASE LiveCart(mem[k].cart)
  <2> DEFINE i == Min(Unused(item))
             row == [state |-> "live", cart |-> mem[k].cart,
                     product |-> mem[k].product, quantity |-> mem[k].quantity]
  <2>1. /\ Unused(item) # {} /\ item' = [item EXCEPT ![i] = row] /\ Goto(k, "insertTotal")
        /\ effects' = [effects EXCEPT ![k] = @ \cup {"inserted"}]
    BY <1>3 DEF Insert
  <2>2. i \in Item /\ item[i].state = "unused"
    <3>1. Unused(item) \subseteq Item
      BY ThisCall DEF Unused, ItemsType
    <3>2. i \in Unused(item)
      BY <2>1, <3>1, Rows, LeastRow
    <3> QED  BY <3>1, <3>2 DEF Unused
  <2> HIDE DEF i
  <2>3. mem[k].cart \in Cart /\ cart[mem[k].cart].state = "live"
    BY <1>3 DEF LiveCart
  <2>4. row \in [state : RowState, cart : {NoRow} \cup Cart, product : Product, quantity : Int]
    <3>1. mem[k].product \in Product /\ mem[k].quantity \in Int
      BY <1>1 DEF Memory
    <3> QED  BY <2>3, <3>1 DEF RowState
  <2>5. item'[i] = row /\ \A j \in Item \ {i} : item'[j] = item[j]
    BY <2>1, <2>2, ThisCall DEF ItemsType
  <2>6. ItemsType' /\ CartsType'
    BY <1>1, <2>1, <2>2, <2>4, ThisCall DEF ItemsType, CartsType
  <2>7. RowsKept
    BY <1>1, <2>2, <2>5 DEF RowsKept
  <2>8. ItemsAreInCarts'
    BY <1>1, <2>3, <2>5 DEF IInv, ItemsAreInCarts, LiveItem, LiveCart
  <2>9. effects[k] = {}
    BY <1>1, <1>3, ThisCall DEF Fits, Over
  <2>10. effects' = [effects EXCEPT ![k] = {"inserted"}]
    BY <2>1, <2>9 DEF IInv, TypeOK
  <2>11. PICK locals \in Memory : locals = mem[k] /\ Continue(k, "insertTotal", locals)
    BY <1>1, <2>1, GotoContinues DEF IInv, Over
  <2>12. "insertTotal" \in Where
    BY DEF Where, InFlight
  <2>13. Knows("insertTotal", locals)'
    BY <1>1, <2>11 DEF Knows, Adding, Changing
  <2>14. Fits({"inserted"}, "insertTotal", locals)'
    BY DEF Fits, Over
  <2>15. {"inserted"} \in SUBSET {"grown", "inserted"} /\ {"inserted"} # {"grown", "inserted"}
    OBVIOUS
  <2> HIDE DEF row
  <2> QED  BY <1>1, <2>15, <2>6, <2>7, <2>8, <2>10, <2>11, <2>12, <2>13, <2>14, ThisCall, CallStep
<1> QED  BY <1>2, <1>3

\* A statement on a guest's rows, or of another service: no call goes on.
LEMMA TablesStep ==
    ASSUME IInv, UNCHANGED <<pc, mem, effects, tempTables>>, RowsKept, CartsType', ItemsType', ItemsAreInCarts',
           price' \in [Product -> Nat], quotable' \subseteq Product, spent' \in [Budget -> Nat]
    PROVE  IInv' /\ RowsKept
<1> USE DEF IInv
<1>1. TypeOK'
  BY DEF TypeOK, CartsType, ItemsType, tempTables
<1>2. Places'
  BY DEF Places, Knows, RowsKept
<1>3. GrownOnce'
  <2>1. ASSUME NEW j \in Call
        PROVE  Fits(effects[j], pc[j], mem[j])'
    <3>1. Fits(effects[j], pc[j], mem[j]) /\ Knows(pc[j], mem[j])
      BY DEF GrownOnce, Places
    <3>2. pc[j] = "insert" /\ ~LiveCart(mem[j].cart) => ~LiveCart(mem[j].cart)'
      <4> SUFFICES ASSUME pc[j] = "insert", ~LiveCart(mem[j].cart)
                   PROVE  ~LiveCart(mem[j].cart)'
        OBVIOUS
      <4>1. mem[j].cart \in Cart /\ cart[mem[j].cart].state # "unused"
        BY <3>1 DEF Knows, Adding
      <4>2. cart[mem[j].cart].state = "gone"
        BY <4>1 DEF TypeOK, RowState, LiveCart
      <4> QED  BY <4>1, <4>2 DEF RowsKept, LiveCart
    <3> QED  BY <3>1, <3>2 DEF Fits, LiveCart
  <2> QED  BY <2>1 DEF GrownOnce
<1>4. AddedOnce'
  BY DEF AddedOnce
<1>5. OpenersRaced' /\ OneCartPerGuest'
  BY DEF OpenersRaced, OneCartPerGuest, tempTables
<1> QED  BY <1>1, <1>2, <1>3, <1>4, <1>5

\* A price changes.
LEMMA RepriceStep ==
    ASSUME IInv, NEW p \in Product, Reprice(p), UNCHANGED tempTables
    PROVE  IInv' /\ RowsKept
<1>1. UNCHANGED <<pc, mem, effects, cart, item, quotable>> /\ Spend("reprice", MaxReprices)
  BY DEF Reprice, tables
<1>2. price' \in [Product -> Nat]
  BY PriceAssumption DEF Reprice, IInv, TypeOK
<1>3. RowsKept /\ CartsType' /\ ItemsType' /\ ItemsAreInCarts'
  BY <1>1 DEF IInv, TypeOK, RowsKept, CartsType, ItemsType, ItemsAreInCarts, LiveItem, LiveCart
<1>4. spent' \in [Budget -> Nat] /\ quotable' \subseteq Product
  BY <1>1, Spending DEF IInv, TypeOK, Budget
<1> QED  BY <1>1, <1>2, <1>3, <1>4, TablesStep

\* A product is withdrawn.
LEMMA WithdrawStep ==
    ASSUME IInv, NEW p \in Product, Withdraw(p), UNCHANGED tempTables
    PROVE  IInv' /\ RowsKept
<1>1. UNCHANGED <<pc, mem, effects, cart, item, price>> /\ Spend("withdrawal", MaxWithdrawals)
  BY DEF Withdraw, tables
<1>2. price' \in [Product -> Nat] /\ quotable' \subseteq Product
  BY <1>1 DEF Withdraw, IInv, TypeOK
<1>3. RowsKept /\ CartsType' /\ ItemsType' /\ ItemsAreInCarts'
  BY <1>1 DEF IInv, TypeOK, RowsKept, CartsType, ItemsType, ItemsAreInCarts, LiveItem, LiveCart
<1>4. spent' \in [Budget -> Nat]
  BY <1>1, Spending DEF IInv, Budget
<1> QED  BY <1>1, <1>2, <1>3, <1>4, TablesStep

\* Rows that are deleted stay where they are.
LEMMA RowsGo ==
    ASSUME IInv, NEW gone, gone \subseteq Item,
           item' = [i \in Item |-> IF i \in gone THEN [item[i] EXCEPT !.state = "gone"] ELSE item[i]]
    PROVE  /\ ItemsType'
           /\ \A i \in Item : item'[i].cart = item[i].cart /\ item'[i].product = item[i].product
           /\ \A i \in gone : item'[i].state = "gone"
           /\ \A i \in Item \ gone : item'[i] = item[i]
<1>1. \A i \in Item : /\ item[i] \in [state : RowState, cart : {NoRow} \cup Cart, product : Product, quantity : Int]
                      /\ [item[i] EXCEPT !.state = "gone"]
                            \in [state : RowState, cart : {NoRow} \cup Cart, product : Product, quantity : Int]
                      /\ [item[i] EXCEPT !.state = "gone"].state = "gone"
                      /\ [item[i] EXCEPT !.state = "gone"].cart = item[i].cart
                      /\ [item[i] EXCEPT !.state = "gone"].product = item[i].product
  BY DEF IInv, TypeOK, RowState
<1> QED  BY <1>1 DEF ItemsType

\* REMOVE_CART_ITEM.
LEMMA RemoveForProductStep ==
    ASSUME IInv, NEW p \in Product, RemoveForProduct(p), UNCHANGED tempTables
    PROVE  IInv' /\ RowsKept
<1> DEFINE gone == {i \in Item : LiveItem(i) /\ item[i].product = p}
<1>1. /\ UNCHANGED <<pc, mem, effects, cart, price, quotable>> /\ Spend("removal", MaxRemovals)
      /\ item' = [i \in Item |-> IF i \in gone THEN [item[i] EXCEPT !.state = "gone"] ELSE item[i]]
  BY DEF RemoveForProduct, catalog
<1> HIDE DEF gone
<1>2. /\ ItemsType'
      /\ \A i \in Item : item'[i].cart = item[i].cart /\ item'[i].product = item[i].product
      /\ \A i \in gone : item'[i].state = "gone"
      /\ \A i \in Item \ gone : item'[i] = item[i]
  BY <1>1, RowsGo DEF gone
<1>3. \A i \in gone : item[i].state = "live"
  BY DEF gone, LiveItem
<1>4. RowsKept /\ CartsType'
  BY <1>1, <1>2, <1>3 DEF IInv, TypeOK, RowsKept, CartsType
<1>5. ItemsAreInCarts'
  BY <1>1, <1>2, <1>3 DEF IInv, ItemsAreInCarts, LiveItem, LiveCart
<1>6. /\ spent' \in [Budget -> Nat]
      /\ price' \in [Product -> Nat] /\ quotable' \subseteq Product
  BY <1>1, Spending DEF IInv, TypeOK, Budget
<1> QED  BY <1>1, <1>2, <1>4, <1>5, <1>6, TablesStep

\* DELETE_CART.
LEMMA CheckOutStep ==
    ASSUME IInv, NEW c \in Cart, CheckOut(c), UNCHANGED tempTables
    PROVE  IInv' /\ RowsKept
<1> DEFINE gone == {i \in Item : LiveItem(i) /\ item[i].cart = c}
<1>1. /\ UNCHANGED <<pc, mem, effects, price, quotable>> /\ Spend("checkout", MaxCheckouts)
      /\ item' = [i \in Item |-> IF i \in gone THEN [item[i] EXCEPT !.state = "gone"] ELSE item[i]]
      /\ LiveCart(c) /\ cart' = [cart EXCEPT ![c].state = "gone"]
  BY DEF CheckOut, catalog
<1> HIDE DEF gone
<1>2. /\ ItemsType'
      /\ \A i \in Item : item'[i].cart = item[i].cart /\ item'[i].product = item[i].product
      /\ \A i \in gone : item'[i].state = "gone"
      /\ \A i \in Item \ gone : item'[i] = item[i]
  BY <1>1, RowsGo DEF gone
<1>3. \A i \in gone : item[i].state = "live"
  BY DEF gone, LiveItem
<1>4. CartsType' /\ \A d \in Cart : d # c => cart'[d] = cart[d]
  BY <1>1 DEF IInv, TypeOK, RowState, CartsType
<1>5. cart'[c].state = "gone" /\ cart[c].state = "live"
  BY <1>1 DEF IInv, TypeOK, LiveCart
<1>6. RowsKept
  BY <1>2, <1>3, <1>4, <1>5 DEF RowsKept
<1>7. \A i \in Item \ gone : item[i].state = "live" => item[i].cart # c
  BY DEF gone, LiveItem
<1>8. ItemsAreInCarts'
  <2>1. \A i \in Item : item'[i].state # "unused" => item[i].state # "unused"
    BY <1>2, <1>3
  <2>2. \A i \in Item : item'[i].state # "unused" => item'[i].cart \in Cart /\ cart'[item'[i].cart].state # "unused"
    BY <1>2, <1>6, <2>1 DEF IInv, ItemsAreInCarts, RowsKept
  <2>3. \A i \in Item : item'[i].state = "live" => item[i].state = "live" /\ item'[i].cart # c
    BY <1>2, <1>7
  <2> QED  BY <1>2, <1>4, <2>2, <2>3 DEF IInv, ItemsAreInCarts, LiveItem, LiveCart
<1>9. /\ spent' \in [Budget -> Nat]
      /\ price' \in [Product -> Nat] /\ quotable' \subseteq Product
  BY <1>1, Spending DEF IInv, TypeOK, Budget
<1> QED  BY <1>1, <1>2, <1>4, <1>6, <1>8, <1>9, TablesStep

\* getGuestCart: the guest has a cart, or is to get one.
LEMMA FindTempStep ==
    ASSUME IInv, NEW k \in Call, FindTemp(k), UNCHANGED <<tables, catalog, spent>>
    PROVE  IInv'
<1> DEFINE mine == TempCartsOf(mem[k].user)
<1>1. /\ pc[k] = "findTemp"
      /\ UNCHANGED <<effects, tables, tempTables, price, quotable, spent>>
  BY DEF FindTemp, catalog
<1>2. /\ Knows("findTemp", mem[k]) /\ mem[k].user \in Guest /\ mem[k] \in Memory
      /\ \A place, m : Fits(effects[k], place, m)
  BY <1>1, ThisCall DEF Knows, Fits, Over
<1>3. CASE mine = {} /\ Goto(k, "openTemp")
  <2>1. Continue(k, "openTemp", mem[k]) /\ "openTemp" \in Where
    BY <1>3, GotoContinues DEF Over, IInv, Where, InFlight
  <2>2. Knows("openTemp", mem[k])
    BY <1>2 DEF Knows, Adding, Changing
  <2>3. \A c \in TempCart : ~(tempCart[c].state = "live" /\ tempCart[c].guest = mem[k].user)
    BY <1>3 DEF TempCartsOf
  <2> QED  BY <1>1, <1>2, <2>1, <2>2, <2>3, ThisCall, ReadStep
<1>4. ASSUME NEW c \in mine, FoundTemp(k, c)
      PROVE  IInv'
  <2>1. CASE mem[k].op = "guestVisit"
    <3>1. Goto(k, "ok") /\ "ok" \in Where /\ "ok" \in Over
      BY <1>4, <2>1 DEF FoundTemp, Where, Over
    <3> QED  BY <1>1, <3>1, ThisCall, GotoStep
  <2>2. CASE mem[k].op # "guestVisit"
    <3> DEFINE locals == [mem[k] EXCEPT !.cart = c]
    <3>1. Continue(k, "insertTemp", locals) /\ "insertTemp" \in Where
      BY <1>4, <2>2 DEF FoundTemp, Where, InFlight
    <3>2. locals \in Memory /\ locals.cart = c /\ c \in TempCart /\ locals.op = mem[k].op /\ locals.user = mem[k].user
      BY <1>2 DEF Memory, TempCartsOf
    <3> HIDE DEF locals
    <3>3. Knows("insertTemp", locals)
      BY <1>2, <3>2 DEF Knows, Adding, Changing
    <3> QED  BY <1>1, <1>2, <3>1, <3>2, <3>3, ThisCall, ReadStep
  <2> QED  BY <2>1, <2>2
<1> QED  BY <1>3, <1>4 DEF FindTemp

\* An order of rows for guests that are only written to.
LEMMA GuestStep ==
    ASSUME IInv, UNCHANGED <<tables, catalog, spent>>, UNCHANGED <<pc, mem, effects, tempCart>>,
           tempItem' \in [TempItem -> [state : RowState, cart : {NoRow} \cup TempCart,
                                       product : Product, quantity : Int]]
    PROVE  IInv'
<1> USE DEF IInv, tables, catalog
<1>1. TypeOK'
  BY DEF TypeOK
<1>2. Places'
  BY DEF Places, Knows
<1>3. ItemsAreInCarts'
  BY DEF ItemsAreInCarts, LiveItem, LiveCart
<1>4. GrownOnce'
  BY DEF GrownOnce, Fits, LiveCart
<1>5. AddedOnce' /\ OpenersRaced' /\ OneCartPerGuest'
  BY DEF AddedOnce, OpenersRaced, OneCartPerGuest
<1> QED  BY <1>1, <1>2, <1>3, <1>4, <1>5

\* updateForGuest.
LEMMA UpdateForGuestStep ==
    ASSUME IInv, NEW i \in TempItem, NEW q \in 0..MaxQuantity, UpdateForGuest(i, q),
           UNCHANGED <<tables, catalog, spent>>
    PROVE  IInv'
<1>1. q \in Int
  OBVIOUS
<1>2. tempItem' \in [TempItem -> [state : RowState, cart : {NoRow} \cup TempCart,
                                  product : Product, quantity : Int]]
  BY <1>1 DEF UpdateForGuest, IInv, TypeOK
<1> QED  BY <1>2, GuestStep DEF UpdateForGuest

\* deleteForGuest.
LEMMA DeleteForGuestStep ==
    ASSUME IInv, NEW i \in TempItem, DeleteForGuest(i), UNCHANGED <<tables, catalog, spent>>
    PROVE  IInv'
<1>1. tempItem' \in [TempItem -> [state : RowState, cart : {NoRow} \cup TempCart,
                                  product : Product, quantity : Int]]
  BY DEF DeleteForGuest, IInv, TypeOK, RowState
<1> QED  BY <1>1, GuestStep DEF DeleteForGuest

\* What is left to show when a guest's call goes on.
LEMMA GuestCallStep ==
    ASSUME IInv, NEW k \in Call, NEW place \in {"ok", "insertTemp"}, NEW locals \in Memory,
           Continue(k, place, locals),
           locals = NoMemory \/ (locals.op = mem[k].op /\ locals.user = mem[k].user),
           place = "insertTemp" => locals.cart \in TempCart /\ locals.op = mem[k].op,
           UNCHANGED <<effects, tables, catalog, spent>>, pc[k] \in {"openTemp", "insertTemp"}
    PROVE  Places' /\ ItemsAreInCarts' /\ GrownOnce' /\ AddedOnce'
<1> USE DEF IInv, tables, catalog
<1>1. /\ pc'[k] = place /\ mem'[k] = locals
      /\ \A j \in Call \ {k} : pc'[j] = pc[j] /\ mem'[j] = mem[j]
  BY DEF Continue, TypeOK
<1>2. Places'
  <2>1. Knows(pc[k], mem[k])'
    <3>1. Knows(pc[k], mem[k])
      BY DEF Places
    <3> QED  BY <1>1, <3>1, MemoryType DEF Knows, Adding, Changing
  <2>2. \A j \in Call \ {k} : Knows(pc[j], mem[j])'
    BY <1>1 DEF Places, Knows
  <2> QED  BY <2>1, <2>2 DEF Places
<1>3. GrownOnce'
  <2>1. Fits(effects[k], pc[k], mem[k])'
    BY <1>1 DEF GrownOnce, Fits, Over
  <2>2. \A j \in Call \ {k} : Fits(effects[j], pc[j], mem[j])'
    BY <1>1 DEF GrownOnce, Fits, LiveCart
  <2> QED  BY <2>1, <2>2 DEF GrownOnce
<1>4. ItemsAreInCarts' /\ AddedOnce'
  BY DEF ItemsAreInCarts, AddedOnce, LiveItem, LiveCart
<1> QED  BY <1>2, <1>3, <1>4

\* A guest's row is inserted.
LEMMA InsertTempStep ==
    ASSUME IInv, NEW k \in Call, InsertTemp(k), UNCHANGED <<tables, catalog, spent>>
    PROVE  IInv'
<1> DEFINE i == Min(Unused(tempItem))
           row == [state |-> "live", cart |-> mem[k].cart,
                   product |-> mem[k].product, quantity |-> mem[k].quantity]
<1>1. /\ pc[k] = "insertTemp" /\ Unused(tempItem) # {} /\ tempItem' = [tempItem EXCEPT ![i] = row]
      /\ Goto(k, "ok") /\ UNCHANGED <<effects, tempCart>>
  BY DEF InsertTemp
<1>2. mem[k].cart \in TempCart /\ mem[k] \in Memory
  BY <1>1, ThisCall DEF Knows
<1>3. row \in [state : RowState, cart : {NoRow} \cup TempCart, product : Product, quantity : Int]
  <2>1. mem[k].product \in Product /\ mem[k].quantity \in Int
    BY <1>2 DEF Memory
  <2> QED  BY <1>2, <2>1 DEF RowState
<1>4. Continue(k, "ok", NoMemory)
  BY <1>1, GotoContinues DEF IInv, Over
<1> HIDE DEF i, row
<1>5. TypeOK'
  <2>1. pc' \in [Call -> {"idle"} \cup InFlight \cup Over] /\ mem' \in [Call -> Memory]
    BY <1>4, MemoryType DEF Continue, IInv, TypeOK, Over
  <2>2. tempItem' \in [TempItem -> [state : RowState, cart : {NoRow} \cup TempCart,
                                    product : Product, quantity : Int]]
    BY <1>1, <1>3 DEF IInv, TypeOK
  <2> QED  BY <1>1, <2>1, <2>2 DEF IInv, TypeOK, tables, catalog
<1>6. Places' /\ ItemsAreInCarts' /\ GrownOnce' /\ AddedOnce'
  BY <1>1, <1>4, MemoryType, GuestCallStep
<1>7. OpenersRaced'
  <2>1. /\ pc'[k] # "openTemp"
        /\ \A j \in Call \ {k} : pc'[j] = pc[j] /\ mem'[j] = mem[j]
    BY <1>4 DEF Continue, IInv, TypeOK
  <2> QED  BY <1>1, <2>1 DEF IInv, OpenersRaced
<1>8. OneCartPerGuest'
  BY <1>1 DEF IInv, OneCartPerGuest
<1> QED  BY <1>5, <1>6, <1>7, <1>8 DEF IInv

\* A guest gets a cart: it is the first, or this call raced all that did.
LEMMA OpenTempStep ==
    ASSUME IInv, NEW k \in Call, OpenTemp(k), UNCHANGED <<tables, catalog, spent>>
    PROVE  IInv'
<1> DEFINE new == Min(Unused(tempCart))
           rivals == {j \in Call \ {k} : pc[j] = "openTemp" /\ mem[j].user = mem[k].user}
           row == [state |-> "live", guest |-> mem[k].user, by |-> k, raced |-> rivals]
           CartRow == [state : RowState, guest : Guest \cup {NoRow}, by : Call \cup {NoRow},
                       raced : SUBSET Call]
<1>1. /\ pc[k] = "openTemp" /\ Unused(tempCart) # {} /\ tempCart' = [tempCart EXCEPT ![new] = row]
      /\ FoundTemp(k, new) /\ UNCHANGED <<effects, tempItem>>
  BY DEF OpenTemp
<1>2. /\ new \in TempCart /\ tempCart[new].state = "unused"
      /\ \A c \in TempCart : c < new => tempCart[c].state # "unused"
  <2>1. Unused(tempCart) = {c \in TempCart : tempCart[c].state = "unused"}
    BY DEF IInv, TypeOK, Unused
  <2>2. new \in Unused(tempCart) /\ \A c \in Unused(tempCart) : new <= c
    BY <1>1, <2>1, Rows, LeastRow
  <2> HIDE DEF new
  <2>3. \A c \in TempCart : c \in Nat
    BY Rows
  <2>4. new \in TempCart /\ tempCart[new].state = "unused"
    BY <2>1, <2>2
  <2>5. \A c \in TempCart : c < new => ~(new <= c)
    BY <2>3, <2>4
  <2> QED  BY <2>1, <2>2, <2>4, <2>5
<1> HIDE DEF new
<1>3. mem[k].user \in Guest /\ mem[k] \in Memory
  BY <1>1, ThisCall DEF Knows
<1>4. row \in CartRow /\ row.state = "live" /\ row.guest = mem[k].user /\ row.by = k /\ row.raced = rivals
  BY <1>3 DEF RowState
<1> HIDE DEF row
<1>5. /\ tempCart' \in [TempCart -> CartRow] /\ tempCart'[new] = row
      /\ \A c \in TempCart \ {new} : tempCart'[c] = tempCart[c]
  BY <1>1, <1>2, <1>4 DEF IInv, TypeOK
<1>6. PICK place \in {"ok", "insertTemp"}, locals \in Memory :
         /\ Continue(k, place, locals)
         /\ locals = NoMemory \/ (locals.op = mem[k].op /\ locals.user = mem[k].user)
         /\ place = "insertTemp" => locals.cart \in TempCart /\ locals.op = mem[k].op
  <2>1. CASE mem[k].op = "guestVisit"
    <3>1. Goto(k, "ok") /\ "ok" \in Over
      BY <1>1, <2>1 DEF FoundTemp, Over
    <3> QED  BY <3>1, GotoContinues, MemoryType DEF IInv
  <2>2. CASE mem[k].op # "guestVisit"
    <3> DEFINE found == [mem[k] EXCEPT !.cart = new]
    <3>1. Continue(k, "insertTemp", found)
      BY <1>1, <2>2 DEF FoundTemp
    <3>2. found \in Memory /\ found.cart = new /\ found.op = mem[k].op /\ found.user = mem[k].user
      BY <1>2, <1>3 DEF Memory
    <3> HIDE DEF found
    <3> QED  BY <1>2, <3>1, <3>2
  <2> QED  BY <2>1, <2>2
<1>7. /\ pc'[k] = place /\ \A j \in Call \ {k} : pc'[j] = pc[j] /\ mem'[j] = mem[j]
      /\ pc' \in [Call -> Where] /\ mem' \in [Call -> Memory]
  BY <1>6 DEF Continue, IInv, TypeOK, Where, InFlight, Over
<1>8. TypeOK'
  BY <1>1, <1>5, <1>7 DEF IInv, TypeOK, tables, catalog, Where
<1>9. Places' /\ ItemsAreInCarts' /\ GrownOnce' /\ AddedOnce'
  BY <1>1, <1>6, GuestCallStep
<1>10. OpenersRaced'
  <2>1. ASSUME NEW c \in TempCart, NEW d \in TempCart, c < d, tempCart'[d].state = "live"
        PROVE  tempCart'[c].state = "live"
    BY <1>2, <1>4, <1>5, <2>1 DEF IInv, OpenersRaced
  <2>2. \A c \in TempCart : tempCart'[c].state \in {"unused", "live"}
    BY <1>4, <1>5 DEF IInv, OpenersRaced
  <2>3. ASSUME NEW j \in Call, NEW c \in TempCart, pc'[j] = "openTemp", tempCart'[c].state = "live",
               tempCart'[c].guest = mem'[j].user
        PROVE  j \in tempCart'[c].raced
    BY <1>4, <1>5, <1>7, <2>3 DEF IInv, OpenersRaced
  <2> QED  BY <2>1, <2>2, <2>3 DEF OpenersRaced
<1>11. OneCartPerGuest'
  <2> SUFFICES ASSUME NEW c \in TempCart, NEW d \in TempCart, c < d, tempCart'[d].state = "live",
                      tempCart'[c].guest = tempCart'[d].guest
               PROVE  tempCart'[d].by \in tempCart'[c].raced
    BY DEF OneCartPerGuest
  <2>1. CASE d = new
    <3>1. c # new /\ tempCart[c].state # "unused"
      BY <1>2, <2>1, Rows
    <3>2. tempCart[c].state = "live" /\ tempCart[c].guest = mem[k].user
      BY <1>4, <1>5, <2>1, <3>1 DEF IInv, OpenersRaced
    <3> QED  BY <1>1, <1>4, <1>5, <2>1, <3>1, <3>2 DEF IInv, OpenersRaced
  <2>2. CASE d # new /\ c = new
    BY <1>2, <1>5, <2>2 DEF IInv, OpenersRaced
  <2>3. CASE d # new /\ c # new
    BY <1>5, <2>3 DEF IInv, OneCartPerGuest
  <2> QED  BY <2>1, <2>2, <2>3
<1> QED  BY <1>8, <1>9, <1>10, <1>11 DEF IInv

\* The invariant holds at first.
LEMMA InitInvariant == Init => IInv
<1> SUFFICES ASSUME Init PROVE IInv
  OBVIOUS
<1>1. SomeUser \in User /\ SomeProduct \in Product
  BY PeopleAssumption, PriceAssumption DEF SomeUser, SomeProduct
<1>2. TypeOK
  BY <1>1, MemoryType, PriceAssumption DEF Init, TypeOK, RowState
<1>3. Places
  <2>1. Knows("idle", NoMemory)
    BY MemoryType DEF Knows, Adding, Changing
  <2> QED  BY <2>1 DEF Init, Places
<1>4. ItemsAreInCarts /\ GrownOnce /\ AddedOnce
  BY DEF Init, ItemsAreInCarts, LiveItem, GrownOnce, Fits, AddedOnce
<1>5. OpenersRaced /\ OneCartPerGuest
  BY DEF Init, OpenersRaced, OneCartPerGuest
<1> QED  BY <1>2, <1>3, <1>4, <1>5 DEF IInv

\* Every statement of create, update and delete keeps the invariant.
LEMMA CallsStep ==
    ASSUME IInv, NEW k \in Call, Step(k) \/ Fault(k), UNCHANGED tempTables
    PROVE  IInv' /\ RowsKept
  BY FindStep, OpenStep, FetchStep, LookupStep, LookupFindsNoneStep, ReadRowStep, RefetchStep,
     WriteTotalStep, WriteItemStep, OwnTotalStep, InsertStep, InsertTotalStep, RefusedStep, FaultStep
     DEF Step

\* So does what users and other services do.
LEMMA UserStep ==
    ASSUME IInv, UserNext, UNCHANGED tempTables
    PROVE  IInv' /\ RowsKept
<1>1. CASE \E k \in Call, u \in User : BeginVisit(k, u)
  BY <1>1, BeginVisitStep
<1>2. CASE \E k \in Call, u \in User, p \in Product, q \in 1..MaxQuantity : BeginCreate(k, u, p, q)
  BY <1>2, BeginCreateStep
<1>3. CASE \E k \in Call, i \in Item, q \in (-1)..MaxQuantity : BeginUpdate(k, i, q)
  BY <1>3, BeginUpdateStep
<1>4. CASE \E k \in Call, i \in Item : BeginDelete(k, i)
  BY <1>4, BeginDeleteStep
<1>5. CASE \E k \in Call, g \in Guest : BeginVisitForGuest(k, g)
  BY <1>5, BeginVisitForGuestStep
<1>6. CASE \E k \in Call, g \in Guest, p \in Product, q \in 1..MaxQuantity : BeginCreateForGuest(k, g, p, q)
  BY <1>6, BeginCreateForGuestStep
<1>7. CASE \E k \in Call : Step(k) \/ Fault(k)
  BY <1>7, CallsStep
<1>8. CASE \E p \in Product : Reprice(p) \/ Withdraw(p) \/ RemoveForProduct(p)
  BY <1>8, RepriceStep, WithdrawStep, RemoveForProductStep
<1>9. CASE \E c \in Cart : CheckOut(c)
  BY <1>9, CheckOutStep
<1> QED  BY <1>1, <1>2, <1>3, <1>4, <1>5, <1>6, <1>7, <1>8, <1>9 DEF UserNext

\* And what guests do.
LEMMA GuestsStep ==
    ASSUME IInv, GuestNext, UNCHANGED <<tables, catalog, spent>>
    PROVE  IInv'
  BY FindTempStep, OpenTempStep, InsertTempStep, UpdateForGuestStep, DeleteForGuestStep DEF GuestNext

\* A step that changes nothing keeps it.
LEMMA NoStep ==
    ASSUME IInv, UNCHANGED vars
    PROVE  IInv' /\ RowsKept
<1>1. UNCHANGED <<pc, mem, effects, cart, item, tempTables, price, quotable, spent>>
  BY DEF vars, tables, catalog
<1>2. RowsKept /\ CartsType' /\ ItemsType' /\ ItemsAreInCarts'
  BY <1>1 DEF IInv, TypeOK, RowsKept, CartsType, ItemsType, ItemsAreInCarts, LiveItem, LiveCart
<1>3. price' \in [Product -> Nat] /\ quotable' \subseteq Product /\ spent' \in [Budget -> Nat]
  BY <1>1 DEF IInv, TypeOK
<1> QED  BY <1>1, <1>2, <1>3, TablesStep

\* The invariant of every instance: each row a call has read is still the row
\* it was, items are in carts, and what a call did to the item table fits the
\* place it has come to.
THEOREM Invariance == Spec => []IInv
<1>1. Init => IInv
  BY InitInvariant
<1>2. IInv /\ [Next]_vars => IInv'
  BY UserStep, GuestsStep, NoStep DEF Next
<1> QED  BY <1>1, <1>2, PTL DEF Spec

\* Every variable has its type.
THEOREM TypeCorrect == Spec => []TypeOK
<1>1. IInv => TypeOK
  BY DEF IInv
<1> QED  BY <1>1, Invariance, PTL

\* No create both raises a row and inserts another, whatever fails on its way.
THEOREM NeverAddedTwice == Spec => []AddedOnce
<1>1. IInv => AddedOnce
  BY DEF IInv
<1> QED  BY <1>1, Invariance, PTL

\* A guest has two carts only when two calls were about to open one.
THEOREM GuestsShareNoCart == Spec => []OneCartPerGuest
<1>1. IInv => OneCartPerGuest
  BY DEF IInv
<1> QED  BY <1>1, Invariance, PTL

\* What guests' statements never do to their rows.
LEMMA GuestRowsKept ==
    ASSUME IInv, GuestNext, NEW i \in TempItem, tempItem[i].state # "unused"
    PROVE  /\ tempItem'[i].cart = tempItem[i].cart /\ tempItem'[i].product = tempItem[i].product
           /\ tempItem[i].state = "gone" => tempItem'[i].state = "gone"
<1>1. CASE UNCHANGED tempItem
  BY <1>1
<1>2. ASSUME NEW k \in Call, InsertTemp(k)
      PROVE  tempItem'[i] = tempItem[i]
  <2>1. Unused(tempItem) \subseteq TempItem
    BY DEF IInv, TypeOK, Unused
  <2>2. Min(Unused(tempItem)) \in Unused(tempItem)
    BY <1>2, <2>1, Rows, LeastRow DEF InsertTemp
  <2>3. Min(Unused(tempItem)) # i
    BY <2>2 DEF Unused
  <2> QED  BY <1>2, <2>3 DEF InsertTemp, IInv, TypeOK
<1>3. ASSUME NEW j \in TempItem, NEW q \in 0..MaxQuantity, UpdateForGuest(j, q)
      PROVE  /\ tempItem'[i].cart = tempItem[i].cart /\ tempItem'[i].product = tempItem[i].product
             /\ tempItem[i].state = "gone" => tempItem'[i].state = "gone"
  BY <1>3 DEF UpdateForGuest, IInv, TypeOK
<1>4. ASSUME NEW j \in TempItem, DeleteForGuest(j)
      PROVE  /\ tempItem'[i].cart = tempItem[i].cart /\ tempItem'[i].product = tempItem[i].product
             /\ tempItem[i].state = "gone" => tempItem'[i].state = "gone"
  BY <1>4 DEF DeleteForGuest, LiveTempItem, IInv, TypeOK
<1> QED  BY <1>1, <1>2, <1>3, <1>4 DEF GuestNext, FindTemp, OpenTemp, tempTables

\* Rows stay in their carts, keep their products and never come back.
THEOREM RowsStay == Spec => RowsStayPut
<1> DEFINE Put ==
       /\ \A i \in Item : item[i].state # "unused" =>
             /\ item'[i].cart = item[i].cart /\ item'[i].product = item[i].product
             /\ item[i].state = "gone" => item'[i].state = "gone"
       /\ \A i \in TempItem : tempItem[i].state # "unused" =>
             /\ tempItem'[i].cart = tempItem[i].cart /\ tempItem'[i].product = tempItem[i].product
             /\ tempItem[i].state = "gone" => tempItem'[i].state = "gone"
       /\ \A c \in Cart : cart[c].state = "gone" => cart'[c] = cart[c]
<1>1. IInv /\ [Next]_vars => [Put]_vars
  <2>1. ASSUME IInv, UserNext, UNCHANGED tempTables
        PROVE  Put
    BY <2>1, UserStep DEF RowsKept, tempTables
  <2>2. ASSUME IInv, GuestNext, UNCHANGED <<tables, catalog, spent>>
        PROVE  Put
    BY <2>2, GuestRowsKept DEF tables
  <2> QED  BY <2>1, <2>2 DEF Next
<1> QED  BY <1>1, Invariance, PTL DEF Spec, RowsStayPut

-----------------------------------------------------------------------------
(* Cases of a step.                                                        *)

\* Where a call comes to, and with what.
LEMMA Moved ==
    ASSUME IInv, NEW k \in Call
    PROVE  /\ \A place, locals : Continue(k, place, locals) =>
                 /\ pc'[k] = place /\ mem'[k] = locals
                 /\ \A j \in Call \ {k} : pc'[j] = pc[j] /\ mem'[j] = mem[j]
           /\ \A place : Goto(k, place) =>
                 /\ pc'[k] = place /\ mem'[k] = IF place \in Over THEN NoMemory ELSE mem[k]
                 /\ \A j \in Call \ {k} : pc'[j] = pc[j] /\ mem'[j] = mem[j]
  BY DEF IInv, TypeOK, Continue, Goto

\* What users and other services do, by who does it.
LEMMA UserCases ==
    ASSUME UserNext
    PROVE  \/ \E k \in Call, place \in {"find", "read", "findTemp"} : \E arguments :
                 Begin(k, place, arguments) /\ (place # "read" \/ arguments.op # "create")
           \/ \E k \in Call : Step(k) \/ Fault(k)
           \/ \E p \in Product : Reprice(p) \/ Withdraw(p)
           \/ \E p \in Product : RemoveForProduct(p)
           \/ \E c \in Cart : CheckOut(c)
<1>1. \A i, q : [NoMemory EXCEPT !.op = "update", !.item = i, !.newQuantity = q].op # "create"
  BY DEF NoMemory
<1>2. \A i : [NoMemory EXCEPT !.op = "delete", !.item = i].op # "create"
  BY DEF NoMemory
<1> QED  BY <1>1, <1>2 DEF UserNext, BeginVisit, BeginCreate, BeginUpdate, BeginDelete,
                           BeginVisitForGuest, BeginCreateForGuest

\* What guests do, by how the call goes on, if one does.
LEMMA GuestCases ==
    ASSUME GuestNext
    PROVE  \/ UNCHANGED <<pc, mem>>
           \/ \E k \in Call, place \in {"openTemp", "ok", "insertTemp"} : \E locals :
                 /\ Goto(k, place) \/ Continue(k, place, locals)
                 /\ pc[k] \in {"findTemp", "openTemp", "insertTemp"}
<1>1. ASSUME NEW k \in Call, FindTemp(k) \/ OpenTemp(k) \/ InsertTemp(k)
      PROVE  \E place \in {"openTemp", "ok", "insertTemp"} : \E locals :
                /\ Goto(k, place) \/ Continue(k, place, locals)
                /\ pc[k] \in {"findTemp", "openTemp", "insertTemp"}
  BY <1>1 DEF FindTemp, OpenTemp, InsertTemp, FoundTemp
<1> QED  BY <1>1 DEF GuestNext, UpdateForGuest, DeleteForGuest

\* No step moves a row or brings one back.
LEMMA RowsKeptStep ==
    ASSUME IInv, [Next]_vars
    PROVE  RowsKept
<1>1. CASE UNCHANGED tables
  BY <1>1 DEF tables, RowsKept
<1> QED  BY <1>1, UserStep DEF Next, vars

-----------------------------------------------------------------------------
(* Sums over sets of rows.                                                 *)

\* Induction on the naturals, for a set of them.
LEMMA SetInduction ==
    ASSUME NEW S, 0 \in S, \A n \in Nat : n \in S => n + 1 \in S
    PROVE  Nat \subseteq S
<1> SUFFICES ASSUME Nat \ S # {} PROVE FALSE
  OBVIOUS
<1> DEFINE Less == {ss \in Nat \X Nat : ss[1] < ss[2]}
<1>1. PICK m \in Nat \ S : \A k \in Nat \ S : ~ (<<k, m>> \in Less)
  <2>1. IsWellFoundedOn(Less, Nat)
    BY NatLessThanWellFounded DEF OpToRel
  <2>2. Nat \ S \subseteq Nat
    OBVIOUS
  <2> HIDE DEF Less
  <2> QED  BY <2>1, <2>2, WFMin
<1>2. m # 0
  OBVIOUS
<1>3. m - 1 \in Nat /\ m - 1 < m
  BY <1>2
<1>4. m - 1 \in S
  BY <1>1, <1>3
<1>5. (m - 1) + 1 = m
  OBVIOUS
<1> QED  BY <1>3, <1>4, <1>5

\* The element a sum takes first.
First(S) == CHOOSE x \in S : TRUE

\* g sums f over the subsets of D.
Sums(g, f, D) ==
    \A S \in SUBSET D : g[S] = IF S = {} THEN 0 ELSE f[First(S)] + g[S \ {First(S)}]

\* It is one of them.
LEMMA FirstIn ==
    ASSUME NEW S, S # {}
    PROVE  First(S) \in S
  BY DEF First

\* A set without it is smaller.
LEMMA OneLess ==
    ASSUME NEW D, IsFiniteSet(D), NEW S \in SUBSET D, NEW x \in S
    PROVE  /\ IsFiniteSet(S) /\ S \ {x} \in SUBSET D
           /\ Cardinality(S) \in Nat \ {0}
           /\ Cardinality(S \ {x}) = Cardinality(S) - 1
<1>1. IsFiniteSet(S)
  BY FS_Subset
<1>2. Cardinality(S) \in Nat /\ Cardinality(S \ {x}) = Cardinality(S) - 1
  BY <1>1, FS_CardinalityType, FS_RemoveElement
<1>3. Cardinality(S) # 0
  BY <1>1, FS_EmptySet
<1> QED  BY <1>1, <1>2, <1>3

\* There is a function that sums f, by induction on the size of the sets.
LEMMA SumExists ==
    ASSUME NEW D, IsFiniteSet(D), NEW f \in [D -> Int]
    PROVE  \E g \in [SUBSET D -> Int] : Sums(g, f, D)
<1> DEFINE UpTo(g, n) == \A S \in SUBSET D : Cardinality(S) <= n =>
                           g[S] = IF S = {} THEN 0 ELSE f[First(S)] + g[S \ {First(S)}]
           Good == {n \in Nat : \E g \in [SUBSET D -> Int] : UpTo(g, n)}
<1>0. \A S \in SUBSET D : IsFiniteSet(S) /\ Cardinality(S) \in Nat
  BY FS_Subset, FS_CardinalityType
<1>1. 0 \in Good
  <2>1. [S \in SUBSET D |-> 0] \in [SUBSET D -> Int]
    OBVIOUS
  <2>2. UpTo([S \in SUBSET D |-> 0], 0)
    <3>1. \A S \in SUBSET D : Cardinality(S) <= 0 => S = {}
      BY <1>0, FS_EmptySet
    <3> QED  BY <3>1
  <2> QED  BY <2>1, <2>2
<1>2. ASSUME NEW n \in Nat, n \in Good
      PROVE  n + 1 \in Good
  <2>1. PICK g \in [SUBSET D -> Int] : UpTo(g, n)
    BY <1>2
  <2> DEFINE h == [S \in SUBSET D |-> IF S = {} THEN 0 ELSE f[First(S)] + g[S \ {First(S)}]]
  <2>2. h \in [SUBSET D -> Int]
    <3>1. \A S \in SUBSET D : S # {} => First(S) \in D /\ S \ {First(S)} \in SUBSET D
      BY FirstIn
    <3> QED  BY <3>1
  <2>3. ASSUME NEW S \in SUBSET D, Cardinality(S) <= n + 1
        PROVE  h[S] = IF S = {} THEN 0 ELSE f[First(S)] + h[S \ {First(S)}]
    <3>1. CASE S = {}
      BY <3>1
    <3>2. CASE S # {}
      <4>1. First(S) \in S
        BY <3>2, FirstIn
      <4>2. S \ {First(S)} \in SUBSET D /\ Cardinality(S \ {First(S)}) <= n
        BY <4>1, <2>3, <1>0, OneLess
      <4>3. h[S \ {First(S)}] = g[S \ {First(S)}]
        BY <4>2, <2>1
      <4> QED  BY <3>2, <4>3
    <3> QED  BY <3>1, <3>2
  <2>4. UpTo(h, n + 1)
    <3> HIDE DEF h
    <3> QED  BY <2>3
  <2> HIDE DEF h, UpTo
  <2> QED  BY <2>2, <2>4
<1>3. Cardinality(D) \in Good
  <2> HIDE DEF Good
  <2>1. Nat \subseteq Good
    BY <1>1, <1>2, SetInduction
  <2> QED  BY <2>1, FS_CardinalityType
<1>4. PICK g \in [SUBSET D -> Int] : UpTo(g, Cardinality(D))
  BY <1>3
<1>5. \A S \in SUBSET D : Cardinality(S) <= Cardinality(D)
  BY FS_Subset
<1> QED  BY <1>4, <1>5 DEF Sums

\* Two functions that sum f agree, if only on the subsets of S.
LEMMA SumUnique ==
    ASSUME NEW D, IsFiniteSet(D), NEW f, NEW g, Sums(g, f, D),
           NEW S \in SUBSET D, NEW h, Sums(h, f, S)
    PROVE  \A T \in SUBSET S : h[T] = g[T]
<1> DEFINE Good == {n \in Nat : \A T \in SUBSET S : Cardinality(T) = n => h[T] = g[T]}
<1>0. \A T \in SUBSET S : IsFiniteSet(T) /\ Cardinality(T) \in Nat
  BY FS_Subset, FS_CardinalityType
<1>1. 0 \in Good
  <2>1. \A T \in SUBSET S : Cardinality(T) = 0 => T = {}
    BY <1>0, FS_EmptySet
  <2> QED  BY <2>1 DEF Sums
<1>2. ASSUME NEW n \in Nat, n \in Good
      PROVE  n + 1 \in Good
  <2>1. ASSUME NEW T \in SUBSET S, Cardinality(T) = n + 1
        PROVE  h[T] = g[T]
    <3>1. T # {}
      BY <2>1, FS_EmptySet
    <3>2. First(T) \in T
      BY <3>1, FirstIn
    <3>3. T \ {First(T)} \in SUBSET S /\ Cardinality(T \ {First(T)}) = n
      BY <3>2, <2>1, <1>0, OneLess, FS_Subset
    <3>4. h[T \ {First(T)}] = g[T \ {First(T)}]
      BY <3>3, <1>2
    <3> QED  BY <3>1, <3>4 DEF Sums
  <2> QED  BY <2>1
<1>3. Nat \subseteq Good
  <2> HIDE DEF Good
  <2> QED  BY <1>1, <1>2, SetInduction
<1> QED  BY <1>0, <1>3

\* SumFunctionOnSet is that function.
LEMMA SumIs ==
    ASSUME NEW D, IsFiniteSet(D), NEW f, NEW g, Sums(g, f, D), NEW S \in SUBSET D
    PROVE  SumFunctionOnSet(f, S) = g[S]
<1> DEFINE Rec(it) == [T \in SUBSET S |-> IF T = {} THEN 0 ELSE f[First(T)] + it[T \ {First(T)}]]
<1>1. SumFunctionOnSet(f, S) = (CHOOSE it : it = Rec(it))[S]
  BY DEF SumFunctionOnSet, FoldFunctionOnSet, MapThenFoldSet, First
<1>2. \E it : it = Rec(it)
  <2> DEFINE r == [T \in SUBSET S |-> g[T]]
  <2>1. \A T \in SUBSET S : T # {} => T \ {First(T)} \in SUBSET S
    OBVIOUS
  <2>2. r = Rec(r)
    BY <2>1 DEF Sums
  <2> QED  BY <2>2
<1>3. PICK it : it = Rec(it) /\ SumFunctionOnSet(f, S) = it[S]
  BY <1>1, <1>2
<1>4. Sums(it, f, S)
  BY <1>3 DEF Sums
<1> QED  BY <1>3, <1>4, SumUnique
\* The sum of integers is one; nothing sums to 0.
LEMMA SumType ==
    ASSUME NEW D, IsFiniteSet(D), NEW f \in [D -> Int], NEW S \in SUBSET D
    PROVE  /\ SumFunctionOnSet(f, S) \in Int
           /\ S = {} => SumFunctionOnSet(f, S) = 0
<1>1. PICK g \in [SUBSET D -> Int] : Sums(g, f, D)
  BY SumExists
<1>2. SumFunctionOnSet(f, S) = g[S]
  BY <1>1, SumIs
<1> QED  BY <1>1, <1>2 DEF Sums

\* Any one element may be summed first.
LEMMA SumWithout ==
    ASSUME NEW D, IsFiniteSet(D), NEW f \in [D -> Int], NEW S \in SUBSET D, NEW e \in S
    PROVE  SumFunctionOnSet(f, S) = f[e] + SumFunctionOnSet(f, S \ {e})
<1>1. PICK g \in [SUBSET D -> Int] : Sums(g, f, D)
  BY SumExists
<1>2. \A T \in SUBSET D : SumFunctionOnSet(f, T) = g[T]
  BY <1>1, SumIs
<1> DEFINE Good == {n \in Nat : \A T \in SUBSET D : Cardinality(T) = n =>
                      \A x \in T : g[T] = f[x] + g[T \ {x}]}
<1>3. 0 \in Good
  <2>1. \A T \in SUBSET D : \A x \in T : Cardinality(T) # 0
    BY OneLess
  <2> QED  BY <2>1
<1>4. ASSUME NEW n \in Nat, n \in Good
      PROVE  n + 1 \in Good
  <2>1. ASSUME NEW T \in SUBSET D, Cardinality(T) = n + 1, NEW x \in T
        PROVE  g[T] = f[x] + g[T \ {x}]
    <3> DEFINE c == First(T)
    <3>1. c \in T
      BY FirstIn
    <3>2. g[T] = f[c] + g[T \ {c}]
      BY <1>1 DEF Sums
    <3> HIDE DEF c
    <3>3. CASE c = x
      BY <3>2, <3>3
    <3>4. CASE c # x
      <4>1. /\ T \ {c} \in SUBSET D /\ Cardinality(T \ {c}) = n /\ x \in T \ {c}
            /\ T \ {x} \in SUBSET D /\ Cardinality(T \ {x}) = n /\ c \in T \ {x}
        BY <2>1, <3>1, <3>4, OneLess
      <4>2. g[T \ {c}] = f[x] + g[(T \ {c}) \ {x}]
        BY <4>1, <1>4
      <4>3. g[T \ {x}] = f[c] + g[(T \ {x}) \ {c}]
        BY <4>1, <1>4
      <4>4. (T \ {c}) \ {x} = (T \ {x}) \ {c} /\ (T \ {c}) \ {x} \in SUBSET D
        OBVIOUS
      <4>5. /\ f[x] \in Int /\ f[c] \in Int /\ g[(T \ {c}) \ {x}] \in Int
        BY <3>1, <4>4
      <4>6. g[T \ {x}] = f[c] + g[(T \ {c}) \ {x}]
        BY <4>3, <4>4
      <4>7. \A a, b, d \in Int : a + (b + d) = b + (a + d)
        OBVIOUS
      <4> QED  BY <3>2, <4>2, <4>5, <4>6, <4>7
    <3> QED  BY <3>3, <3>4
  <2> QED  BY <2>1
<1>5. Nat \subseteq Good
  <2> HIDE DEF Good
  <2> QED  BY <1>3, <1>4, SetInduction
<1>6. Cardinality(S) \in Nat
  BY OneLess
<1> QED  BY <1>2, <1>5, <1>6

\* Two functions that agree on a set have the same sum over it.
LEMMA SumSame ==
    ASSUME NEW D, IsFiniteSet(D), NEW f \in [D -> Int], NEW h \in [D -> Int],
           NEW S \in SUBSET D, \A x \in S : f[x] = h[x]
    PROVE  SumFunctionOnSet(f, S) = SumFunctionOnSet(h, S)
<1>1. PICK g \in [SUBSET D -> Int] : Sums(g, f, D)
  BY SumExists
<1>2. SumFunctionOnSet(f, S) = g[S]
  BY <1>1, SumIs
<1>3. IsFiniteSet(S)
  BY FS_Subset
<1>4. Sums(g, f, S) /\ Sums(g, h, S)
  <2>1. \A T \in SUBSET S : T # {} => First(T) \in S
    BY FirstIn
  <2> QED  BY <1>1, <2>1 DEF Sums
<1>5. SumFunctionOnSet(h, S) = g[S]
  BY <1>3, <1>4, SumIs
<1> QED  BY <1>2, <1>5

-----------------------------------------------------------------------------
(* What the items of a cart cost.                                          *)

\* What i adds to the sum of f over S.
Adds(f, S, i) == IF i \in S THEN f[i] ELSE 0

\* A sum is what one element adds and what the others do.
LEMMA SumAround ==
    ASSUME NEW D, IsFiniteSet(D), NEW f \in [D -> Int], NEW S \in SUBSET D, NEW i
    PROVE  /\ SumFunctionOnSet(f, S) = Adds(f, S, i) + SumFunctionOnSet(f, S \ {i})
           /\ SumFunctionOnSet(f, S) \in Int /\ Adds(f, S, i) \in Int
           /\ SumFunctionOnSet(f, S \ {i}) \in Int
<1>1. SumFunctionOnSet(f, S) \in Int /\ SumFunctionOnSet(f, S \ {i}) \in Int
  <2>1. S \ {i} \in SUBSET D
    OBVIOUS
  <2> QED  BY <2>1, SumType
<1>2. CASE i \in S
  BY <1>1, <1>2, SumWithout DEF Adds
<1>3. CASE i \notin S
  <2>1. S \ {i} = S /\ Adds(f, S, i) = 0
    BY <1>3 DEF Adds
  <2>2. PICK sum \in Int : sum = SumFunctionOnSet(f, S)
    BY <1>1
  <2>3. sum = 0 + sum
    OBVIOUS
  <2>4. SumFunctionOnSet(f, S \ {i}) = sum
    BY <2>1, <2>2
  <2> QED  BY <2>1, <2>2, <2>3, <2>4
<1> QED  BY <1>2, <1>3

\* Rows are finitely many, and what each is worth is a number.
LEMMA WorthType ==
    ASSUME ItemsType, price \in [Product -> Nat]
    PROVE  /\ IsFiniteSet(Item) /\ ItemWorth \in [Item -> Int]
           /\ \A c : ItemsIn(c) \in SUBSET Item
<1>1. IsFiniteSet(Item)
  BY Rows, FS_Interval DEF Item
<1>2. ItemWorth \in [Item -> Int]
  <2>1. \A i \in Item : item[i].quantity \in Int /\ price[item[i].product] \in Int
    BY DEF ItemsType
  <2>2. \A i \in Item : item[i].quantity * price[item[i].product] \in Int
    BY <2>1
  <2> QED  BY <2>2 DEF ItemWorth
<1>3. \A c : ItemsIn(c) \in SUBSET Item
  BY DEF ItemsIn
<1> QED  BY <1>1, <1>2, <1>3

\* When one row changes, the worth of a cart changes by what that row adds
\* less what it added.
LEMMA WorthChange ==
    ASSUME ItemsType, ItemsType', price \in [Product -> Nat], UNCHANGED price,
           NEW i \in Item, \A j \in Item \ {i} : item'[j] = item[j], NEW c
    PROVE  /\ Worth(c)' = (Worth(c) - Adds(ItemWorth, ItemsIn(c), i)) + Adds(ItemWorth', ItemsIn(c)', i)
           /\ Worth(c) \in Int /\ Adds(ItemWorth, ItemsIn(c), i) \in Int
           /\ Adds(ItemWorth', ItemsIn(c)', i) \in Int
<1> DEFINE rest == ItemsIn(c) \ {i}
<1>1. /\ IsFiniteSet(Item) /\ ItemWorth \in [Item -> Int] /\ ItemsIn(c) \in SUBSET Item
  BY WorthType
<1>2. ItemWorth' \in [Item -> Int] /\ ItemsIn(c)' \in SUBSET Item
  <2>1. \A j \in Item : item'[j].quantity \in Int /\ price'[item'[j].product] \in Int
    BY DEF ItemsType
  <2>2. \A j \in Item : item'[j].quantity * price'[item'[j].product] \in Int
    BY <2>1
  <2> QED  BY <2>2 DEF ItemWorth, ItemsIn
<1>3. ItemsIn(c)' \ {i} = rest
  BY DEF ItemsIn, LiveItem
<1>4. \A j \in rest : ItemWorth'[j] = ItemWorth[j]
  BY DEF ItemWorth, ItemsIn
<1>5. SumFunctionOnSet(ItemWorth', rest) = SumFunctionOnSet(ItemWorth, rest)
  <2>1. rest \in SUBSET Item
    BY <1>1
  <2> HIDE DEF rest
  <2> QED  BY <1>1, <1>2, <1>4, <2>1, SumSame
<1>6. /\ Worth(c) = Adds(ItemWorth, ItemsIn(c), i) + SumFunctionOnSet(ItemWorth, rest)
      /\ Worth(c) \in Int /\ Adds(ItemWorth, ItemsIn(c), i) \in Int
      /\ SumFunctionOnSet(ItemWorth, rest) \in Int
  BY <1>1, SumAround DEF Worth
<1>7. /\ Worth(c)' = Adds(ItemWorth', ItemsIn(c)', i) + SumFunctionOnSet(ItemWorth', ItemsIn(c)' \ {i})
      /\ Adds(ItemWorth', ItemsIn(c)', i) \in Int
  <2>1. Worth(c)' = SumFunctionOnSet(ItemWorth', ItemsIn(c)')
    BY DEF Worth
  <2> QED  BY <1>1, <1>2, <2>1, SumAround
<1> HIDE DEF rest
<1>8. PICK a \in Int, b \in Int, s \in Int :
         /\ a = Adds(ItemWorth, ItemsIn(c), i) /\ b = Adds(ItemWorth', ItemsIn(c)', i)
         /\ s = SumFunctionOnSet(ItemWorth, rest)
  BY <1>6, <1>7
<1>9. Worth(c) = a + s /\ Worth(c)' = b + s
  BY <1>3, <1>5, <1>6, <1>7, <1>8
<1>10. b + s = ((a + s) - a) + b
  OBVIOUS
<1> QED  BY <1>6, <1>8, <1>9, <1>10

\* An empty cart is worth nothing.
LEMMA WorthNothing ==
    ASSUME ItemsType, price \in [Product -> Nat], NEW c, ItemsIn(c) = {}
    PROVE  Worth(c) = 0
<1>1. IsFiniteSet(Item) /\ ItemWorth \in [Item -> Int] /\ ItemsIn(c) \in SUBSET Item
  BY WorthType
<1> QED  BY <1>1, SumType DEF Worth

\* Arithmetic of the totals.
LEMMA Distributes ==
    ASSUME NEW a \in Int, NEW b \in Int, NEW p \in Int
    PROVE  /\ a * p \in Int /\ b * p \in Int /\ (a - b) * p \in Int /\ -(a * p) \in Int
           /\ (a - b) * p = a * p - b * p
           /\ ((a + b) - a) * p = b * p
           /\ 0 * p = 0
  OBVIOUS

-----------------------------------------------------------------------------
(* Carts in hand.                                                          *)

\* All calls but k stay where they are.
OthersStay(k) ==
    /\ \A j \in Call \ {k} : pc'[j] = pc[j] /\ mem'[j] = mem[j]
    /\ \A j \in Call \ {k} : effects'[j] = effects[j]

\* The cart's row, its items, and the prices that are used for it, stay.
Same(c) ==
    /\ cart'[c] = cart[c]
    /\ \A i \in Item : (LiveItem(i) /\ item[i].cart = c) \/ (LiveItem(i)' /\ item'[i].cart = c) =>
          item'[i] = item[i] /\ price'[item[i].product] = price[item[i].product]
    /\ \A j \in Call : c \in InHand(j) /\ pc[j] # "fetch" => price'[mem[j].product] = price[mem[j].product]

\* What HistoryInv says of the cart c to the call k, if no other has it.
Mine(k, c) ==
    /\ cart[c].total = Worth(c) + Ahead(pc[k], mem[k], c)
    /\ HoldsItem(k) /\ c = item[mem[k].item].cart => KnowsItem(pc[k], mem[k])
    /\ HoldsOwn(k) /\ c = mem[k].cart => KnowsOwn(pc[k], mem[k])

\* And what it says of it to all.
Due(c) ==
    /\ (\A k \in Call : c \notin InHand(k)) => cart[c].total = Worth(c)
    /\ \A k \in Call : c \in InHand(k) => Mine(k, c) /\ \A j \in Call \ {k} : c \notin InHand(j)

\* Which is all that the parts about totals say.
LEMMA DueIs ==
    TotalsAgree /\ InOneHand <=> \A c \in Cart : Clean(c) => Due(c)
  BY DEF TotalsAgree, InOneHand, Due, Mine, Clean

\* The worth of a cart is a number.
LEMMA WorthInt ==
    ASSUME IInv, NEW c
    PROVE  Worth(c) \in Int
  BY ThisCall, WorthType, SumAround DEF Worth, IInv, TypeOK, ItemsType

\* And the same while its items and their prices are.
LEMMA WorthSame ==
    ASSUME IInv, IInv', NEW c, Same(c)
    PROVE  Worth(c)' = Worth(c)
<1>1. /\ IsFiniteSet(Item) /\ ItemWorth \in [Item -> Int] /\ ItemsIn(c) \in SUBSET Item
  BY WorthType DEF IInv, TypeOK, ItemsType
<1>2. ItemWorth' \in [Item -> Int]
  <2>1. \A i \in Item : item'[i].quantity \in Int /\ price'[item'[i].product] \in Int
    BY DEF IInv, TypeOK
  <2>2. \A i \in Item : item'[i].quantity * price'[item'[i].product] \in Int
    BY <2>1
  <2> QED  BY <2>2 DEF ItemWorth
<1>3. ItemsIn(c)' = ItemsIn(c)
  BY DEF ItemsIn, LiveItem, Same
<1>4. \A i \in ItemsIn(c) : ItemWorth[i] = ItemWorth'[i]
  BY DEF ItemWorth, ItemsIn, Same
<1>5. SumFunctionOnSet(ItemWorth, ItemsIn(c)) = SumFunctionOnSet(ItemWorth', ItemsIn(c))
  BY <1>1, <1>2, <1>4, SumSame
<1>6. Worth(c)' = SumFunctionOnSet(ItemWorth', ItemsIn(c)')
  BY DEF Worth
<1> QED  BY <1>3, <1>5, <1>6 DEF Worth

\* A call that has put a cart's total ahead, or behind, has it in hand.
LEMMA AheadInHand ==
    ASSUME IInv, NEW k \in Call, NEW c \in Cart, c \notin InHand(k)
    PROVE  Ahead(pc[k], mem[k], c) = 0
<1>1. Knows(pc[k], mem[k])
  BY ThisCall
<1>2. pc[k] = "writeItem" /\ mem[k].itemCart = c => c \in InHand(k)
  BY <1>1 DEF InHand, HoldsItem, Knows, Changing
<1>3. pc[k] = "insertTotal" /\ mem[k].cart = c => c \in InHand(k)
  BY <1>1 DEF InHand, HoldsOwn, Knows, Adding
<1> QED  BY <1>2, <1>3 DEF Ahead

\* What is in no other hand is mine to know.
LEMMA MineNow ==
    ASSUME IInv, NEW k \in Call, NEW c \in Cart, Due(c), \A j \in Call \ {k} : c \notin InHand(j)
    PROVE  Mine(k, c)
<1>1. CASE c \in InHand(k)
  BY <1>1 DEF Due
<1>2. CASE c \notin InHand(k)
  <2>1. Ahead(pc[k], mem[k], c) = 0 /\ cart[c].total = Worth(c)
    BY <1>2, AheadInHand DEF Due
  <2>2. PICK w \in Int : w = Worth(c)
    BY WorthInt
  <2>3. w + 0 = w
    OBVIOUS
  <2>4. ~(HoldsItem(k) /\ c = item[mem[k].item].cart) /\ ~(HoldsOwn(k) /\ c = mem[k].cart)
    BY <1>2 DEF InHand
  <2> QED  BY <2>1, <2>2, <2>3, <2>4 DEF Mine
<1> QED  BY <1>1, <1>2

\* And what I know is due, then.
LEMMA DueMine ==
    IInv => \A k \in Call, c \in Cart : Mine(k, c) /\ (\A j \in Call \ {k} : c \notin InHand(j)) => Due(c)
<1> SUFFICES ASSUME IInv, NEW k \in Call, NEW c \in Cart, Mine(k, c), \A j \in Call \ {k} : c \notin InHand(j)
             PROVE  Due(c)
  OBVIOUS
<1>1. ASSUME c \notin InHand(k)
      PROVE  cart[c].total = Worth(c)
  <2>1. Ahead(pc[k], mem[k], c) = 0
    BY <1>1, AheadInHand
  <2>2. PICK w \in Int : w = Worth(c)
    BY WorthInt
  <2>3. w + 0 = w
    OBVIOUS
  <2> QED  BY <2>1, <2>2, <2>3 DEF Mine
<1> QED  BY <1>1 DEF Due

\* So it is after a step.
LEMMA DueMineNext ==
    IInv' => \A k \in Call, c \in Cart : Mine(k, c)' /\ (\A j \in Call \ {k} : c \notin InHand(j)') => Due(c)'
<1>1. (IInv => \A k \in Call, c \in Cart : Mine(k, c) /\ (\A j \in Call \ {k} : c \notin InHand(j)) => Due(c))'
  BY DueMine, PTL
<1> QED  BY <1>1

\* The hands of a call do not depend on what others do.
LEMMA HandStays ==
    ASSUME IInv, RowsKept, NEW j \in Call, pc'[j] = pc[j], mem'[j] = mem[j]
    PROVE  /\ HoldsItem(j)' <=> HoldsItem(j)
           /\ HoldsOwn(j)' <=> HoldsOwn(j)
           /\ InHand(j)' = InHand(j)
           /\ HoldsItem(j) => mem[j].item \in Item /\ item'[mem[j].item].cart = item[mem[j].item].cart
<1>1. /\ HoldsItem(j)' <=> HoldsItem(j)
      /\ HoldsOwn(j)' <=> HoldsOwn(j)
  BY DEF HoldsItem, HoldsOwn
<1>2. HoldsItem(j) => mem[j].item \in Item /\ item[mem[j].item].state # "unused"
  BY ThisCall DEF HoldsItem, Knows
<1>3. HoldsItem(j) => mem[j].item \in Item /\ item'[mem[j].item].cart = item[mem[j].item].cart
  BY <1>2 DEF RowsKept
<1> QED  BY <1>1, <1>3 DEF InHand

\* What a call knows of a cart stays true while the cart stays the same.
LEMMA MineStays ==
    ASSUME IInv, IInv', RowsKept, NEW j \in Call, pc'[j] = pc[j], mem'[j] = mem[j],
           NEW c \in Cart, Same(c), Mine(j, c)
    PROVE  Mine(j, c)'
<1>1. /\ HoldsItem(j)' <=> HoldsItem(j)
      /\ HoldsOwn(j)' <=> HoldsOwn(j)
      /\ HoldsItem(j) => mem[j].item \in Item /\ item'[mem[j].item].cart = item[mem[j].item].cart
  BY HandStays
<1>2. cart'[c].total = Worth(c)' + Ahead(pc[j], mem[j], c)'
  <2>1. Ahead(pc[j], mem[j], c)' = Ahead(pc[j], mem[j], c)
    BY DEF Ahead
  <2> QED  BY <2>1, WorthSame DEF Mine, Same
<1>3. ASSUME HoldsItem(j), c = item[mem[j].item].cart
      PROVE  KnowsItem(pc[j], mem[j])'
  <2>1. KnowsItem(pc[j], mem[j]) /\ c \in InHand(j) /\ pc[j] # "fetch"
    BY <1>3 DEF Mine, InHand, HoldsItem, Changing
  <2>2. LiveItem(mem[j].item)' /\ item'[mem[j].item] = item[mem[j].item]
    BY <1>1, <1>3, <2>1 DEF KnowsItem, Same, LiveItem
  <2>3. pc[j] # "read" => mem[j].itemCart = c
    BY <1>3, ThisCall DEF Knows, HoldsItem
  <2>4. pc[j] \in {"writeTotal", "writeItem"} => price'[mem[j].product] = price[mem[j].product]
    BY <2>1 DEF Same
  <2> QED  BY <2>1, <2>2, <2>3, <2>4 DEF KnowsItem, Same
<1>4. ASSUME HoldsOwn(j), c = mem[j].cart
      PROVE  KnowsOwn(pc[j], mem[j])'
  <2>1. KnowsOwn(pc[j], mem[j]) /\ c \in InHand(j)
    BY <1>4 DEF Mine, InHand
  <2> QED  BY <1>4, <2>1 DEF KnowsOwn, Same
<1> QED  BY <1>1, <1>2, <1>3, <1>4 DEF Mine

\* What is left to show of a cart's total when a call goes on: that it stays
\* the same if the call has it not in hand, and what the call knows of it.
LEMMA HandStep ==
    ASSUME IInv, IInv', RowsKept, NEW k \in Call, OthersStay(k), NEW c \in Cart,
           Due(c), c \notin Shared', c \notin InHand(k) => Same(c), Mine(k, c) => Mine(k, c)'
    PROVE  Due(c)'
<1>1. \A j \in Call \ {k} : InHand(j)' = InHand(j)
  BY HandStays DEF OthersStay
<1>2. CASE \A j \in Call \ {k} : c \notin InHand(j)
  <2>1. Mine(k, c)'
    BY <1>2, MineNow
  <2> QED  BY <1>1, <1>2, <2>1, DueMineNext
<1>3. ASSUME NEW j \in Call \ {k}, c \in InHand(j)
      PROVE  Due(c)'
  <2>1. Mine(j, c) /\ \A i \in Call \ {j} : c \notin InHand(i)
    BY <1>3 DEF Due
  <2>2. Same(c)
    BY <2>1
  <2>3. Mine(j, c)'
    BY <2>1, <2>2, MineStays DEF OthersStay
  <2>4. c \in InHand(j)' /\ c \notin InHand(k)'
    BY <1>1, <1>3 DEF Shared
  <2>5. \A i \in Call \ {j} : c \notin InHand(i)'
    BY <1>1, <2>1, <2>4
  <2> QED  BY <2>3, <2>5, DueMineNext
<1> QED  BY <1>2, <1>3

\* Nor is anything left when no call goes on and the cart stays the same.
LEMMA DueStays ==
    ASSUME IInv, IInv', RowsKept, UNCHANGED <<pc, mem>>, NEW c \in Cart, Due(c), Same(c)
    PROVE  Due(c)'
<1>1. \A j \in Call : InHand(j)' = InHand(j)
  BY HandStays
<1>2. \A j \in Call : Mine(j, c) => Mine(j, c)'
  BY MineStays
<1>3. cart'[c].total = cart[c].total /\ Worth(c)' = Worth(c)
  BY WorthSame DEF Same
<1> QED  BY <1>1, <1>2, <1>3 DEF Due

\* No row and no price changes.
LEMMA AllSame ==
    ASSUME UNCHANGED <<cart, item, price>>, NEW c
    PROVE  Same(c)
  BY DEF Same

-----------------------------------------------------------------------------
(* The totals, step by step.                                               *)

\* A step of a call leaves the others and the prices alone.
LEMMA StepAlone ==
    ASSUME IInv, NEW k \in Call, Step(k) \/ Fault(k)
    PROVE  /\ OthersStay(k) /\ UNCHANGED price
           /\ \A j \in Call : effects[j] \subseteq effects'[j]
<1>1. effects \in [Call -> SUBSET {"grown", "inserted"}]
  BY DEF IInv, TypeOK
<1>2. UNCHANGED price
  BY DEF Step, Fault, Find, Open, Fetch, Lookup, LookupFindsNone, Read, Refetch, WriteTotal, WriteItem,
         OwnTotal, Insert, InsertTotal, Refused, catalog
<1>3. \/ \E place : Goto(k, place)
      \/ \E place, locals : Continue(k, place, locals)
  BY DEF Step, Fault, Find, Found, Open, Fetch, Lookup, LookupFindsNone, Read, Refetch, WriteTotal, WriteItem,
         OwnTotal, Insert, InsertTotal, Refused, NotFound
<1>4. \/ UNCHANGED effects
      \/ \E e : effects' = [effects EXCEPT ![k] = @ \cup {e}]
  BY DEF Step, Fault, Find, Open, Fetch, Lookup, LookupFindsNone, Read, Refetch, WriteTotal, WriteItem,
         OwnTotal, Insert, InsertTotal, Refused, NotFound
<1>5. \A j \in Call \ {k} : pc'[j] = pc[j] /\ mem'[j] = mem[j]
  BY <1>3, Moved
<1>6. (\A j \in Call \ {k} : effects'[j] = effects[j]) /\ \A j \in Call : effects[j] \subseteq effects'[j]
  BY <1>1, <1>4
<1> QED  BY <1>2, <1>5, <1>6 DEF OthersStay

\* Neither rows nor prices change, nor what is ahead: the locals are left.
LEMMA PlainMine ==
    ASSUME IInv, IInv', NEW k \in Call, NEW c \in Cart, UNCHANGED <<cart, item, price>>, Mine(k, c),
           Ahead(pc[k], mem[k], c)' = Ahead(pc[k], mem[k], c),
           HoldsItem(k)' /\ c = item'[mem'[k].item].cart => KnowsItem(pc[k], mem[k])',
           HoldsOwn(k)' /\ c = mem'[k].cart => KnowsOwn(pc[k], mem[k])'
    PROVE  Mine(k, c)'
<1>1. Worth(c)' = Worth(c)
  BY AllSame, WorthSame
<1> QED  BY <1>1 DEF Mine

\* A call is over that had nothing ahead.
LEMMA EndMine ==
    ASSUME IInv, IInv', NEW k \in Call, NEW c \in Cart, UNCHANGED <<cart, item, price>>, Mine(k, c),
           Ahead(pc[k], mem[k], c) = 0, pc'[k] \in Over \cup {"find", "open", "findTemp", "openTemp", "insertTemp"}
    PROVE  Mine(k, c)'
<1>1. Ahead(pc[k], mem[k], c)' = 0
  BY DEF Ahead, Over
<1>2. ~HoldsItem(k)' /\ ~HoldsOwn(k)'
  BY DEF HoldsItem, HoldsOwn, Adding, Changing, Over
<1> QED  BY <1>1, <1>2, PlainMine

\* A NotFoundException, when nothing is ahead and create has raised no row
\* that its own total is still to follow.
LEMMA NotFoundMine ==
    ASSUME IInv, IInv', NEW k \in Call, NEW c \in Cart, NotFound(k), UNCHANGED price, Mine(k, c),
           pc[k] \in {"lookup", "read", "writeTotal", "writeItem", "ownTotal"},
           Ahead(pc[k], mem[k], c) = 0,
           pc[k] = "ownTotal" \/ (pc[k] = "writeItem" /\ mem[k].itemCart = mem[k].cart) => c # mem[k].cart
    PROVE  Mine(k, c)'
<1>1. UNCHANGED <<cart, item>> /\ pc'[k] = IF mem[k].op = "create" THEN "insert" ELSE "failed"
  BY Moved DEF NotFound, tables
<1>2. CASE mem[k].op = "create"
  <2>1. mem'[k] = mem[k] /\ pc'[k] = "insert"
    BY <1>1, <1>2, Moved DEF NotFound, Over
  <2>2. Ahead(pc[k], mem[k], c)' = 0 /\ ~HoldsItem(k)'
    BY <2>1 DEF Ahead, HoldsItem, Changing
  <2>3. ASSUME HoldsOwn(k)', c = mem'[k].cart
        PROVE  KnowsOwn(pc[k], mem[k])'
    <3>1. KnowsOwn(pc[k], mem[k]) /\ mem'[k].cart = mem[k].cart
      BY <1>2, <2>1, <2>3 DEF Mine, HoldsOwn, Adding, Changing
    <3> QED  BY <1>1, <2>1, <2>3, <3>1 DEF KnowsOwn
  <2> QED  BY <1>1, <2>2, <2>3, PlainMine
<1>3. CASE mem[k].op # "create"
  BY <1>1, <1>3, EndMine DEF Over
<1> QED  BY <1>2, <1>3

\* The steps that only read: the cart, the product, the row, the product again.
LEMMA ReadsMine ==
    ASSUME IInv, IInv', NEW k \in Call, NEW c \in Cart, Mine(k, c),
           Find(k) \/ Fetch(k) \/ Lookup(k) \/ LookupFindsNone(k) \/ Read(k) \/ Refetch(k) \/ Refused(k)
    PROVE  UNCHANGED <<cart, item>> /\ Mine(k, c)'
<1> DEFINE m == mem[k]
<1>0. /\ pc[k] \in {"find", "fetch", "lookup", "read", "refetch"}
      /\ UNCHANGED <<cart, item, price>> /\ Ahead(pc[k], mem[k], c) = 0
  <2>1. pc[k] \in {"find", "fetch", "lookup", "read", "refetch"} /\ UNCHANGED <<cart, item, price>>
    BY DEF Find, Fetch, Lookup, LookupFindsNone, Read, Refetch, Refused, Remote, NotFound, catalog, tables
  <2> QED  BY <2>1 DEF Ahead
<1>00. Knows(pc[k], m) /\ m \in Memory /\ CartsType
  BY ThisCall
<1>1. CASE Find(k)
  <2>1. CASE \E place \in {"open", "ok"} : Goto(k, place)
    <3>1. pc'[k] \in {"open", "ok"}
      BY <2>1, Moved
    <3> QED  BY <1>0, <3>1, EndMine DEF Over
  <2>2. CASE \E d : Continue(k, "fetch", [m EXCEPT !.cart = d, !.total = cart[d].total])
    <3>1. PICK d : Continue(k, "fetch", [m EXCEPT !.cart = d, !.total = cart[d].total])
      BY <2>2
    <3>2. pc'[k] = "fetch" /\ mem'[k] = [m EXCEPT !.cart = d, !.total = cart[d].total]
      BY <3>1, Moved
    <3>3. mem'[k].cart = d /\ mem'[k].total = cart[d].total
      BY <1>00, <3>2 DEF Memory
    <3>4. Ahead(pc[k], mem[k], c)' = 0 /\ ~HoldsItem(k)'
      BY <3>2 DEF Ahead, HoldsItem, Changing
    <3>5. KnowsOwn(pc[k], mem[k])'
      BY <1>0, <3>2, <3>3 DEF KnowsOwn
    <3> QED  BY <1>0, <3>4, <3>5, PlainMine
  <2> QED  BY <1>1, <2>1, <2>2 DEF Find, Found
<1>2. CASE Fetch(k)
  <2> DEFINE locals == [m EXCEPT !.price = price[m.product]]
  <2>1. pc[k] = "fetch" /\ Continue(k, "lookup", locals)
    BY <1>2 DEF Fetch
  <2>2. /\ locals.price = price[m.product] /\ locals.product = m.product
        /\ locals.cart = m.cart /\ locals.total = m.total /\ locals.op = m.op
    BY <1>00 DEF Memory
  <2> HIDE DEF locals
  <2>3. pc'[k] = "lookup" /\ mem'[k] = locals
    BY <2>1, Moved
  <2>4. Ahead(pc[k], mem[k], c)' = 0 /\ ~HoldsItem(k)'
    BY <2>3 DEF Ahead, HoldsItem, Changing
  <2>5. ASSUME HoldsOwn(k)', c = mem'[k].cart
        PROVE  KnowsOwn(pc[k], mem[k])'
    <3>1. KnowsOwn(pc[k], m)
      BY <2>1, <2>2, <2>3, <2>5 DEF Mine, HoldsOwn, Adding
    <3> QED  BY <1>0, <2>1, <2>2, <2>3, <3>1 DEF KnowsOwn
  <2> QED  BY <1>0, <2>4, <2>5, PlainMine
<1>3. CASE Lookup(k)
  <2>1. PICK i : /\ i \in Carrying(m.user, m.product)
                 /\ Continue(k, "read", [m EXCEPT !.item = i, !.newQuantity = item[i].quantity + m.quantity])
    BY <1>3 DEF Lookup
  <2> DEFINE locals == [m EXCEPT !.item = i, !.newQuantity = item[i].quantity + m.quantity]
  <2>2. /\ locals.item = i /\ locals.newQuantity = item[i].quantity + m.quantity
        /\ locals.product = m.product /\ locals.price = m.price /\ locals.quantity = m.quantity
        /\ locals.cart = m.cart /\ locals.total = m.total /\ locals.op = m.op
    BY <1>00 DEF Memory
  <2>3. Continue(k, "read", locals) /\ pc[k] = "lookup" /\ LiveItem(i)
    BY <1>3, <2>1 DEF Lookup, Carrying
  <2> HIDE DEF locals
  <2>4. pc'[k] = "read" /\ mem'[k] = locals
    BY <2>3, Moved
  <2>5. Ahead(pc[k], mem[k], c)' = 0
    BY <2>4 DEF Ahead
  <2>6. KnowsItem(pc[k], mem[k])'
    BY <1>0, <2>2, <2>3, <2>4 DEF KnowsItem, LiveItem
  <2>7. ASSUME HoldsOwn(k)', c = mem'[k].cart
        PROVE  KnowsOwn(pc[k], mem[k])'
    <3>1. KnowsOwn(pc[k], m)
      BY <2>2, <2>3, <2>4, <2>7 DEF Mine, HoldsOwn, Adding
    <3> QED  BY <1>0, <2>2, <2>3, <2>4, <3>1 DEF KnowsOwn
  <2> QED  BY <1>0, <2>5, <2>6, <2>7, PlainMine
<1>4. CASE LookupFindsNone(k)
  BY <1>0, <1>4, NotFoundMine DEF LookupFindsNone
<1>5. CASE Read(k) /\ ~LiveItem(m.item)
  BY <1>0, <1>5, NotFoundMine DEF Read
<1>6. CASE Read(k) /\ LiveItem(m.item)
  <2> DEFINE i == m.item
             locals == [m EXCEPT !.product = item[i].product,
                                 !.itemCart = item[i].cart,
                                 !.itemTotal = cart[item[i].cart].total,
                                 !.oldQuantity = item[i].quantity]
  <2>1. pc[k] = "read" /\ Continue(k, "refetch", locals)
    BY <1>6 DEF Read
  <2>2. /\ locals.item = i /\ locals.product = item[i].product /\ locals.itemCart = item[i].cart
        /\ locals.itemTotal = cart[item[i].cart].total /\ locals.oldQuantity = item[i].quantity
        /\ locals.op = m.op /\ locals.price = m.price /\ locals.newQuantity = m.newQuantity
        /\ locals.quantity = m.quantity /\ locals.cart = m.cart /\ locals.total = m.total
    BY <1>00 DEF Memory
  <2>3. m.op = "create" => m.product = item[i].product
    BY <1>00, <2>1 DEF Knows, Changing
  <2> HIDE DEF locals
  <2>4. pc'[k] = "refetch" /\ mem'[k] = locals
    BY <2>1, Moved
  <2>5. Ahead(pc[k], mem[k], c)' = 0
    BY <2>4 DEF Ahead
  <2>6. ASSUME c = item'[mem'[k].item].cart
        PROVE  KnowsItem(pc[k], mem[k])'
    <3>1. m.op = "create" => KnowsItem(pc[k], m)
      BY <1>0, <2>1, <2>2, <2>4, <2>6 DEF Mine, HoldsItem, Changing
    <3>2. m.op = "create" => m.newQuantity = item[i].quantity + m.quantity
      BY <3>1 DEF KnowsItem
    <3> QED  BY <1>0, <1>6, <2>1, <2>2, <2>4, <3>2 DEF KnowsItem, LiveItem
  <2>7. ASSUME HoldsOwn(k)', c = mem'[k].cart
        PROVE  KnowsOwn(pc[k], mem[k])'
    <3>1. KnowsOwn(pc[k], m) /\ m.op = "create"
      BY <2>1, <2>2, <2>4, <2>7 DEF Mine, HoldsOwn, Changing
    <3> QED  BY <1>0, <2>1, <2>2, <2>3, <2>4, <3>1 DEF KnowsOwn
  <2> QED  BY <1>0, <2>5, <2>6, <2>7, PlainMine
<1>7. CASE Refetch(k)
  <2> DEFINE locals == [m EXCEPT !.itemPrice = price[m.product]]
  <2>1. pc[k] = "refetch" /\ Continue(k, "writeTotal", locals)
    BY <1>7 DEF Refetch
  <2>2. /\ locals.itemPrice = price[m.product] /\ locals.item = m.item /\ locals.product = m.product
        /\ locals.itemCart = m.itemCart /\ locals.itemTotal = m.itemTotal /\ locals.oldQuantity = m.oldQuantity
        /\ locals.op = m.op /\ locals.price = m.price /\ locals.newQuantity = m.newQuantity
        /\ locals.quantity = m.quantity /\ locals.cart = m.cart /\ locals.total = m.total
    BY <1>00 DEF Memory
  <2> HIDE DEF locals
  <2>3. pc'[k] = "writeTotal" /\ mem'[k] = locals
    BY <2>1, Moved
  <2>4. Ahead(pc[k], mem[k], c)' = 0
    BY <2>3 DEF Ahead
  <2>5. ASSUME c = item'[mem'[k].item].cart
        PROVE  KnowsItem(pc[k], mem[k])'
    <3>1. KnowsItem(pc[k], m)
      BY <1>0, <2>1, <2>2, <2>3, <2>5 DEF Mine, HoldsItem, Changing
    <3> QED  BY <1>0, <2>1, <2>2, <2>3, <3>1 DEF KnowsItem, LiveItem
  <2>6. ASSUME HoldsOwn(k)', c = mem'[k].cart
        PROVE  KnowsOwn(pc[k], mem[k])'
    <3>1. KnowsOwn(pc[k], m)
      BY <2>1, <2>2, <2>3, <2>6 DEF Mine, HoldsOwn, Changing
    <3> QED  BY <1>0, <2>1, <2>2, <2>3, <3>1 DEF KnowsOwn
  <2> QED  BY <1>0, <2>4, <2>5, <2>6, PlainMine
<1>8. CASE Refused(k)
  <2>1. pc'[k] = "failed"
    BY <1>8, Moved DEF Refused
  <2> QED  BY <1>0, <2>1, EndMine DEF Over
<1> QED  BY <1>0, <1>1, <1>2, <1>3, <1>4, <1>5, <1>6, <1>7, <1>8

\* The total is written before the row: it is ahead by what the row will
\* change.
LEMMA WriteTotalMine ==
    ASSUME IInv, IInv', NEW k \in Call, NEW c \in Cart, LiveCart(c), WriteTotal(k)
    PROVE  /\ c \notin InHand(k) => Same(c)
           /\ Mine(k, c) => Mine(k, c)'
<1> DEFINE m == mem[k]
           was == m.oldQuantity
           new == NewQuantity(k)
<1>0. /\ pc[k] = "writeTotal" /\ UNCHANGED <<item, price>> /\ Ahead(pc[k], m, c) = 0
      /\ Knows(pc[k], m) /\ m \in Memory /\ CartsType
  BY ThisCall DEF WriteTotal, catalog, tables, NotFound, Ahead
<1>1. CASE ~(m.op # "delete" /\ new = was) /\ ~LiveCart(m.itemCart)
  <2>1. NotFound(k)
    BY <1>1 DEF WriteTotal
  <2>2. UNCHANGED cart
    BY <2>1 DEF NotFound, tables
  <2> QED  BY <1>0, <2>1, <2>2, NotFoundMine, AllSame
<1>2. CASE (m.op # "delete" /\ new = was) \/ LiveCart(m.itemCart)
  <2>1. Goto(k, "writeItem")
    BY <1>2 DEF WriteTotal
  <2>2. pc'[k] = "writeItem" /\ mem'[k] = m
    BY <2>1, Moved DEF Over
  <2>3. PICK of \in Cart, q \in Int, old \in Int, p \in Int, t \in Int :
           of = m.itemCart /\ q = new /\ old = was /\ p = m.itemPrice /\ t = m.itemTotal
    <3>1. /\ m.newQuantity \in Int /\ was \in Int /\ m.itemPrice \in Int /\ m.itemTotal \in Int
          /\ new = IF m.op = "delete" THEN 0 ELSE m.newQuantity
      BY <1>0 DEF Memory, NewQuantity
    <3>2. m.itemCart \in Cart
      BY <1>0 DEF Knows, Changing, IInv, ItemsAreInCarts
    <3>3. new \in Int
      BY <3>1
    <3> HIDE DEF new, was, m
    <3> QED  BY <3>1, <3>2, <3>3
  <2>4. /\ m.item \in Item /\ of = item[m.item].cart /\ m.product = item[m.item].product
        /\ q = IF m.op = "delete" THEN 0 ELSE m.newQuantity
        /\ m.quantity \in Int /\ m.price \in Int /\ m.total \in Int
    BY <1>0, <2>3 DEF Knows, Changing, Memory, NewQuantity
  <2> HIDE DEF new, was
  <2>5. \/ UNCHANGED cart /\ m.op # "delete" /\ q = old
        \/ LiveCart(of) /\ cart' = [cart EXCEPT ![of].total = t + (q - old) * p]
    BY <1>2, <2>3 DEF WriteTotal, SetTotal, tables, new, was
  <2>6. /\ \A d \in Cart : cart'[d].state = cart[d].state
        /\ \A d \in Cart \ {of} : cart'[d] = cart[d]
    BY <1>0, <2>5 DEF CartsType
  <2>7. CASE c # of
    <3>1. Same(c)
      BY <1>0, <2>6, <2>7 DEF Same
    <3>2. Ahead(pc[k], mem[k], c)' = 0
      BY <2>2, <2>3, <2>7 DEF Ahead
    <3>3. ~(c = item'[mem'[k].item].cart)
      BY <1>0, <2>2, <2>4, <2>7
    <3>4. ASSUME Mine(k, c), HoldsOwn(k)', c = mem'[k].cart
          PROVE  KnowsOwn(pc[k], mem[k])'
      <4>1. KnowsOwn(pc[k], m)
        BY <1>0, <2>2, <3>4 DEF Mine, HoldsOwn, Changing
      <4> QED  BY <1>0, <2>2, <2>3, <2>6, <2>7, <3>4, <4>1 DEF KnowsOwn
    <3> QED  BY <1>0, <3>1, <3>2, <3>3, <3>4, WorthSame DEF Mine, Same
  <2>8. CASE c = of
    <3>1. c \in InHand(k)
      BY <1>0, <2>4, <2>8 DEF InHand, HoldsItem, Changing
    <3> SUFFICES ASSUME Mine(k, c)
                 PROVE  Mine(k, c)'
      BY <3>1
    <3>2. /\ KnowsItem(pc[k], m) /\ LiveItem(m.item) /\ t = cart[of].total
          /\ old = item[m.item].quantity /\ p = price[m.product]
      <4>1. KnowsItem(pc[k], m)
        BY <1>0, <2>4, <2>8 DEF Mine, HoldsItem, Changing
      <4> QED  BY <1>0, <2>3, <4>1 DEF KnowsItem, was
    <3>3. PICK w \in Int : w = Worth(c) /\ w = Worth(c)'
      <4>1. ItemsIn(c)' = ItemsIn(c) /\ ItemWorth' = ItemWorth
        BY <1>0 DEF ItemsIn, ItemWorth, LiveItem
      <4> QED  BY <4>1, WorthInt DEF Worth
    <3>4. t = w
      <4>1. t = w + 0
        BY <1>0, <2>8, <3>2, <3>3 DEF Mine
      <4> QED  BY <4>1
    <3>5. PICK more \in Int : more = (q - old) * p
      OBVIOUS
    <3>6. cart'[of].total = t + more
      <4>1. CASE UNCHANGED cart /\ q = old
        <5>1. more = 0
          <6>1. q - old = 0 /\ 0 * p = 0
            BY <4>1
          <6> QED  BY <3>5, <6>1
        <5> QED  BY <3>2, <4>1, <5>1
      <4>2. CASE LiveCart(of) /\ cart' = [cart EXCEPT ![of].total = t + (q - old) * p]
        BY <1>0, <2>8, <3>5, <4>2 DEF CartsType
      <4> QED  BY <2>5, <4>1, <4>2
    <3>7. Ahead(pc[k], mem[k], c)' = more
      BY <2>2, <2>3, <2>4, <2>8, <3>5 DEF Ahead, was
    <3>8. KnowsItem(pc[k], mem[k])'
      BY <1>0, <2>2, <2>3, <3>2 DEF KnowsItem, LiveItem
    <3>9. ASSUME HoldsOwn(k)', c = mem'[k].cart
          PROVE  KnowsOwn(pc[k], mem[k])'
      <4>1. KnowsOwn(pc[k], m) /\ m.op = "create"
        BY <1>0, <2>2, <3>9 DEF Mine, HoldsOwn, Changing
      <4>2. m.price = price[m.product] /\ cart[of].total = m.total
        BY <1>0, <2>2, <2>8, <3>9, <4>1 DEF KnowsOwn
      <4>3. q = old + m.quantity
        BY <2>4, <3>2, <4>1 DEF KnowsItem
      <4>4. more = m.quantity * m.price
        <5>1. q - old = m.quantity
          BY <2>4, <4>3
        <5> QED  BY <3>2, <3>5, <4>2, <5>1
      <4>5. cart'[of].total = m.total + m.quantity * m.price
        BY <3>2, <3>6, <4>2, <4>4
      <4> QED  BY <1>0, <2>2, <2>3, <2>8, <3>9, <4>2, <4>5 DEF KnowsOwn
    <3> QED  BY <2>8, <3>3, <3>4, <3>6, <3>7, <3>8, <3>9 DEF Mine
  <2> QED  BY <2>7, <2>8
<1> QED  BY <1>1, <1>2

\* A row is written and the total it was written for agrees again.  A create
\* that raised another cart's row has then still to add to its own.
LEMMA WriteItemMine ==
    ASSUME IInv, IInv', NEW k \in Call, NEW c \in Cart, LiveCart(c), c \notin Mixed', WriteItem(k)
    PROVE  /\ c \notin InHand(k) => Same(c)
           /\ Mine(k, c) => Mine(k, c)'
<1> DEFINE m == mem[k]
<1>0. /\ pc[k] = "writeItem" /\ UNCHANGED <<cart, price>>
      /\ Knows(pc[k], m) /\ m \in Memory /\ ItemsType /\ ItemsType' /\ price \in [Product -> Nat]
      /\ m.item \in Item /\ m.itemCart = item[m.item].cart /\ m.product = item[m.item].product
  <2>1. pc[k] = "writeItem" /\ UNCHANGED <<cart, price>> /\ ItemsType'
    BY DEF WriteItem, catalog, tables, NotFound, IInv, TypeOK, ItemsType
  <2>2. Knows(pc[k], m)
    BY ThisCall
  <2> QED  BY <2>1, <2>2, ThisCall DEF Knows, Changing
<1>1. CASE ~LiveItem(m.item)
  <2>1. NotFound(k) /\ UNCHANGED item
    BY <1>1 DEF WriteItem, NotFound, tables
  <2> SUFFICES ASSUME Mine(k, c)
               PROVE  Mine(k, c)'
    BY <1>0, <2>1, AllSame
  <2>2. c # m.itemCart
    <3> SUFFICES ASSUME c = m.itemCart PROVE FALSE
      OBVIOUS
    <3>1. KnowsItem(pc[k], m)
      BY <1>0 DEF Mine, HoldsItem, Changing
    <3> QED  BY <1>1, <3>1 DEF KnowsItem
  <2>3. Ahead(pc[k], mem[k], c) = 0
    BY <1>0, <2>2 DEF Ahead
  <2> QED  BY <1>0, <2>1, <2>2, <2>3, NotFoundMine
<1>2. CASE LiveItem(m.item)
  <2>1. PICK i \in Item, of \in Cart, q \in Int, old \in Int, p \in Int :
           /\ i = m.item /\ of = item[i].cart /\ q = m.newQuantity /\ old = m.oldQuantity /\ p = m.itemPrice
    <3>1. m.newQuantity \in Int /\ m.oldQuantity \in Int /\ m.itemPrice \in Int
      BY <1>0 DEF Memory
    <3>2. item[m.item].cart \in Cart
      BY <1>0, ThisCall DEF Knows, Changing, IInv, ItemsAreInCarts
    <3> HIDE DEF m
    <3> QED  BY <1>0, <3>1, <3>2
  <2>2. /\ \A j \in Item \ {i} : item'[j] = item[j]
        /\ item'[i].cart = of /\ item'[i].product = item[i].product
        /\ m.op = "delete" => ~LiveItem(i)'
        /\ m.op # "delete" => LiveItem(i)' /\ item'[i].quantity = q
        /\ Goto(k, IF m.op = "create" THEN "ownTotal" ELSE "ok")
    BY <1>0, <1>2, <2>1 DEF WriteItem, ItemsType, LiveItem
  <2>3. /\ m.op = "create" => pc'[k] = "ownTotal" /\ mem'[k] = m
        /\ m.op # "create" => pc'[k] = "ok"
    BY <2>2, Moved DEF Over
  <2>4. /\ Ahead(pc[k], mem[k], c)' = 0 /\ ~HoldsItem(k)'
        /\ HoldsOwn(k)' => m.op = "create" /\ mem'[k] = m
    BY <2>3 DEF Ahead, HoldsItem, HoldsOwn, Adding, Changing
  <2>5. c = m.cart /\ m.op = "create" => c = of
    BY <2>1, <2>2, <2>3 DEF Mixed
  <2>6. CASE c # of
    <3>1. Same(c)
      BY <1>0, <2>1, <2>2, <2>6 DEF Same
    <3>2. Ahead(pc[k], m, c) = 0
      BY <1>0, <2>1, <2>6 DEF Ahead
    <3> QED  BY <2>4, <2>5, <2>6, <3>1, <3>2, WorthSame DEF Mine, Same
  <2>7. CASE c = of
    <3>1. c \in InHand(k)
      BY <1>0, <2>1, <2>7 DEF InHand, HoldsItem, Changing
    <3> SUFFICES ASSUME Mine(k, c)
                 PROVE  Mine(k, c)'
      BY <3>1
    <3>2. LiveItem(i) /\ old = item[i].quantity /\ p = price[item[i].product]
      BY <1>0, <1>2, <2>1, <2>7 DEF Mine, HoldsItem, Changing, KnowsItem
    <3>3. PICK w \in Int : w = Worth(c)
      BY WorthInt
    <3>4. PICK a \in Int, b \in Int :
             /\ a = Adds(ItemWorth, ItemsIn(c), i) /\ b = Adds(ItemWorth', ItemsIn(c)', i)
             /\ Worth(c)' = (w - a) + b
      BY <1>0, <2>2, <3>3, WorthChange
    <3>5. a = old * p
      <4>1. i \in ItemsIn(c)
        BY <2>1, <2>7, <3>2 DEF ItemsIn
      <4> QED  BY <3>2, <3>4, <4>1 DEF Adds, ItemWorth
    <3>6. cart'[c].total = Worth(c)'
      <4>1. CASE m.op = "delete"
        <5>1. b = 0
          BY <2>2, <3>4, <4>1 DEF Adds, ItemsIn
        <5>2. cart[c].total = w + (0 - old) * p
          BY <1>0, <2>1, <2>7, <3>3, <4>1 DEF Mine, Ahead
        <5>3. (0 - old) * p = 0 - old * p
          BY Distributes
        <5> QED  BY <1>0, <3>4, <3>5, <5>1, <5>2, <5>3
      <4>2. CASE m.op # "delete"
        <5>1. i \in ItemsIn(c)' /\ ItemWorth'[i] = q * p
          BY <1>0, <2>2, <2>7, <3>2, <4>2 DEF ItemsIn, ItemWorth
        <5>2. b = q * p
          BY <3>4, <5>1 DEF Adds
        <5>3. cart[c].total = w + (q - old) * p
          BY <1>0, <2>1, <2>7, <3>3, <4>2 DEF Mine, Ahead
        <5>4. (q - old) * p = q * p - old * p /\ q * p \in Int /\ old * p \in Int
          BY Distributes
        <5> QED  BY <1>0, <3>4, <3>5, <5>2, <5>3, <5>4
      <4> QED  BY <4>1, <4>2
    <3>7. cart'[c].total = Worth(c)' + Ahead(pc[k], mem[k], c)'
      <4>1. PICK v \in Int : v = Worth(c)'
        BY <3>4
      <4>2. v + 0 = v
        OBVIOUS
      <4> QED  BY <2>4, <3>6, <4>1, <4>2
    <3>8. ASSUME HoldsOwn(k)', c = mem'[k].cart
          PROVE  KnowsOwn(pc[k], mem[k])'
      <4>1. KnowsOwn(pc[k], m) /\ m.op = "create" /\ mem'[k] = m /\ pc'[k] = "ownTotal"
        BY <1>0, <2>3, <2>4, <3>8 DEF Mine, HoldsOwn, Changing
      <4> QED  BY <1>0, <2>1, <2>7, <3>8, <4>1 DEF KnowsOwn
    <3> QED  BY <2>4, <3>7, <3>8 DEF Mine
  <2> QED  BY <2>6, <2>7
<1> QED  BY <1>1, <1>2

\* The total create writes after the row is the one that is there.
LEMMA OwnTotalMine ==
    ASSUME IInv, IInv', NEW k \in Call, NEW c \in Cart, LiveCart(c), OwnTotal(k)
    PROVE  /\ c \notin InHand(k) => Same(c)
           /\ Mine(k, c) => Mine(k, c)'
<1> DEFINE m == mem[k]
<1>0. /\ pc[k] = "ownTotal" /\ UNCHANGED <<item, price>> /\ Knows(pc[k], m) /\ CartsType
      /\ Ahead(pc[k], mem[k], c) = 0
  BY ThisCall DEF OwnTotal, catalog, NotFound, tables, Ahead
<1>1. CASE ~LiveCart(m.cart)
  <2>1. NotFound(k) /\ c # m.cart
    BY <1>1 DEF OwnTotal
  <2>2. UNCHANGED cart
    BY <2>1 DEF NotFound, tables
  <2> QED  BY <1>0, <2>1, <2>2, AllSame, NotFoundMine
<1>2. CASE LiveCart(m.cart)
  <2>1. /\ cart' = [cart EXCEPT ![m.cart].total = m.total + m.quantity * m.price]
        /\ pc'[k] = "ok"
    BY <1>2, Moved DEF OwnTotal, SetTotal, CreateTotal
  <2>2. Ahead(pc[k], mem[k], c)' = 0 /\ ~HoldsItem(k)' /\ ~HoldsOwn(k)'
    BY <2>1 DEF Ahead, HoldsItem, HoldsOwn, Adding, Changing
  <2>3. CASE c # m.cart
    <3>1. Same(c)
      BY <1>0, <2>1, <2>3 DEF Same, CartsType
    <3> QED  BY <1>0, <2>2, <3>1, WorthSame DEF Mine, Same
  <2>4. CASE c = m.cart
    <3>1. HoldsOwn(k) /\ c \in InHand(k)
      BY <1>0, <2>4 DEF InHand, HoldsOwn, Knows, Adding
    <3> SUFFICES ASSUME Mine(k, c)
                 PROVE  Mine(k, c)'
      BY <3>1
    <3>2. cart[c].total = m.total + m.quantity * m.price
      BY <1>0, <2>4, <3>1 DEF Mine, KnowsOwn
    <3>3. cart'[c].total = cart[c].total
      BY <1>0, <2>1, <2>4, <3>2 DEF CartsType
    <3>4. Worth(c)' = Worth(c)
      <4>1. ItemsIn(c)' = ItemsIn(c) /\ ItemWorth' = ItemWorth
        BY <1>0 DEF ItemsIn, ItemWorth, LiveItem
      <4> QED  BY <4>1 DEF Worth
    <3> QED  BY <1>0, <2>2, <3>3, <3>4 DEF Mine
  <2> QED  BY <2>3, <2>4
<1> QED  BY <1>1, <1>2

\* A new row: the total is behind by its worth.
LEMMA InsertMine ==
    ASSUME IInv, IInv', NEW k \in Call, NEW c \in Cart, Insert(k)
    PROVE  /\ c \notin InHand(k) => Same(c)
           /\ Mine(k, c) => Mine(k, c)'
<1> DEFINE m == mem[k]
<1>0. /\ pc[k] = "insert" /\ UNCHANGED <<cart, price>> /\ Ahead(pc[k], m, c) = 0
      /\ Knows(pc[k], m) /\ m \in Memory /\ m.op = "create"
      /\ ItemsType /\ ItemsType' /\ price \in [Product -> Nat]
  <2>1. pc[k] = "insert" /\ UNCHANGED <<cart, price>> /\ ItemsType' /\ Knows(pc[k], m)
    BY ThisCall DEF Insert, catalog, IInv, TypeOK, ItemsType
  <2> QED  BY <2>1, ThisCall DEF Knows, Adding, Ahead
<1>1. CASE ~LiveCart(m.cart)
  <2>1. pc'[k] = "failed" /\ UNCHANGED item
    BY <1>1, Moved DEF Insert
  <2> QED  BY <1>0, <2>1, AllSame, EndMine DEF Over
<1>2. CASE LiveCart(m.cart)
  <2>1. PICK i \in Item :
           /\ item[i].state = "unused"
           /\ item' = [item EXCEPT ![i] = [state |-> "live", cart |-> m.cart,
                                           product |-> m.product, quantity |-> m.quantity]]
    <3>1. Unused(item) \subseteq Item /\ Unused(item) # {}
      BY <1>0, <1>2 DEF Unused, ItemsType, Insert
    <3>2. Min(Unused(item)) \in Unused(item)
      BY <3>1, Rows, LeastRow
    <3> QED  BY <1>2, <3>1, <3>2 DEF Insert, Unused
  <2>2. pc'[k] = "insertTotal" /\ mem'[k] = m
    BY <1>2, Moved DEF Insert, Over
  <2>3. PICK q \in Int, p \in Int, of \in Cart : q = m.quantity /\ p = m.price /\ of = m.cart
    <3>1. m.quantity \in Int /\ m.price \in Int /\ m.cart \in Cart
      BY <1>0, <1>2 DEF Memory, LiveCart
    <3> HIDE DEF m
    <3> QED  BY <3>1
  <2>4. /\ \A j \in Item \ {i} : item'[j] = item[j]
        /\ LiveItem(i)' /\ item'[i].cart = of /\ item'[i].product = m.product /\ item'[i].quantity = q
    BY <1>0, <2>1, <2>3 DEF ItemsType, LiveItem
  <2>5. ~HoldsItem(k)'
    BY <2>2 DEF HoldsItem, Changing
  <2>6. CASE c # of
    <3>1. Same(c)
      BY <1>0, <2>1, <2>4, <2>6 DEF Same, LiveItem
    <3>2. Ahead(pc[k], mem[k], c)' = 0 /\ ~(HoldsOwn(k)' /\ c = mem'[k].cart)
      BY <2>2, <2>3, <2>6 DEF Ahead
    <3> QED  BY <1>0, <2>5, <3>1, <3>2, WorthSame DEF Mine, Same
  <2>7. CASE c = of
    <3>1. HoldsOwn(k) /\ c \in InHand(k)
      BY <1>0, <2>3, <2>7 DEF InHand, HoldsOwn, Adding
    <3> SUFFICES ASSUME Mine(k, c)
                 PROVE  Mine(k, c)'
      BY <3>1
    <3>2. KnowsOwn(pc[k], m) /\ p = price[m.product]
      BY <1>0, <2>3, <2>7, <3>1 DEF Mine, KnowsOwn
    <3>3. PICK w \in Int : w = Worth(c)
      BY WorthInt
    <3>4. PICK a \in Int, b \in Int :
             /\ a = Adds(ItemWorth, ItemsIn(c), i) /\ b = Adds(ItemWorth', ItemsIn(c)', i)
             /\ Worth(c)' = (w - a) + b
      BY <1>0, <2>4, <3>3, WorthChange
    <3>5. a = 0
      BY <2>1, <3>4 DEF Adds, ItemsIn, LiveItem
    <3>6. PICK qp \in Int : qp = q * p
      BY Distributes
    <3>7. b = qp
      <4>1. i \in ItemsIn(c)' /\ ItemWorth'[i] = q * p
        BY <1>0, <2>4, <2>7, <3>2 DEF ItemsIn, ItemWorth
      <4> QED  BY <3>4, <3>6, <4>1 DEF Adds
    <3>8. Ahead(pc[k], mem[k], c)' = -qp
      BY <2>2, <2>3, <2>7, <3>6 DEF Ahead
    <3>9. cart[c].total = w
      <4>1. cart[c].total = w + 0
        BY <1>0, <3>3 DEF Mine
      <4> QED  BY <4>1
    <3>10. cart'[c].total = Worth(c)' + Ahead(pc[k], mem[k], c)'
      <4>1. w = ((w - 0) + qp) + (-qp)
        OBVIOUS
      <4> QED  BY <1>0, <3>4, <3>5, <3>7, <3>8, <3>9, <4>1
    <3>11. KnowsOwn(pc[k], mem[k])'
      BY <1>0, <2>2, <3>2 DEF KnowsOwn
    <3> QED  BY <2>5, <3>10, <3>11 DEF Mine
  <2> QED  BY <2>6, <2>7
<1> QED  BY <1>1, <1>2

\* And agrees again when create has written it.
LEMMA InsertTotalMine ==
    ASSUME IInv, IInv', NEW k \in Call, NEW c \in Cart, LiveCart(c), InsertTotal(k)
    PROVE  /\ c \notin InHand(k) => Same(c)
           /\ Mine(k, c) => Mine(k, c)'
<1> DEFINE m == mem[k]
<1>0. /\ pc[k] = "insertTotal" /\ UNCHANGED <<item, price>>
      /\ Knows(pc[k], m) /\ m \in Memory /\ CartsType /\ m.op = "create"
  <2>1. pc[k] = "insertTotal" /\ UNCHANGED <<item, price>> /\ Knows(pc[k], m)
    BY ThisCall DEF InsertTotal, catalog
  <2> QED  BY <2>1, ThisCall DEF Knows, Adding
<1>1. pc'[k] \in Over
  BY Moved DEF InsertTotal, Over
<1>2. CASE c # m.cart
  <2>1. Same(c)
    BY <1>0, <1>2 DEF InsertTotal, SetTotal, Same, CartsType
  <2>2. Ahead(pc[k], mem[k], c) = 0 /\ Ahead(pc[k], mem[k], c)' = 0 /\ ~HoldsItem(k)' /\ ~HoldsOwn(k)'
    BY <1>0, <1>1, <1>2 DEF Ahead, Over, HoldsItem, HoldsOwn, Adding, Changing
  <2> QED  BY <2>1, <2>2, WorthSame DEF Mine, Same
<1>3. CASE c = m.cart
  <2>1. HoldsOwn(k) /\ c \in InHand(k)
    BY <1>0, <1>3 DEF InHand, HoldsOwn, Adding
  <2> SUFFICES ASSUME Mine(k, c)
               PROVE  Mine(k, c)'
    BY <2>1
  <2>2. PICK q \in Int, p \in Int, t \in Int : q = m.quantity /\ p = m.price /\ t = m.total
    <3>1. m.quantity \in Int /\ m.price \in Int /\ m.total \in Int
      BY <1>0 DEF Memory
    <3> HIDE DEF m
    <3> QED  BY <3>1
  <2>3. cart' = [cart EXCEPT ![c].total = t + q * p]
    BY <1>3, <2>2 DEF InsertTotal, SetTotal, CreateTotal
  <2>4. PICK qp \in Int : qp = q * p
    BY Distributes
  <2>5. cart'[c].total = t + qp
    BY <1>0, <2>3, <2>4 DEF CartsType
  <2>6. t = cart[c].total
    BY <1>0, <1>3, <2>1, <2>2 DEF Mine, KnowsOwn
  <2>7. PICK w \in Int : w = Worth(c) /\ w = Worth(c)'
    <3>1. ItemsIn(c)' = ItemsIn(c) /\ ItemWorth' = ItemWorth
      BY <1>0 DEF ItemsIn, ItemWorth, LiveItem
    <3> QED  BY <3>1, WorthInt DEF Worth
  <2>8. Ahead(pc[k], m, c) = -qp
    BY <1>0, <1>3, <2>2, <2>4 DEF Ahead
  <2>9. cart'[c].total = w
    <3>1. t = w + (-qp)
      BY <2>6, <2>7, <2>8 DEF Mine
    <3> QED  BY <2>5, <3>1
  <2>10. Ahead(pc[k], mem[k], c)' = 0 /\ ~HoldsItem(k)' /\ ~HoldsOwn(k)' /\ w + 0 = w
    BY <1>1 DEF Ahead, Over, HoldsItem, HoldsOwn, Adding, Changing
  <2> QED  BY <2>7, <2>9, <2>10 DEF Mine
<1> QED  BY <1>2, <1>3

\* A fault, but for one between the two writes.
LEMMA FaultMine ==
    ASSUME IInv, IInv', NEW k \in Call, NEW c \in Cart, c \notin Torn, Fault(k), Mine(k, c)
    PROVE  UNCHANGED <<cart, item>> /\ Mine(k, c)'
<1>1. UNCHANGED <<cart, item, price>> /\ pc'[k] = "failed"
  BY Moved DEF Fault, tables, catalog
<1>2. Ahead(pc[k], mem[k], c) = 0
  <2>1. CASE pc[k] \in {"writeItem", "insertTotal"}
    <3>1. c \notin InHand(k)
      BY <1>1, <2>1 DEF Torn
    <3> QED  BY <3>1, AheadInHand
  <2>2. CASE pc[k] \notin {"writeItem", "insertTotal"}
    BY <2>2 DEF Ahead
  <2> QED  BY <2>1, <2>2
<1> QED  BY <1>1, <1>2, EndMine DEF Over

\* A new cart is empty, its total is 0, and nobody else has it in hand.
LEMMA OpenDue ==
    ASSUME IInv, IInv', RowsKept, NEW k \in Call, Open(k), NEW c \in Cart, LiveCart(c)', c \notin Shared',
           LiveCart(c) => Due(c)
    PROVE  Due(c)'
<1> DEFINE m == mem[k]
           row == [state |-> "live", user |-> m.user, total |-> 0]
<1>0. /\ pc[k] = "open" /\ UNCHANGED <<item, price>> /\ m \in Memory /\ CartsType /\ ItemsType
      /\ price \in [Product -> Nat] /\ OthersStay(k)
  BY ThisCall, StepAlone DEF Open, catalog, Step
<1>1. PICK new \in Cart : cart[new].state = "unused" /\ cart' = [cart EXCEPT ![new] = row] /\ Found(k, new, 0)
  <2>1. Unused(cart) \subseteq Cart /\ Unused(cart) # {}
    BY <1>0 DEF Unused, CartsType, Open
  <2>2. Min(Unused(cart)) \in Unused(cart)
    BY <2>1, Rows, LeastRow
  <2> QED  BY <2>1, <2>2 DEF Open, Unused
<1>2. /\ cart'[new] = row /\ \A d \in Cart \ {new} : cart'[d] = cart[d]
  BY <1>0, <1>1 DEF CartsType
<1>3. cart'[new].total = 0
  BY <1>2
<1> HIDE DEF row
<1>4. /\ pc'[k] \in {"ok", "fetch"}
      /\ pc'[k] = "fetch" => mem'[k].cart = new /\ mem'[k].total = 0
  <2>1. CASE Goto(k, "ok")
    BY <2>1, Moved
  <2>2. CASE Continue(k, "fetch", [m EXCEPT !.cart = new, !.total = 0])
    <3>1. pc'[k] = "fetch" /\ mem'[k] = [m EXCEPT !.cart = new, !.total = 0]
      BY <2>2, Moved
    <3> QED  BY <1>0, <3>1 DEF Memory
  <2> QED  BY <1>1, <2>1, <2>2 DEF Found
<1>5. Ahead(pc[k], mem[k], c)' = 0 /\ ~HoldsItem(k)'
  BY <1>4 DEF Ahead, HoldsItem, Changing
<1>6. HoldsOwn(k)' /\ c = mem'[k].cart => c = new /\ KnowsOwn(pc[k], mem[k])'
  BY <1>3, <1>4 DEF HoldsOwn, KnowsOwn, Adding, Changing
<1>7. CASE c # new
  <2>1. LiveCart(c) /\ Same(c)
    BY <1>0, <1>2, <1>7 DEF LiveCart, Same
  <2>2. Ahead(pc[k], mem[k], c) = 0
    BY <1>0 DEF Ahead
  <2>3. Mine(k, c) => Mine(k, c)'
    BY <1>5, <1>6, <1>7, <2>1, <2>2, WorthSame DEF Mine, Same
  <2> QED  BY <1>0, <2>1, <2>3, HandStep
<1>8. CASE c = new
  <2>1. ASSUME NEW j \in Call, c \in InHand(j)
        PROVE  FALSE
    <3>1. Knows(pc[j], mem[j])
      BY ThisCall
    <3>2. HoldsOwn(j) => cart[mem[j].cart].state # "unused"
      BY <3>1 DEF HoldsOwn, Knows
    <3>3. HoldsItem(j) => cart[item[mem[j].item].cart].state # "unused"
      BY <3>1 DEF HoldsItem, Knows, IInv, ItemsAreInCarts
    <3> QED  BY <1>1, <1>8, <2>1, <3>2, <3>3 DEF InHand
  <2>2. \A j \in Call \ {k} : c \notin InHand(j)'
    BY <1>0, <2>1, HandStays DEF OthersStay
  <2>3. Worth(c)' = 0
    <3>1. ItemsIn(c)' = ItemsIn(c) /\ ItemWorth' = ItemWorth
      BY <1>0 DEF ItemsIn, ItemWorth, LiveItem
    <3>2. ItemsIn(c) = {}
      BY <1>1, <1>8 DEF IInv, ItemsAreInCarts, ItemsIn, LiveItem
    <3>3. Worth(c) = 0
      BY <1>0, <3>2, WorthNothing
    <3> QED  BY <3>1, <3>3 DEF Worth
  <2>4. Mine(k, c)'
    BY <1>3, <1>5, <1>6, <1>8, <2>3 DEF Mine
  <2> QED  BY <2>2, <2>4, DueMineNext
<1> QED  BY <1>7, <1>8

\* A step of a call leaves what it does to a cart that is not to blame due.
LEMMA CallDue ==
    ASSUME IInv, IInv', RowsKept, NEW k \in Call, Step(k) \/ Fault(k), NEW c \in Cart, LiveCart(c)',
           LiveCart(c) => Due(c), c \notin Shared', c \notin Mixed', c \notin Torn
    PROVE  Due(c)'
<1>1. CASE Open(k)
  BY <1>1, OpenDue
<1>2. CASE ~Open(k)
  <2>1. LiveCart(c)
    <3>1. \/ UNCHANGED cart
          \/ \E d, total : LiveCart(d) /\ SetTotal(d, total)
      BY <1>2 DEF Step, Fault, Find, Fetch, Lookup, LookupFindsNone, Read, Refetch, WriteTotal, WriteItem,
                  OwnTotal, Insert, InsertTotal, Refused, NotFound, tables
    <3>2. cart'[c].state = cart[c].state
      BY <3>1, ThisCall DEF SetTotal, CartsType
    <3> QED  BY <3>2 DEF LiveCart
  <2>2. OthersStay(k) /\ UNCHANGED price
    BY StepAlone
  <2>3. c \notin InHand(k) => Same(c)
    <3>1. Find(k) \/ Fetch(k) \/ Lookup(k) \/ LookupFindsNone(k) \/ Read(k) \/ Refetch(k) \/ Refused(k) \/ Fault(k)
          => UNCHANGED <<cart, item>>
      BY DEF Fault, Find, Fetch, Lookup, LookupFindsNone, Read, Refetch, Refused, NotFound, tables
    <3> QED  BY <1>2, <2>1, <2>2, <3>1, AllSame, WriteTotalMine, WriteItemMine, OwnTotalMine, InsertMine,
                InsertTotalMine DEF Step
  <2>4. Mine(k, c) => Mine(k, c)'
    BY <1>2, <2>1, ReadsMine, FaultMine, WriteTotalMine, WriteItemMine, OwnTotalMine, InsertMine,
       InsertTotalMine DEF Step
  <2> QED  BY <2>1, <2>2, <2>3, <2>4, HandStep
<1> QED  BY <1>1, <1>2

\* A call that begins has no cart in hand.
LEMMA BeginDue ==
    ASSUME IInv, IInv', RowsKept, NEW k \in Call, NEW place \in {"find", "read", "findTemp"}, NEW arguments,
           Begin(k, place, arguments), place # "read" \/ arguments.op # "create",
           NEW c \in Cart, Due(c), c \notin Shared'
    PROVE  Due(c)'
<1>1. /\ pc[k] = "idle" /\ Continue(k, place, arguments) /\ UNCHANGED <<cart, item, price, effects>>
  BY DEF Begin, Continue, tables, catalog
<1>2. pc'[k] = place /\ mem'[k] = arguments /\ OthersStay(k)
  BY <1>1, Moved DEF OthersStay
<1>3. Ahead(pc[k], mem[k], c) = 0 /\ Ahead(pc[k], mem[k], c)' = 0
  BY <1>1, <1>2 DEF Ahead
<1>4. ~HoldsItem(k)' /\ ~HoldsOwn(k)'
  BY <1>2 DEF HoldsItem, HoldsOwn, Adding, Changing
<1>5. Mine(k, c) => Mine(k, c)'
  BY <1>1, <1>3, <1>4, PlainMine
<1> QED  BY <1>1, <1>2, <1>5, AllSame, HandStep

\* Nor has a guest's.
LEMMA GuestDue ==
    ASSUME IInv, IInv', RowsKept, NEW k \in Call, NEW place \in {"openTemp", "ok", "insertTemp"}, NEW locals,
           Goto(k, place) \/ Continue(k, place, locals), UNCHANGED <<effects, cart, item, price>>,
           pc[k] \in {"findTemp", "openTemp", "insertTemp"}, NEW c \in Cart, Due(c), c \notin Shared'
    PROVE  Due(c)'
<1>1. pc'[k] = place /\ OthersStay(k)
  BY Moved DEF OthersStay
<1>2. Ahead(pc[k], mem[k], c) = 0
  BY DEF Ahead
<1>3. Mine(k, c) => Mine(k, c)'
  BY <1>1, <1>2, EndMine DEF Over
<1> QED  BY <1>1, <1>3, AllSame, HandStep

\* The other services leave a cart that is not to blame the same.
LEMMA ServicesDue ==
    ASSUME IInv, IInv', RowsKept, NEW c \in Cart, LiveCart(c)', Due(c), c \notin Repriced, c \notin Purged,
           \/ \E p \in Product : Reprice(p) \/ Withdraw(p) \/ RemoveForProduct(p)
           \/ \E d \in Cart : CheckOut(d)
    PROVE  Due(c)'
<1>1. ASSUME NEW p \in Product, Reprice(p)
      PROVE  Same(c) /\ UNCHANGED <<pc, mem>>
  <2>1. UNCHANGED <<pc, mem, cart, item>> /\ price' = [price EXCEPT ![p] = NewPrice[p]]
    BY <1>1 DEF Reprice, tables
  <2>2. \A q : q # p => price'[q] = price[q]
    BY <2>1, ThisCall DEF IInv, TypeOK
  <2>3. CASE price'[p] = price[p]
    <3>1. \A q : price'[q] = price[q]
      BY <2>2, <2>3
    <3> QED  BY <2>1, <3>1 DEF Same
  <2>4. CASE price'[p] # price[p]
    <3>1. \A i \in Item : LiveItem(i) /\ item[i].cart = c => item[i].product # p
      BY <2>4 DEF Repriced
    <3>2. \A k \in Call : c \in InHand(k) /\ pc[k] # "fetch" => mem[k].product # p
      BY <2>4 DEF Repriced
    <3> QED  BY <2>1, <2>2, <3>1, <3>2 DEF Same, LiveItem
  <2> QED  BY <2>1, <2>3, <2>4
<1>2. ASSUME NEW p \in Product, Withdraw(p)
      PROVE  Same(c) /\ UNCHANGED <<pc, mem>>
  BY <1>2, AllSame DEF Withdraw, tables
<1>3. ASSUME NEW p \in Product, RemoveForProduct(p)
      PROVE  Same(c) /\ UNCHANGED <<pc, mem>>
  <2>1. /\ UNCHANGED <<pc, mem, cart, price>>
        /\ item' = [i \in Item |-> IF LiveItem(i) /\ item[i].product = p
                                   THEN [item[i] EXCEPT !.state = "gone"] ELSE item[i]]
    BY <1>3 DEF RemoveForProduct, catalog
  <2>2. ASSUME NEW i \in Item, LiveItem(i), item[i].product = p
        PROVE  item'[i].state = "gone" /\ item'[i].cart = item[i].cart
    BY <2>1, <2>2, ThisCall DEF ItemsType
  <2>3. \A i \in Item : LiveItem(i) /\ item[i].product = p => item[i].cart # c
    BY <2>1, <2>2 DEF Purged
  <2>4. \A i \in Item : ~(LiveItem(i) /\ item[i].product = p) => item'[i] = item[i]
    BY <2>1
  <2> QED  BY <2>1, <2>2, <2>3, <2>4 DEF Same, LiveItem
<1>4. ASSUME NEW d \in Cart, CheckOut(d)
      PROVE  Same(c) /\ UNCHANGED <<pc, mem>>
  <2>1. /\ UNCHANGED <<pc, mem, price>> /\ cart' = [cart EXCEPT ![d].state = "gone"]
        /\ item' = [i \in Item |-> IF LiveItem(i) /\ item[i].cart = d
                                   THEN [item[i] EXCEPT !.state = "gone"] ELSE item[i]]
    BY <1>4 DEF CheckOut, catalog
  <2>2. c # d /\ cart'[c] = cart[c]
    <3>1. CartsType
      BY DEF IInv, TypeOK, CartsType
    <3>2. cart'[d].state = "gone" /\ \A e \in Cart \ {d} : cart'[e] = cart[e]
      BY <2>1, <3>1 DEF CartsType
    <3> QED  BY <3>2 DEF LiveCart
  <2>3. ASSUME NEW i \in Item, LiveItem(i), item[i].cart = d
        PROVE  item'[i].state = "gone"
    BY <2>1, <2>3, ThisCall DEF ItemsType
  <2>4. \A i \in Item : ~(LiveItem(i) /\ item[i].cart = d) => item'[i] = item[i]
    BY <2>1
  <2> QED  BY <2>1, <2>2, <2>3, <2>4 DEF Same, LiveItem
<1> QED  BY <1>1, <1>2, <1>3, <1>4, DueStays

\* Every step leaves the total of a cart that is not to blame as it is due.
LEMMA TotalsStep ==
    ASSUME IInv, IInv', TotalsAgree, InOneHand, [HistoryNext]_historyVars
    PROVE  TotalsAgree' /\ InOneHand'
<1>0. RowsKept
  BY RowsKeptStep DEF HistoryNext, historyVars
<1> SUFFICES ASSUME NEW c \in Cart, Clean(c)'
             PROVE  Due(c)'
  BY DEF TotalsAgree, InOneHand, Due, Mine, Clean
<1>1. CASE HistoryNext
  <2>1. /\ c \notin blamed /\ c \notin Shared' /\ c \notin Mixed' /\ c \notin Repriced /\ c \notin Purged
        /\ c \notin Torn /\ LiveCart(c)'
    BY <1>1 DEF HistoryNext, Clean
  <2>2. LiveCart(c) => Due(c)
    BY <2>1, DueIs DEF Clean
  <2>3. ASSUME NEW k \in Call, Step(k) \/ Fault(k)
        PROVE  Due(c)'
    BY <1>0, <2>1, <2>2, <2>3, CallDue
  <2>4. ASSUME UNCHANGED cart
        PROVE  Due(c)
    BY <2>1, <2>2, <2>4 DEF LiveCart
  <2>5. CASE UserNext
    <3>1. ASSUME NEW k \in Call, NEW place \in {"find", "read", "findTemp"}, NEW arguments,
                 Begin(k, place, arguments), place # "read" \/ arguments.op # "create"
          PROVE  Due(c)'
      <4>1. UNCHANGED cart
        BY <3>1 DEF Begin, tables
      <4> QED  BY <1>0, <2>1, <2>4, <3>1, <4>1, BeginDue
    <3>2. ASSUME \/ \E p \in Product : Reprice(p) \/ Withdraw(p) \/ RemoveForProduct(p)
                 \/ \E d \in Cart : CheckOut(d)
          PROVE  Due(c)'
      <4>1. LiveCart(c)
        <5>1. \/ UNCHANGED cart
              \/ \E d \in Cart : cart' = [cart EXCEPT ![d].state = "gone"]
          BY <3>2 DEF Reprice, Withdraw, RemoveForProduct, CheckOut, tables
        <5>2. CartsType
          BY DEF IInv, TypeOK, CartsType
        <5>3. ASSUME NEW d \in Cart, cart' = [cart EXCEPT ![d].state = "gone"]
              PROVE  cart'[d].state = "gone" /\ \A e \in Cart \ {d} : cart'[e] = cart[e]
          BY <5>2, <5>3 DEF CartsType
        <5> QED  BY <2>1, <5>1, <5>3 DEF LiveCart
      <4> QED  BY <1>0, <2>1, <2>2, <3>2, <4>1, ServicesDue
    <3> QED  BY <2>3, <2>5, <3>1, <3>2, UserCases
  <2>6. CASE GuestNext /\ UNCHANGED <<tables, catalog, spent>>
    <3>1. UNCHANGED <<cart, item, price>> /\ Due(c)
      BY <2>4, <2>6 DEF tables, catalog
    <3>2. CASE UNCHANGED <<pc, mem>>
      BY <1>0, <3>1, <3>2, AllSame, DueStays
    <3>3. ASSUME NEW k \in Call, NEW place \in {"openTemp", "ok", "insertTemp"}, NEW locals,
                 Goto(k, place) \/ Continue(k, place, locals),
                 pc[k] \in {"findTemp", "openTemp", "insertTemp"}
          PROVE  Due(c)'
      <4>1. UNCHANGED effects
        BY <2>6 DEF GuestNext, FindTemp, OpenTemp, InsertTemp, UpdateForGuest, DeleteForGuest
      <4> QED  BY <1>0, <2>1, <3>1, <3>3, <4>1, GuestDue
    <3> QED  BY <2>6, <3>2, <3>3, GuestCases
  <2> QED  BY <1>1, <2>5, <2>6 DEF HistoryNext, Next
<1>2. CASE UNCHANGED historyVars
  <2>1. UNCHANGED <<pc, mem, cart, item, price, blamed>>
    BY <1>2 DEF historyVars, vars, tables, catalog
  <2>2. Due(c)
    BY <2>1, DueIs DEF Clean, LiveCart
  <2> QED  BY <1>0, <2>1, <2>2, AllSame, DueStays
<1> QED  BY <1>1, <1>2

-----------------------------------------------------------------------------
(* The rows of a product.                                                  *)

\* A race is not forgotten.
LEMMA ContestedStays ==
    ASSUME raced \subseteq Product \X Call \X Call, raced \subseteq raced',
           \A j \in Call : effects[j] \subseteq effects'[j], NEW p, Contested(p)
    PROVE  Contested(p)'
<1>1. PICK r \in raced : r[1] = p /\ "inserted" \in effects[r[2]] \cap effects[r[3]]
  BY DEF Contested
<1>2. r[2] \in Call /\ r[3] \in Call
  OBVIOUS
<1> QED  BY <1>1, <1>2 DEF Contested

\* A call that has looked still knows the rows while there is none more, and
\* it comes to insert only when its row, or its cart, has gone.
LEMMA LooksStay ==
    ASSUME IInv, RowsKept, raced \subseteq Product \X Call \X Call, raced \subseteq raced',
           \A j \in Call : effects[j] \subseteq effects'[j], \A i \in Item : LiveItem(i)' => LiveItem(i),
           NEW j \in Call, KnowsRows(j),
           \A p : HasLooked(j, p)' => /\ HasLooked(j, p) /\ mem'[j].item = mem[j].item
                                      /\ mem'[j].cart = mem[j].cart
                                      /\ pc[j] = "insert" => pc'[j] = "insert"
                                      /\ pc'[j] = "insert" => \/ pc[j] = "insert" \/ ~LiveItem(mem[j].item)'
                                                             \/ ~LiveCart(mem[j].cart)'
    PROVE  KnowsRows(j)'
<1> SUFFICES ASSUME NEW i \in Item, LiveItem(i)', NEW p, p = item'[i].product, HasLooked(j, p)',
                    pc'[j] # "insert" => i # mem'[j].item,
                    pc'[j] = "insert" => mem'[j].cart \in Cart /\ cart'[mem'[j].cart].state = "live"
             PROVE  \/ Contested(p)'
                    \/ \E r \in raced' : r[1] = p /\ r[3] = j /\ "inserted" \in effects'[r[2]]
  BY DEF KnowsRows, LiveCart
<1>1. LiveItem(i) /\ item[i].product = p
  BY DEF LiveItem, RowsKept
<1>2. /\ HasLooked(j, p) /\ mem'[j].item = mem[j].item /\ mem'[j].cart = mem[j].cart
      /\ pc[j] = "insert" => pc'[j] = "insert"
      /\ pc'[j] = "insert" => \/ pc[j] = "insert"
                             \/ item'[mem[j].item].state # "live" \/ mem[j].item \notin Item
                             \/ cart'[mem[j].cart].state # "live" \/ mem[j].cart \notin Cart
  BY <1>1 DEF LiveItem, LiveCart
<1>3. pc[j] # "insert" => i # mem[j].item
  BY <1>2 DEF LiveItem
<1>4. pc[j] = "insert" => LiveCart(mem[j].cart)
  <2> SUFFICES ASSUME pc[j] = "insert" PROVE LiveCart(mem[j].cart)
    OBVIOUS
  <2>1. cart'[mem[j].cart].state = "live"
    BY <1>2
  <2>2. mem[j].cart \in Cart /\ cart[mem[j].cart].state # "unused"
    BY <1>2, ThisCall DEF HasLooked, Knows, Adding
  <2>3. cart[mem[j].cart].state # "gone"
    BY <2>1, <2>2 DEF RowsKept
  <2> QED  BY <2>2, <2>3, ThisCall DEF LiveCart, CartsType, RowState
<1>5. \/ Contested(p)
      \/ \E r \in raced : r[1] = p /\ r[3] = j /\ "inserted" \in effects[r[2]]
  BY <1>1, <1>2, <1>3, <1>4 DEF KnowsRows
<1>6. CASE Contested(p)
  BY <1>6, ContestedStays
<1>7. ASSUME NEW r \in raced, r[1] = p, r[3] = j, "inserted" \in effects[r[2]]
      PROVE  \E s \in raced' : s[1] = p /\ s[3] = j /\ "inserted" \in effects'[s[2]]
  <2>1. r[2] \in Call
    OBVIOUS
  <2> QED  BY <1>7, <2>1
<1> QED  BY <1>5, <1>6, <1>7

\* Without a new row there is no new pair of them.
LEMMA PairsStay ==
    ASSUME RowsKept, OneRowAnywhere, raced \subseteq Product \X Call \X Call, raced \subseteq raced',
           \A j \in Call : effects[j] \subseteq effects'[j], \A i \in Item : LiveItem(i)' => LiveItem(i)
    PROVE  OneRowAnywhere'
<1> SUFFICES ASSUME NEW i \in Item, NEW j \in Item, LiveItem(i)', LiveItem(j)', i # j,
                    NEW p, p = item'[i].product, p = item'[j].product
             PROVE  Contested(p)'
  BY DEF OneRowAnywhere
<1>1. LiveItem(i) /\ LiveItem(j) /\ item[i].product = p /\ item[j].product = p
  BY DEF LiveItem, RowsKept
<1>2. Contested(p)
  BY <1>1 DEF OneRowAnywhere
<1> QED  BY <1>2, ContestedStays

\* Where a call has looked and what it keeps of it, when it goes on.
LEMMA LooksOn ==
    ASSUME IInv, RowsKept, NEW k \in Call, Step(k) \/ Fault(k), ~Lookup(k), ~LookupFindsNone(k),
           NEW p, HasLooked(k, p)'
    PROVE  /\ HasLooked(k, p) /\ mem'[k].item = mem[k].item /\ mem'[k].cart = mem[k].cart
           /\ pc[k] # "insert"
           /\ pc'[k] = "insert" => ~LiveItem(mem[k].item)' \/ ~LiveCart(mem[k].cart)'
<1> DEFINE m == mem[k]
<1>0. Knows(pc[k], m) /\ m \in Memory
  BY ThisCall
<1>00. pc'[k] \in Changing \cup {"ownTotal", "insert"} /\ mem'[k].op = "create" /\ mem'[k].product = p
  BY DEF HasLooked
<1>1. ASSUME UNCHANGED item, mem'[k] = m, ~LiveItem(m.item)
      PROVE  ~LiveItem(mem[k].item)'
  BY <1>1 DEF LiveItem
<1>2. ASSUME NotFound(k), pc[k] \in Changing \cup {"ownTotal"}
      PROVE  HasLooked(k, p) /\ mem'[k] = m /\ UNCHANGED <<cart, item>> /\ m.op = "create"
  <2>1. pc'[k] = IF m.op = "create" THEN "insert" ELSE "failed"
    BY <1>2, Moved DEF NotFound
  <2>2. m.op = "create" /\ mem'[k] = m
    BY <1>00, <1>2, <2>1, Moved DEF NotFound, Over, Changing
  <2> QED  BY <1>00, <1>2, <2>2 DEF HasLooked, NotFound, tables
<1>3. CASE Read(k) /\ LiveItem(m.item)
  <2> DEFINE locals == [m EXCEPT !.product = item[m.item].product,
                                 !.itemCart = item[m.item].cart,
                                 !.itemTotal = cart[item[m.item].cart].total,
                                 !.oldQuantity = item[m.item].quantity]
  <2>1. pc[k] = "read" /\ Continue(k, "refetch", locals)
    BY <1>3 DEF Read
  <2>2. locals.product = item[m.item].product /\ locals.item = m.item /\ locals.cart = m.cart /\ locals.op = m.op
    BY <1>0 DEF Memory
  <2> HIDE DEF locals
  <2>3. pc'[k] = "refetch" /\ mem'[k] = locals
    BY <2>1, Moved
  <2> QED  BY <1>0, <1>00, <2>1, <2>2, <2>3 DEF HasLooked, Knows, Changing
<1>4. CASE Read(k) /\ ~LiveItem(m.item)
  <2>1. NotFound(k) /\ pc[k] = "read"
    BY <1>4 DEF Read
  <2> QED  BY <1>1, <1>2, <1>4, <2>1 DEF Changing
<1>5. CASE Refetch(k)
  <2> DEFINE locals == [m EXCEPT !.itemPrice = price[m.product]]
  <2>1. pc[k] = "refetch" /\ Continue(k, "writeTotal", locals)
    BY <1>5 DEF Refetch
  <2>2. locals.product = m.product /\ locals.item = m.item /\ locals.cart = m.cart /\ locals.op = m.op
    BY <1>0 DEF Memory
  <2> HIDE DEF locals
  <2>3. pc'[k] = "writeTotal" /\ mem'[k] = locals
    BY <2>1, Moved
  <2> QED  BY <1>00, <2>1, <2>2, <2>3 DEF HasLooked, Changing
<1>6. ASSUME NEW place \in {"writeItem", "ownTotal", "ok"}, Goto(k, place), pc[k] \in {"writeTotal", "writeItem"}
      PROVE  /\ HasLooked(k, p) /\ mem'[k].item = mem[k].item /\ mem'[k].cart = mem[k].cart
             /\ pc[k] # "insert" /\ pc'[k] # "insert"
  <2>1. pc'[k] = place /\ place # "ok" /\ mem'[k] = m
    BY <1>00, <1>6, Moved DEF Over, Changing
  <2> QED  BY <1>00, <1>6, <2>1 DEF HasLooked, Changing
<1>7. CASE WriteTotal(k)
  <2>1. pc[k] = "writeTotal" /\ (Goto(k, "writeItem") \/ (NotFound(k) /\ ~LiveCart(m.itemCart)))
    BY <1>7 DEF WriteTotal
  <2>2. ASSUME NotFound(k), ~LiveCart(m.itemCart)
        PROVE  ~LiveItem(m.item) /\ pc[k] \in Changing \cup {"ownTotal"}
    BY <1>0, <2>1, <2>2 DEF Knows, Changing, IInv, ItemsAreInCarts
  <2> QED  BY <1>1, <1>2, <1>6, <2>1, <2>2 DEF Changing
<1>8. CASE WriteItem(k)
  <2>1. /\ pc[k] = "writeItem"
        /\ \/ Goto(k, "ownTotal") \/ Goto(k, "ok")
           \/ NotFound(k) /\ ~LiveItem(m.item)
    BY <1>8 DEF WriteItem
  <2> QED  BY <1>1, <1>2, <1>6, <2>1 DEF Changing
<1>9. CASE OwnTotal(k)
  <2>1. pc[k] = "ownTotal" /\ (Goto(k, "ok") \/ (NotFound(k) /\ ~LiveCart(m.cart)))
    BY <1>9 DEF OwnTotal
  <2>2. CASE Goto(k, "ok")
    BY <1>00, <2>2, Moved DEF Changing
  <2>3. CASE NotFound(k) /\ ~LiveCart(m.cart)
    <3>1. ~LiveCart(m.cart)'
      BY <1>2, <2>1, <2>3 DEF LiveCart
    <3> QED  BY <1>2, <2>1, <2>3, <3>1
  <2> QED  BY <2>1, <2>2, <2>3
<1>10. CASE Find(k) \/ Open(k)
  <2>1. \E place \in {"open", "ok", "fetch"} : \E locals : Goto(k, place) \/ Continue(k, place, locals)
    BY <1>10 DEF Find, Open, Found
  <2>2. pc'[k] \in {"open", "ok", "fetch"}
    BY <2>1, Moved
  <2> QED  BY <1>00, <2>2 DEF Changing
<1>11. CASE Fetch(k) \/ Insert(k) \/ InsertTotal(k) \/ Refused(k) \/ Fault(k)
  <2>1. \E place \in {"lookup", "insertTotal", "ok", "failed"} : \E locals :
           Goto(k, place) \/ Continue(k, place, locals)
    BY <1>11 DEF Fetch, Insert, InsertTotal, Refused, Fault
  <2>2. pc'[k] \in {"lookup", "insertTotal", "ok", "failed"}
    BY <2>1, Moved
  <2> QED  BY <1>00, <2>2 DEF Changing
<1> QED  BY <1>3, <1>4, <1>5, <1>7, <1>8, <1>9, <1>10, <1>11 DEF Step

\* A step that inserts no row.
LEMMA NoNewRows ==
    ASSUME IInv, NEW k \in Call, Step(k) \/ Fault(k), ~(Insert(k) /\ LiveCart(mem[k].cart))
    PROVE  \A i \in Item : LiveItem(i)' => LiveItem(i)
<1>1. CASE WriteItem(k)
  BY <1>1, ThisCall DEF WriteItem, NotFound, tables, ItemsType, LiveItem
<1>2. CASE UNCHANGED item
  BY <1>2 DEF LiveItem
<1> QED  BY <1>1, <1>2 DEF Step, Fault, Find, Open, Fetch, Lookup, LookupFindsNone, Read, Refetch, WriteTotal,
                           OwnTotal, Insert, InsertTotal, Refused, NotFound, tables

\* A step of a call that inserts no row.
LEMMA RowsCall ==
    ASSUME IInv, RowsKept, NEW k \in Call, Step(k) \/ Fault(k), ~(Insert(k) /\ LiveCart(mem[k].cart)),
           OneRowAnywhere, \A j \in Call : KnowsRows(j),
           raced \subseteq Product \X Call \X Call, raced \subseteq raced'
    PROVE  OneRowAnywhere' /\ \A j \in Call : KnowsRows(j)'
<1>1. /\ OthersStay(k) /\ \A j \in Call : effects[j] \subseteq effects'[j]
      /\ \A i \in Item : LiveItem(i)' => LiveItem(i)
  BY StepAlone, NoNewRows
<1>2. OneRowAnywhere'
  BY <1>1, PairsStay
<1>3. ASSUME NEW j \in Call \ {k}
      PROVE  KnowsRows(j)'
  <2>1. \A p : HasLooked(j, p)' => HasLooked(j, p)
    BY <1>1 DEF HasLooked, OthersStay
  <2> QED  BY <1>1, <2>1, LooksStay DEF OthersStay
<1>4. CASE ~Lookup(k) /\ ~LookupFindsNone(k)
  <2>1. KnowsRows(k)'
    BY <1>1, <1>4, LooksOn, LooksStay
  <2> QED  BY <1>2, <1>3, <2>1
<1>5. CASE LookupFindsNone(k)
  <2>1. /\ \A i \in Item : LiveItem(i) => item[i].product # mem[k].product
        /\ NotFound(k) /\ UNCHANGED item /\ mem[k].op = "create"
    BY <1>5, ThisCall DEF LookupFindsNone, Carrying, NotFound, tables, Knows, Adding
  <2>2. mem'[k] = mem[k]
    BY <2>1, Moved DEF NotFound, Over
  <2>3. KnowsRows(k)'
    BY <2>1, <2>2 DEF KnowsRows, HasLooked, LiveItem
  <2> QED  BY <1>2, <1>3, <2>3
<1>6. CASE Lookup(k)
  <2>1. PICK l \in Carrying(mem[k].user, mem[k].product) :
           Continue(k, "read", [mem[k] EXCEPT !.item = l, !.newQuantity = item[l].quantity + mem[k].quantity])
    BY <1>6 DEF Lookup
  <2>2. /\ pc'[k] = "read" /\ UNCHANGED item /\ LiveItem(l) /\ item[l].product = mem[k].product
        /\ mem'[k] = [mem[k] EXCEPT !.item = l, !.newQuantity = item[l].quantity + mem[k].quantity]
    BY <1>6, <2>1, Moved DEF Lookup, Carrying, tables
  <2>3. mem'[k].item = l /\ mem'[k].product = mem[k].product
    BY <2>2, ThisCall DEF Memory
  <2>4. ASSUME NEW i \in Item, LiveItem(i), NEW p, p = item[i].product, p = mem[k].product, i # l
        PROVE  Contested(p)'
    <3>1. Contested(p)
      BY <2>2, <2>4 DEF OneRowAnywhere, LiveItem
    <3> QED  BY <1>1, <3>1, ContestedStays
  <2>5. KnowsRows(k)'
    BY <2>2, <2>3, <2>4 DEF KnowsRows, HasLooked, LiveItem
  <2> QED  BY <1>2, <1>3, <2>5
<1> QED  BY <1>4, <1>5, <1>6

\* A row is inserted: those that have looked are noted.
LEMMA RowsInsert ==
    ASSUME IInv, RowsKept, NEW k \in Call, Insert(k), LiveCart(mem[k].cart),
           OneRowAnywhere, \A j \in Call : KnowsRows(j), raced \subseteq Product \X Call \X Call,
           raced' = raced \cup Racing
    PROVE  OneRowAnywhere' /\ \A j \in Call : KnowsRows(j)'
<1> DEFINE m == mem[k]
<1>1. PICK n \in Item :
         /\ item[n].state = "unused"
         /\ item' = [item EXCEPT ![n] = [state |-> "live", cart |-> m.cart,
                                         product |-> m.product, quantity |-> m.quantity]]
  <2>1. Unused(item) \subseteq Item /\ Unused(item) # {}
    BY ThisCall DEF Unused, ItemsType, Insert
  <2>2. Min(Unused(item)) \in Unused(item)
    BY <2>1, Rows, LeastRow
  <2> QED  BY <2>1, <2>2 DEF Insert, Unused
<1>2. /\ \A i \in Item \ {n} : item'[i] = item[i]
      /\ item'[n].product = m.product
  BY <1>1, ThisCall DEF ItemsType
<1>3. /\ pc[k] = "insert" /\ pc'[k] = "insertTotal" /\ "inserted" \in effects'[k] /\ UNCHANGED cart
      /\ m.op = "create" /\ m.product \in Product
  BY Moved, ThisCall DEF Insert, IInv, TypeOK, Knows, Adding, Memory
<1>4. OthersStay(k) /\ (\A j \in Call : effects[j] \subseteq effects'[j]) /\ raced \subseteq raced'
  BY StepAlone DEF Step
<1>5. ASSUME NEW i \in Item \ {n}, LiveItem(i), item[i].product = m.product
      PROVE  \A p : p = m.product => Contested(p)'
  <2> SUFFICES ASSUME NEW p, p = m.product PROVE Contested(p)'
    OBVIOUS
  <2>1. HasLooked(k, p)
    BY <1>3 DEF HasLooked
  <2>2. Contested(p) \/ \E r \in raced : r[1] = p /\ r[3] = k /\ "inserted" \in effects[r[2]]
    BY <1>3, <1>5, <2>1 DEF KnowsRows
  <2>3. ASSUME NEW r \in raced, r[1] = p, r[3] = k, "inserted" \in effects[r[2]]
        PROVE  Contested(p)'
    <3>1. r[2] \in Call
      OBVIOUS
    <3> QED  BY <1>3, <1>4, <2>3, <3>1 DEF Contested
  <2> QED  BY <1>4, <2>2, <2>3, ContestedStays
<1>6. OneRowAnywhere'
  <2> SUFFICES ASSUME NEW i \in Item, NEW j \in Item, LiveItem(i)', LiveItem(j)', i # j,
                      NEW p, p = item'[i].product, p = item'[j].product
               PROVE  Contested(p)'
    BY DEF OneRowAnywhere
  <2>1. CASE i # n /\ j # n
    <3>1. Contested(p)
      BY <1>2, <2>1 DEF OneRowAnywhere, LiveItem
    <3> QED  BY <1>4, <3>1, ContestedStays
  <2>2. CASE i = n
    BY <1>2, <1>5, <2>2 DEF LiveItem
  <2>3. CASE j = n
    BY <1>2, <1>5, <2>3 DEF LiveItem
  <2> QED  BY <2>1, <2>2, <2>3
<1>7. ASSUME NEW j \in Call \ {k}
      PROVE  KnowsRows(j)'
  <2> SUFFICES ASSUME NEW i \in Item, LiveItem(i)', NEW p, p = item'[i].product, HasLooked(j, p)',
                      pc'[j] # "insert" => i # mem'[j].item,
                      pc'[j] = "insert" => mem'[j].cart \in Cart /\ cart'[mem'[j].cart].state = "live"
               PROVE  \/ Contested(p)'
                      \/ \E r \in raced' : r[1] = p /\ r[3] = j /\ "inserted" \in effects'[r[2]]
    BY DEF KnowsRows, LiveCart
  <2>1. /\ HasLooked(j, p) /\ (pc[j] # "insert" => i # mem[j].item)
        /\ pc[j] = "insert" => LiveCart(mem[j].cart)
    BY <1>3, <1>4 DEF HasLooked, OthersStay, LiveCart
  <2>2. CASE i = n
    <3>1. <<p, k, j>> \in Racing
      BY <1>2, <1>3, <2>1, <2>2 DEF Racing
    <3> QED  BY <1>3, <3>1
  <2>3. CASE i # n
    <3>1. Contested(p) \/ \E r \in raced : r[1] = p /\ r[3] = j /\ "inserted" \in effects[r[2]]
      BY <1>2, <2>1, <2>3 DEF KnowsRows, LiveItem
    <3>2. ASSUME NEW r \in raced, r[1] = p, r[3] = j, "inserted" \in effects[r[2]]
          PROVE  \E s \in raced' : s[1] = p /\ s[3] = j /\ "inserted" \in effects'[s[2]]
      <4>1. r[2] \in Call
        OBVIOUS
      <4> QED  BY <1>4, <3>2, <4>1
    <3> QED  BY <1>4, <3>1, <3>2, ContestedStays
  <2> QED  BY <2>2, <2>3
<1>8. KnowsRows(k)'
  BY <1>3 DEF KnowsRows, HasLooked, Changing
<1> QED  BY <1>6, <1>7, <1>8

\* Every step leaves the rows of a product explained.
LEMMA RowsStep ==
    ASSUME IInv, OneRowAnywhere, \A j \in Call : KnowsRows(j), raced \subseteq Product \X Call \X Call,
           [HistoryNext]_historyVars
    PROVE  OneRowAnywhere' /\ \A j \in Call : KnowsRows(j)'
<1>0. RowsKept
  BY RowsKeptStep DEF HistoryNext, historyVars
<1>1. raced \subseteq raced'
  BY DEF HistoryNext, historyVars
<1>2. ASSUME NEW k \in Call, Step(k) \/ Fault(k), HistoryNext
      PROVE  OneRowAnywhere' /\ \A j \in Call : KnowsRows(j)'
  BY <1>0, <1>1, <1>2, RowsCall, RowsInsert DEF HistoryNext
<1>3. ASSUME UNCHANGED effects, \A i \in Item : LiveItem(i)' => LiveItem(i),
             \A j \in Call : \/ pc'[j] = pc[j] /\ mem'[j] = mem[j]
                             \/ pc'[j] \notin Changing \cup {"ownTotal", "insert"}
                             \/ mem'[j].op # "create"
      PROVE  OneRowAnywhere' /\ \A j \in Call : KnowsRows(j)'
  <2>1. \A j \in Call : effects[j] \subseteq effects'[j]
    BY <1>3
  <2>2. ASSUME NEW j \in Call
        PROVE  KnowsRows(j)'
    <3>1. \A p : HasLooked(j, p)' => HasLooked(j, p) /\ pc'[j] = pc[j] /\ mem'[j] = mem[j]
      BY <1>3 DEF HasLooked
    <3> QED  BY <1>0, <1>1, <1>3, <2>1, <3>1, LooksStay
  <2> QED  BY <1>0, <1>1, <1>3, <2>1, <2>2, PairsStay
<1>4. CASE UserNext /\ HistoryNext
  <2>1. ASSUME NEW k \in Call, NEW place \in {"find", "read", "findTemp"}, NEW arguments,
               Begin(k, place, arguments), place # "read" \/ arguments.op # "create"
        PROVE  OneRowAnywhere' /\ \A j \in Call : KnowsRows(j)'
    <3>1. Continue(k, place, arguments) /\ UNCHANGED <<effects, item>>
      BY <2>1 DEF Begin, Continue, tables
    <3>2. pc'[k] = place /\ mem'[k] = arguments /\ \A j \in Call \ {k} : pc'[j] = pc[j] /\ mem'[j] = mem[j]
      BY <3>1, Moved
    <3> QED  BY <1>3, <2>1, <3>1, <3>2 DEF LiveItem, Changing
  <2>2. ASSUME NEW p \in Product, Reprice(p) \/ Withdraw(p)
        PROVE  OneRowAnywhere' /\ \A j \in Call : KnowsRows(j)'
    BY <1>3, <2>2 DEF Reprice, Withdraw, tables, LiveItem
  <2>3. ASSUME NEW p \in Product, RemoveForProduct(p)
        PROVE  OneRowAnywhere' /\ \A j \in Call : KnowsRows(j)'
    <3>1. \A i \in Item : LiveItem(i)' => LiveItem(i)
      BY <2>3 DEF RemoveForProduct, LiveItem
    <3> QED  BY <1>3, <2>3, <3>1 DEF RemoveForProduct
  <2>4. ASSUME NEW c \in Cart, CheckOut(c)
        PROVE  OneRowAnywhere' /\ \A j \in Call : KnowsRows(j)'
    <3>1. \A i \in Item : LiveItem(i)' => LiveItem(i)
      BY <2>4 DEF CheckOut, LiveItem
    <3> QED  BY <1>3, <2>4, <3>1 DEF CheckOut
  <2> QED  BY <1>2, <1>4, <2>1, <2>2, <2>3, <2>4, UserCases
<1>5. CASE GuestNext /\ UNCHANGED <<tables, catalog, spent>>
  <2>1. UNCHANGED <<effects, item>>
    BY <1>5 DEF tables, GuestNext, FindTemp, OpenTemp, InsertTemp, UpdateForGuest, DeleteForGuest
  <2>2. CASE UNCHANGED <<pc, mem>>
    BY <1>3, <2>1, <2>2 DEF LiveItem
  <2>3. ASSUME NEW k \in Call, NEW place \in {"openTemp", "ok", "insertTemp"}, NEW locals,
               Goto(k, place) \/ Continue(k, place, locals),
               pc[k] \in {"findTemp", "openTemp", "insertTemp"}
        PROVE  OneRowAnywhere' /\ \A j \in Call : KnowsRows(j)'
    <3>1. pc'[k] = place /\ \A j \in Call \ {k} : pc'[j] = pc[j] /\ mem'[j] = mem[j]
      BY <2>3, Moved
    <3> QED  BY <1>3, <2>1, <2>3, <3>1 DEF LiveItem, Changing
  <2> QED  BY <1>5, <2>2, <2>3, GuestCases
<1>6. CASE UNCHANGED historyVars
  BY <1>3, <1>6 DEF historyVars, vars, tables, LiveItem
<1> QED  BY <1>4, <1>5, <1>6 DEF HistoryNext, Next

-----------------------------------------------------------------------------
(* Theorems about the totals and the rows.                                 *)

\* At first nothing is in hand and no row is there.
LEMMA HistoryBegins ==
    ASSUME HistoryInit
    PROVE  IInv /\ HistoryInv
<1>1. IInv
  BY InitInvariant DEF HistoryInit
<1>2. \A c : ~LiveCart(c)
  BY DEF HistoryInit, Init, LiveCart
<1>3. \A i : ~LiveItem(i)
  BY DEF HistoryInit, Init, LiveItem
<1>4. TotalsAgree /\ InOneHand
  BY <1>2 DEF TotalsAgree, InOneHand, Clean
<1>5. OneRowAnywhere /\ \A k \in Call : KnowsRows(k)
  BY <1>3 DEF OneRowAnywhere, KnowsRows
<1> QED  BY <1>1, <1>4, <1>5 DEF HistoryInv, HistoryInit

\* Both invariants hold of every step of the carts with their history.
LEMMA HistoryStep ==
    ASSUME IInv, HistoryInv, [HistoryNext]_historyVars
    PROVE  IInv' /\ HistoryInv'
<1>1. IInv'
  BY UserStep, GuestsStep, NoStep DEF HistoryNext, historyVars, Next
<1>2. TotalsAgree' /\ InOneHand'
  BY <1>1, TotalsStep DEF HistoryInv
<1>3. OneRowAnywhere' /\ \A k \in Call : KnowsRows(k)'
  BY RowsStep DEF HistoryInv
<1>4. blamed' \subseteq Cart /\ raced' \subseteq Product \X Call \X Call
  BY DEF HistoryInv, HistoryNext, historyVars, Shared, Mixed, Repriced, Purged, Torn, Racing
<1> QED  BY <1>1, <1>2, <1>3, <1>4 DEF HistoryInv

\* Whatever calls are under way: a cart that is not to blame is in one hand
\* at most, which knows its total and the row it is to write, and a create
\* that has looked knows the rows of its product or raced who inserted them.
THEOREM HistoryInvariance == HistorySpec => []HistoryInv
<1>1. IInv /\ HistoryInv /\ [HistoryNext]_historyVars => IInv' /\ HistoryInv'
  BY HistoryStep
<1> QED  BY <1>1, HistoryBegins, PTL DEF HistorySpec

\* The total of a cart is what its items cost, unless one of the five things
\* happened to it that CartHistory lists: two calls had it in hand at once, a
\* create raised another cart's row, a new price, purged rows, or a call that
\* failed between its two writes.
THEOREM TotalsHold == HistorySpec => []TotalsAgree
<1>1. HistoryInv => TotalsAgree
  BY DEF HistoryInv
<1> QED  BY <1>1, HistoryInvariance, PTL

\* A cart lists a product twice only when two creates of it raced, whatever
\* else fails, is removed or is checked out meanwhile.
THEOREM ListedOnce == HistorySpec => []OneRowPerProduct
<1>1. HistoryInv => OneRowPerProduct
  BY DEF HistoryInv, OneRowAnywhere, OneRowPerProduct
<1> QED  BY <1>1, HistoryInvariance, PTL

=============================================================================
