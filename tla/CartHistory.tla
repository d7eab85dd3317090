----------------------------- MODULE CartHistory -----------------------------
(***************************************************************************)
(* What the rows and totals of CartItems are worth, with two variables of  *)
(* history on top of its unchanged steps.  Nothing keeps the calls of the  *)
(* cart service apart, so a total may be wrong and a product may have two  *)
(* rows: blamed has the carts to which something happened that makes the   *)
(* total wrong, raced the creates that looked for a row at the same time.  *)
(* Everything else is excluded, whoever else is under way.                 *)
(***************************************************************************)
EXTENDS CartItems

VARIABLES
    blamed,   \* carts whose total may be wrong
    raced     \* product, a create that inserted, and one that had looked before

historyVars == <<vars, blamed, raced>>

-----------------------------------------------------------------------------
(* Carts in hand.                                                          *)

\* update and delete hold the cart of their item once they have read it, as
\* does create of the row it found.
HoldsItem(k) == pc[k] \in Changing /\ (pc[k] # "read" \/ mem[k].op = "create")

\* create also holds the cart it began with, whose total it writes at last.
HoldsOwn(k) == mem[k].op = "create" /\ pc[k] \in Adding \cup Changing

\* The carts of which a call has read a total or a quantity that it is still
\* to make use of.
InHand(k) == {c \in Cart : \/ HoldsOwn(k) /\ c = mem[k].cart
                           \/ HoldsItem(k) /\ c = item[mem[k].item].cart}

-----------------------------------------------------------------------------
(* What makes a total wrong.                                               *)

\* Two calls have the cart in hand: the later one overwrites.
Shared == {c \in Cart : \E j, k \in Call : j # k /\ c \in InHand(j) \cap InHand(k)}

\* create is to add the price to its own cart and has raised another's row.
Mixed == {c \in Cart : \E k \in Call : /\ pc[k] = "ownTotal" /\ c = mem[k].cart
                                       /\ item[mem[k].item].cart # c}

\* A product that is in the cart, or of which a call has the price for it,
\* costs something else from now on.
Repriced ==
    {c \in Cart : \E p \in Product :
        /\ price'[p] # price[p]
        /\ \/ \E i \in Item : LiveItem(i) /\ item[i].cart = c /\ item[i].product = p
           \/ \E k \in Call : c \in InHand(k) /\ pc[k] # "fetch" /\ mem[k].product = p}

\* Rows go and no call has taken them out: REMOVE_CART_ITEM lowers no total.
Purged == {c \in Cart : /\ pc' = pc
                        /\ \E i \in Item : LiveItem(i) /\ item[i].cart = c /\ item'[i].state = "gone"}

\* A call fails between the total it has written and the row, or the other
\* way round.
Torn == {c \in Cart : \E k \in Call : /\ pc[k] \in {"writeItem", "insertTotal"} /\ pc'[k] = "failed"
                                      /\ c \in InHand(k)}

-----------------------------------------------------------------------------
(* Who raced.                                                              *)

\* create has looked for a row with the product, and not yet answered.
HasLooked(k, p) == /\ mem[k].op = "create" /\ mem[k].product = p
                   /\ pc[k] \in Changing \cup {"ownTotal", "insert"}

\* A row is inserted while another create has looked: that one does not know
\* of the row.
Racing == {r \in Product \X Call \X Call :
              /\ pc[r[2]] = "insert" /\ pc'[r[2]] = "insertTotal" /\ mem[r[2]].product = r[1]
              /\ r[3] # r[2] /\ HasLooked(r[3], r[1])}

HistoryInit == Init /\ blamed = {} /\ raced = {}

HistoryNext ==
    /\ Next
    /\ blamed' = blamed \cup Shared' \cup Mixed' \cup Repriced \cup Purged \cup Torn
    /\ raced' = raced \cup Racing

HistorySpec == HistoryInit /\ [][HistoryNext]_historyVars

-----------------------------------------------------------------------------
(* Properties.                                                             *)

ItemsIn(c) == {i \in Item : LiveItem(i) /\ item[i].cart = c}
ItemWorth == [i \in Item |-> item[i].quantity * price[item[i].product]]
Worth(c) == SumFunctionOnSet(ItemWorth, ItemsIn(c))

\* "Real-time cart total calculation querying current product pricing": the
\* total of a cart that no call has in hand is what its items cost, unless
\* two calls ever had it in hand at once, a create raised another cart's row,
\* a product in it was repriced, rows were purged by REMOVE_CART_ITEM, or a
\* call failed between its two writes.
TotalsAgree ==
    \A c \in Cart : LiveCart(c) /\ c \notin blamed /\ (\A k \in Call : c \notin InHand(k))
        => cart[c].total = Worth(c)

\* Two creates of the product have inserted a row, of which one had looked
\* for it before the other's was there.
Contested(p) == \E r \in raced : r[1] = p /\ "inserted" \in effects[r[2]] \cap effects[r[3]]

\* The lookup by product makes create raise the quantity of a product that is
\* already in the cart: it is listed twice only when two creates raced.
OneRowPerProduct ==
    \A i, j \in Item : LiveItem(i) /\ LiveItem(j) /\ i # j
        /\ item[i].cart = item[j].cart /\ item[i].product = item[j].product
        => Contested(item[i].product)

-----------------------------------------------------------------------------
(* The inductive invariant.                                                *)

Clean(c) == LiveCart(c) /\ c \notin blamed

\* What a call that writes a total before the row, or a row before the total,
\* has put the cart's total ahead of its items.
Ahead(place, m, c) ==
    IF place = "writeItem" /\ m.itemCart = c
    THEN ((IF m.op = "delete" THEN 0 ELSE m.newQuantity) - m.oldQuantity) * m.itemPrice
    ELSE IF place = "insertTotal" /\ m.cart = c THEN -(m.quantity * m.price)
    ELSE 0

\* What a call with the locals m knows of the cart of its item.
KnowsItem(place, m) ==
    /\ LiveItem(m.item)
    /\ m.op = "create" => m.newQuantity = item[m.item].quantity + m.quantity
    /\ place # "read" => m.oldQuantity = item[m.item].quantity
    /\ place \in {"refetch", "writeTotal"} => m.itemTotal = cart[m.itemCart].total
    /\ place \in {"writeTotal", "writeItem"} => m.itemPrice = price[m.product]

\* And of the cart it began with, whose total is behind or has been written.
KnowsOwn(place, m) ==
    /\ place # "fetch" => m.price = price[m.product]
    /\ cart[m.cart].total =
          IF place = "ownTotal" \/ (place = "writeItem" /\ m.itemCart = m.cart)
          THEN m.total + m.quantity * m.price ELSE m.total

\* A cart that is not to blame is in one hand at most, which has it as it is.
InOneHand ==
    \A c \in Cart : Clean(c) =>
       \A k \in Call : c \in InHand(k) =>
          /\ \A j \in Call \ {k} : c \notin InHand(j)
          /\ cart[c].total = Worth(c) + Ahead(pc[k], mem[k], c)
          /\ HoldsItem(k) /\ c = item[mem[k].item].cart => KnowsItem(pc[k], mem[k])
          /\ HoldsOwn(k) /\ c = mem[k].cart => KnowsOwn(pc[k], mem[k])

\* A product has two rows, in one cart or in two, only after a race.
OneRowAnywhere ==
    \A i, j \in Item : LiveItem(i) /\ LiveItem(j) /\ i # j /\ item[i].product = item[j].product
        => Contested(item[i].product)

\* A create that has looked knows the rows of its product, but for those of
\* whom it raced.
KnowsRows(k) ==
    \A i \in Item :
       /\ LiveItem(i) /\ HasLooked(k, item[i].product)
       /\ pc[k] # "insert" => i # mem[k].item
       /\ pc[k] = "insert" => LiveCart(mem[k].cart)
       => \/ Contested(item[i].product)
          \/ \E r \in raced : r[1] = item[i].product /\ r[3] = k /\ "inserted" \in effects[r[2]]

HistoryInv ==
    /\ blamed \subseteq Cart
    /\ raced \subseteq Product \X Call \X Call
    /\ TotalsAgree /\ InOneHand
    /\ OneRowAnywhere /\ \A k \in Call : KnowsRows(k)

=============================================================================
