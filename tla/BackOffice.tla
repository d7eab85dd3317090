----------------------------- MODULE BackOffice -----------------------------
(***************************************************************************)
(* The administrators' dashboard (apps/mvc) over the tables of the product *)
(* and order services.  A page is rendered from several requests, one      *)
(* after the other; the form in it is submitted much later, with all its   *)
(* fields, by the browser.  In between other administrators submit theirs, *)
(* rows are removed and deleted, customers pay.                            *)
(*                                                                         *)
(* A row is reduced to its state and to the rows it refers to: names,      *)
(* texts, prices and images are left out.  The tables product, author,     *)
(* product_category and promotion are one function from ids to rows.       *)
(***************************************************************************)
EXTENDS Integers, Sequences, FiniteSets

CONSTANTS
    Product, Author, Category, Promotion,
    Stocked,         \* rows that are there at first; any others may be
    Order, Status,   \* orders and what ORDER_STATUS a form offers
    None,            \* NULL
    Tab,             \* browser tabs of administrators
    MaxPages,        \* pages ever opened
    MaxChanges       \* steps outside of forms, and failing requests

Id == Product \cup Author \cup Category \cup Promotion
Field == {"author", "category", "promotion", "parent"}

ASSUME TablesAssumption ==
    /\ None \notin Id
    /\ Stocked \subseteq Id
    /\ Product \cap (Author \cup Category \cup Promotion) = {}
    /\ Category \cap (Author \cup Promotion) = {}
    /\ Author \cap Promotion = {}
ASSUME RowsAssumption == IsFiniteSet(Category) /\ Status # {}
ASSUME PageBounds == MaxPages \in Nat /\ MaxChanges \in Nat

VARIABLES
    row,       \* the four tables of the product service
    order,     \* the orders: what the forms show of them
    page,      \* what each tab shows or waits for
    opened,    \* pages opened so far
    changes    \* steps outside of forms so far

vars == <<row, order, page, opened, changes>>

\* Who may be referred to by a field, and which fields a table has.
Target(f) == CASE f = "author" -> Author [] f = "category" -> Category
               [] f = "promotion" -> Promotion [] f = "parent" -> Category
Fields(x) == CASE x \in Product -> {"author", "category", "promotion"}
               [] x \in Category -> {"parent"}
               [] OTHER -> {}

State == {"unused", "active", "inactive", "deleted"}
Refs == [Field -> Id \cup {None}]
NoRefs == [f \in Field |-> None]
NotShown == [f \in Field |-> "none"]   \* the request for the row had no data

Exists(x) == row[x].state \in {"active", "inactive"}

Form == {"product", "category", "order"}
Page == [form : Form, of : Id \cup Order \cup {None}, creates : BOOLEAN, todo : Seq(Field \cup {"row"}),
         shown : [Field -> Id \cup {None, "none"}], list : [Field -> SUBSET Id],
         payment : {"none", "PAID", "UNPAID"}, open : BOOLEAN]
NoPage == [form |-> "order", of |-> None, creates |-> FALSE, todo |-> << >>,
           shown |-> NotShown, list |-> [f \in Field |-> {}],
           payment |-> "none", open |-> FALSE]

\* A table's row refers to rows of the right table that are there.
Resolves(refs, x) ==
    \A f \in Field : refs[f] # None => f \in Fields(x) /\ refs[f] \in Target(f) /\ Exists(refs[f])

\* References to rows of the right tables among those present.
Proper(present) == {refs \in Refs : \A f \in Field : refs[f] \in {None} \cup (Target(f) \cap present)}

TypeOK ==
    /\ row \in [Id -> [state : State, refs : Refs]]
    /\ order \in [Order -> [state : {"live", "deleted"}, status : Status,
                            payment : {"PAID", "UNPAID"}]]
    /\ page \in [Tab -> Page]
    /\ \A t \in Tab :
          /\ \A f \in Field : page[t].list[f] \subseteq Target(f)
          /\ page[t].open /\ ~page[t].creates =>
                page[t].of \in (CASE page[t].form = "product" -> Product
                                  [] page[t].form = "category" -> Category
                                  [] page[t].form = "order" -> Order)
    /\ opened \in 0..MaxPages
    /\ changes \in 0..MaxChanges

-----------------------------------------------------------------------------
(* The storefront's list of products.                                      *)

\* The subcategories of a set, one level down: active or not.
Children(S) == {c \in Category : Exists(c) /\ row[c].refs["parent"] \in S}

\* The rows the recursive query has added after each round of UNION ALL.
Round(S) == LET round[n \in Nat] == IF n = 0 THEN {c \in S : Exists(c)}
                                    ELSE Children(round[n - 1])
            IN  round

\* The recursion stops when a round adds nothing: on a finite tree after as
\* many rounds as there are categories, or never.
Ends(S) == Round(S)[Cardinality(Category)] = {}

SubcategoryIds(S) == LET round == Round(S) IN UNION {round[n] : n \in 0..Cardinality(Category)}

Sort == {"ON_SALE", "PRICE", "POPULAR"}

\* As FindList, with a filter of which nothing is left taken for a filter.
FindListStrict(S, sort) ==
    LET subcategoryIds == SubcategoryIds(S) IN
    {p \in Product : /\ row[p].state = "active"
                     /\ sort # "POPULAR" /\ S # {} => row[p].refs["category"] \in subcategoryIds
                     /\ sort = "ON_SALE" => row[p].refs["promotion"] # None}

\* A filter whose categories are all unknown is no filter; POPULAR, which the
\* switch does not know, ignores every filter.
FindList(S, sort) ==
    LET subcategoryIds == SubcategoryIds(S) IN
    {p \in Product : /\ row[p].state = "active"
                     /\ sort # "POPULAR" /\ subcategoryIds # {}
                           => row[p].refs["category"] \in subcategoryIds
                     /\ sort = "ON_SALE" => row[p].refs["promotion"] # None}

\* A tree at first: whoever closes a cycle does so through a form.
Init ==
    /\ \E present \in {S \in SUBSET Id : Stocked \subseteq S} :
       \E refs \in [present \cap (Product \cup Category) -> Proper(present)] :
          row = [x \in Id |-> IF x \notin present THEN [state |-> "unused", refs |-> NoRefs]
                              ELSE [state |-> "active",
                                    refs |-> [f \in Field |-> IF f \in Fields(x) THEN refs[x][f]
                                                              ELSE None]]]
    /\ Ends(Category)
    /\ order = [o \in Order |-> [state |-> "live", status |-> CHOOSE s \in Status : TRUE,
                                 payment |-> "UNPAID"]]
    /\ page = [t \in Tab |-> NoPage]
    /\ opened = 0
    /\ changes = 0

-----------------------------------------------------------------------------
(* Opening a page.                                                         *)

ProductPage(p)   == [NoPage EXCEPT !.form = "product", !.of = p, !.open = TRUE,
                        !.todo = <<"row", "author", "category", "promotion">>]
NewProductPage   == [NoPage EXCEPT !.form = "product", !.creates = TRUE, !.open = TRUE,
                        !.shown = NoRefs, !.todo = <<"author", "category", "promotion">>]
CategoryPage(c)  == [NoPage EXCEPT !.form = "category", !.of = c, !.open = TRUE,
                        !.todo = <<"row", "parent">>]
NewCategoryPage  == [NoPage EXCEPT !.form = "category", !.creates = TRUE, !.open = TRUE,
                        !.shown = NoRefs, !.todo = <<"parent">>]
OrderPage(o)     == [NoPage EXCEPT !.form = "order", !.of = o, !.open = TRUE,
                        !.todo = <<"row">>]

Open(t, newPage) ==
    /\ opened < MaxPages
    /\ opened' = opened + 1
    /\ page' = [page EXCEPT ![t] = newPage]
    /\ UNCHANGED <<row, order, changes>>

\* What the lists show, or showed at any time before: what is removed or
\* deleted meanwhile keeps its address.
ListedProducts   == {p \in Product : row[p].state # "unused"}
ListedCategories == {c \in Category : row[c].state # "unused"}
ListedOrders     == Order

\* The addresses of edit pages come from lists.
OpenSome(t) ==
    \/ \E p \in ListedProducts : Open(t, ProductPage(p))
    \/ \E c \in ListedCategories : Open(t, CategoryPage(c))
    \/ \E o \in ListedOrders : Open(t, OrderPage(o))
    \/ Open(t, NewProductPage)
    \/ Open(t, NewCategoryPage)

Waits(t, what) == page[t].open /\ page[t].todo # << >> /\ Head(page[t].todo) = what

\* findOneById of the two services: active rows only.
FoundProduct(p)  == IF row[p].state = "active" THEN row[p].refs ELSE NotShown
FoundCategory(c) == IF row[c].state = "active" THEN row[c].refs ELSE NotShown

\* Without a row the page is rendered all the same.
FetchRow(t) ==
    /\ Waits(t, "row") /\ page[t].form # "order"
    /\ LET x == page[t].of IN
          page' = [page EXCEPT ![t].todo = Tail(@),
                     ![t].shown = IF x \in Product THEN FoundProduct(x) ELSE FoundCategory(x)]
    /\ UNCHANGED <<row, order, opened, changes>>

\* Without an order the form's script stops at order.status.
FetchOrder(t) ==
    /\ Waits(t, "row") /\ page[t].form = "order"
    /\ LET o == page[t].of IN
          page' = [page EXCEPT ![t] =
                     IF order[o].state = "live"
                     THEN [@ EXCEPT !.todo = << >>, !.payment = order[o].payment]
                     ELSE NoPage]
    /\ UNCHANGED <<row, order, opened, changes>>

\* findAll of the three services: only categories have an active flag.
FindAllAuthors    == {a \in Author : Exists(a)}
FindAllCategories == {c \in Category : row[c].state = "active"}
FindAllPromotions == {m \in Promotion : Exists(m)}

\* As FindAll, with the authors' address copied for the promotions.
FindAllCopied(f) == CASE f \in {"author", "promotion"} -> FindAllAuthors
                      [] f \in {"category", "parent"} -> FindAllCategories

\* What a page asks for to fill the select of a field.
FindAll(f) == CASE f = "author" -> FindAllAuthors
                [] f = "promotion" -> FindAllPromotions
                [] f \in {"category", "parent"} -> FindAllCategories

\* The script looks for the row's own value in every list: without a row it
\* stops at the first list with an entry, and nothing can be submitted.
FetchList(t, f) ==
    /\ Waits(t, f)
    /\ page' = IF page[t].shown = NotShown /\ FindAll(f) # {} THEN [page EXCEPT ![t] = NoPage]
               ELSE [page EXCEPT ![t].todo = Tail(@), ![t].list[f] = FindAll(f)]
    /\ UNCHANGED <<row, order, opened, changes>>

\* A request fails.  The row's is an error page or a page without the row;
\* a list's is swallowed: an edit form's script then stops at the loop over
\* the list, a create form has nothing to choose.
FetchFails(t) ==
    /\ page[t].open /\ page[t].todo # << >>
    /\ changes < MaxChanges
    /\ changes' = changes + 1
    /\ \/ /\ ~page[t].creates
          /\ page' = [page EXCEPT ![t] = NoPage]
       \/ /\ page[t].creates \/ (Waits(t, "row") /\ page[t].form # "order")
          /\ page' = [page EXCEPT ![t].todo = Tail(@)]
    /\ UNCHANGED <<row, order, opened>>

-----------------------------------------------------------------------------
(* Submitting a form.                                                      *)

Ready(t, form) == page[t].open /\ page[t].todo = << >> /\ page[t].form = form

\* As Preselected, with the loop over the promotions forgotten.
PreselectedButPromotion(t) ==
    [f \in Field |-> IF page[t].shown[f] \in page[t].list[f] /\ f # "promotion"
                     THEN page[t].shown[f] ELSE None]

\* What the selects show before the administrator touches them: a value that
\* is not among the options leaves the empty one.
Preselected(t) ==
    [f \in Field |-> IF page[t].shown[f] \in page[t].list[f] THEN page[t].shown[f] ELSE None]

\* The body: every select, one of them changed, or none.
Bodies(t) ==
    LET untouched == Preselected(t) IN
    {untouched} \cup
    UNION {{[untouched EXCEPT ![f] = v] : v \in page[t].list[f] \cup {None}} : f \in Field}

\* As UpdateRow, without the foreign key's check.
UpdateUnchecked(x, refs) ==
    row' = IF Exists(x) THEN [row EXCEPT ![x].refs = refs] ELSE row

\* PATCH: one UPDATE, of inactive rows too; a reference to a row that is
\* gone is refused by the foreign key, an unknown id by affected = 0.
UpdateRow(x, refs) ==
    row' = IF Exists(x) /\ Resolves(refs, x) THEN [row EXCEPT ![x].refs = refs] ELSE row

CreateRow(x, refs) ==
    /\ row[x].state = "unused"
    /\ row' = IF Resolves(refs, x) THEN [row EXCEPT ![x] = [state |-> "active", refs |-> refs]]
              ELSE row

\* A page stays after its form was sent: it may be sent again, with what it
\* showed at first.
Submits(t, form, creates) ==
    /\ Ready(t, form)
    /\ page[t].creates = creates
    /\ UNCHANGED <<order, page, opened, changes>>

CreateProduct(t) ==
    /\ Submits(t, "product", TRUE)
    /\ \E p \in Product, refs \in Bodies(t) : CreateRow(p, refs)

UpdateProduct(t) ==
    /\ Submits(t, "product", FALSE)
    /\ \E refs \in Bodies(t) : UpdateRow(page[t].of, refs)

CreateCategory(t) ==
    /\ Submits(t, "category", TRUE)
    /\ \E c \in Category, refs \in Bodies(t) : CreateRow(c, refs)

UpdateCategory(t) ==
    /\ Submits(t, "category", FALSE)
    /\ \E refs \in Bodies(t) : UpdateRow(page[t].of, refs)

\* As PaymentsOffered, with the select left enabled.
PaymentsAlwaysOffered(t) == {"PAID", "UNPAID"}

\* The select of the payment is disabled, and so not sent, in a form that
\* was rendered PAID.
PaymentsOffered(t) == IF page[t].payment = "PAID" THEN {} ELSE {"PAID", "UNPAID"}

\* The fields of the body, whatever the order has by now.
UpdateOrder(o, fields) ==
    /\ order[o].state = "live"
    /\ order' = [order EXCEPT ![o] = [f \in DOMAIN @ |-> IF f \in DOMAIN fields THEN fields[f] ELSE @[f]]]

SubmitOrder(t) ==
    /\ Ready(t, "order")
    /\ \E s \in Status :
          \/ PaymentsOffered(t) = {} /\ UpdateOrder(page[t].of, [status |-> s])
          \/ \E pay \in PaymentsOffered(t) : UpdateOrder(page[t].of, [status |-> s, payment |-> pay])
    /\ UNCHANGED <<row, page, opened, changes>>

-----------------------------------------------------------------------------
(* Steps outside of forms.                                                 *)

Outside ==
    /\ changes < MaxChanges
    /\ changes' = changes + 1
    /\ UNCHANGED <<page, opened>>

\* The lists' remove buttons take a row out of the lists and keep it.
Deactivate(x) ==
    /\ row[x].state = "active"
    /\ Outside
    /\ row' = [row EXCEPT ![x].state = "inactive"]
    /\ UNCHANGED order

\* The transaction around it is ProductRemoval's.
RemoveProduct(p) == Deactivate(p)

\* Its products and subcategories keep referring to it.
RemoveCategory(c) == Deactivate(c)

\* As Forgotten, for the references of products only.
ForgottenByProducts(x) ==
    [y \in Id |-> [row[y] EXCEPT !.refs = [f \in Field |->
        IF @[f] = x /\ y \in Product THEN None ELSE @[f]]]]

\* ON DELETE SET NULL.
Forgotten(x) ==
    [y \in Id |-> [row[y] EXCEPT !.refs = [f \in Field |-> IF @[f] = x THEN None ELSE @[f]]]]

DeleteRow(x) ==
    /\ Exists(x)
    /\ Outside
    /\ row' = [Forgotten(x) EXCEPT ![x] = [state |-> "deleted", refs |-> NoRefs]]
    /\ UNCHANGED order

DeleteProduct(p)   == DeleteRow(p)
DeleteCategory(c)  == DeleteRow(c)
DeleteAuthor(a)    == DeleteRow(a)
DeletePromotion(m) == DeleteRow(m)

\* Authors and promotions refer to nothing.
CreateTarget(x) ==
    /\ row[x].state = "unused"
    /\ Outside
    /\ row' = [row EXCEPT ![x].state = "active"]
    /\ UNCHANGED order

CreateAuthor(a)    == CreateTarget(a)
CreatePromotion(m) == CreateTarget(m)

DeleteOrder(o) ==
    /\ order[o].state = "live"
    /\ Outside
    /\ order' = [order EXCEPT ![o].state = "deleted"]
    /\ UNCHANGED row

\* The customers' mutation writes the payment status it is sent, whatever the
\* order's is: the shop sends PAID once Stripe has confirmed, a caller may
\* send either.
UpdatePaymentStatus(o, pay) ==
    /\ Outside
    /\ UpdateOrder(o, [payment |-> pay])
    /\ UNCHANGED row

-----------------------------------------------------------------------------
TabStep(t) ==
    \/ OpenSome(t) \/ FetchRow(t) \/ FetchOrder(t) \/ FetchFails(t)
    \/ \E f \in Field : FetchList(t, f)
    \/ CreateProduct(t) \/ UpdateProduct(t)
    \/ CreateCategory(t) \/ UpdateCategory(t)
    \/ SubmitOrder(t)

Next ==
    \/ \E t \in Tab : TabStep(t)
    \/ \E p \in Product : RemoveProduct(p) \/ DeleteProduct(p)
    \/ \E c \in Category : RemoveCategory(c) \/ DeleteCategory(c)
    \/ \E a \in Author : CreateAuthor(a) \/ DeleteAuthor(a)
    \/ \E m \in Promotion : CreatePromotion(m) \/ DeletePromotion(m)
    \/ \E o \in Order : DeleteOrder(o)
    \/ \E o \in Order, pay \in {"PAID", "UNPAID"} : UpdatePaymentStatus(o, pay)

Spec == Init /\ [][Next]_vars

-----------------------------------------------------------------------------
(* Properties.                                                             *)

\* Whatever is deleted while a form that offers it is open, no row refers to
\* a row that is gone, or to a row of the wrong table.
ReferencesResolve == \A x \in Id : Resolves(row[x].refs, x)

\* The categories at or under S: the least set that holds those of S that
\* exist and their children.
Below(S) == {c \in Category : \A T \in SUBSET Category :
                (\A s \in S : Exists(s) => s \in T) /\ Children(T) \subseteq T => c \in T}

\* Those under themselves.
OnCycles == {c \in Category : c \in Below(Children({c}))}

\* "Self-referencing category tree": the storefront's recursive query ends
\* exactly when no category it comes by is under itself, and then a list by
\* price or of what is on sale holds the products at or under the chosen
\* categories and no other, however the tree was changed since they were
\* chosen; only when none of them is left it is not filtered.
ListingIsSubtree ==
    LET onCycles == OnCycles IN
    \A S \in SUBSET Category :
       LET below == Below(S) IN
       /\ Ends(S) <=> below \cap onCycles = {}
       /\ Ends(S) => \A sort \in Sort \ {"POPULAR"} :
             FindList(S, sort) =
                {p \in Product : /\ row[p].state = "active"
                                 /\ below # {} => row[p].refs["category"] \in below
                                 /\ sort = "ON_SALE" => row[p].refs["promotion"] # None}

\* A form shows all fields of a row and sends them all.  Of those its
\* administrator did not touch, it changes only what someone else changed
\* after the page was opened, and what the page could not offer: a category
\* that has been removed is dropped from its product by any edit.
EditsKeepTheRest ==
    [][\A x \in Id : Exists(x) /\ row[x].refs # row'[x].refs /\ opened' = opened /\ changes' = changes
          => \E t \in Tab, touched \in Field :
                /\ page[t].open /\ page[t].of = x /\ page[t].todo = << >>
                /\ \A f \in Field \ {touched} : row'[x].refs[f] # row[x].refs[f] =>
                      \/ page[t].shown[f] # row[x].refs[f]
                      \/ page[t].shown[f] \notin page[t].list[f]]_vars

\* The form of an order that is shown as paid cannot unpay it: an
\* administrator's edit of its status takes a payment back only when the form
\* was rendered before the payment was made.  The one other way is the
\* customers' mutation, when it is sent UNPAID.
PaidStaysPaid ==
    [][\A o \in Order : order[o].payment = "PAID" /\ order'[o].payment = "UNPAID"
          => \/ \E t \in Tab : page[t].open /\ page[t].of = o /\ page[t].payment = "UNPAID"
             \/ UpdatePaymentStatus(o, "UNPAID")]_vars

-----------------------------------------------------------------------------
(* The inductive invariant.                                                *)

\* The page of an order asks for the order alone, and then shows whether it
\* is paid.
OrderForms ==
    \A t \in Tab : page[t].open /\ page[t].form = "order" =>
       /\ ~page[t].creates
       /\ \/ page[t].todo = <<"row">>
          \/ page[t].todo = << >> /\ page[t].payment # "none"

\* A page for a new row never asks for a row.
NewForms == \A t \in Tab : page[t].creates => page[t].todo \in Seq(Field)

IInv == TypeOK /\ ReferencesResolve /\ OrderForms /\ NewForms

=============================================================================
