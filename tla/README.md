# BookWorm-API: a TLA+ model

BookWorm-API is a book shop of NestJS services, each with a PostgreSQL database
of its own, that call each other over RabbitMQ. No transaction spans two
services and hardly any spans two statements, so what can go wrong lies in the
interleaving of handlers, in calls that are lost or answered too late, in values
that are read before an `await` (or shown in a form) and written after it, and
in cursors, codes and tokens that are spent before the work is done. This
directory models those parts, checks them with TLC on small instances and
proves the central ones with TLAPS for instances of every size.

Paths below are relative to the repository.

## 1. Inventory

### Components

| Component | State it keeps | Operations that change it | Modelled in |
|---|---|---|---|
| **Order service** `apps/order` | `order`, `order_item`; a connection pool | `placeOrder` (saga over two services), Stripe payment, `update`, `updatePaymentStatus`, `delete` | `Checkout`, `BackOffice` |
| **Carts** `apps/cart/.../cart` | `cart`, `temp_cart` | `getUserCart` and `getGuestCart` (create on demand), `create`, `update`, `placeOrder` (= DELETE_CART) | `Checkout`, `CartItems` |
| **Cart items** `apps/cart/.../item` | `cart_item`, `temp_cart_item`, the carts' totals | `create`, `update`, `delete`, `removeCartItemForProduct` (= REMOVE_CART_ITEM), the guests' three | `CartItems`, `ProductRemoval` |
| **Products** `apps/product/.../product` | `product`; a cursor in the process's memory | `create`, `update`, `remove` (transaction around REMOVE_CART_ITEM), `delete`, the rating job | `BackOffice`, `ProductRemoval`, `RatingCron`; its answers in `CartItems` |
| **Promotions** `.../promotion` | `promotion` | `create`, `update`, `delete` | `BackOffice`, their effect on prices in `CartItems` |
| **Reviews** `.../review` | `review` | `create`, `changeStatus`, `delete`; counts and averages | `RatingCron` |
| **Categories** `.../category` | `product_category`, a tree by `parent_id` | `create`, `update`, `remove`, `delete`; a recursive query | `BackOffice` |
| **Authors** `.../author` | `author` | `create`, `update`, `delete` | `BackOffice` |
| **Auth** `apps/auth` | `user` (password, secret, one-time token), codes in Redis | login, one-time passwords, Google, code exchange, enable/disable two factors, forgotten password, refresh, logout | `SignIn`, `PasswordReset`, `Sessions` |
| **Tokens** `.../token` | signed tokens, cookies, the page's local storage | issue, refresh, clear | `Sessions` |
| **Permission guard** `libs/common/src/auth` | none | one VALIDATE_JWT call before a handler; roles | `Sessions` |
| **Back office** `apps/mvc` | what an open page shows | pages from several requests, forms, the callback page | `BackOffice`, `Sessions` |
| **Message bus** `libs/rmq` + RabbitMQ | calls under way | send, lose, refuse, answer | inside `Checkout`, `CartItems`, `ProductRemoval`, `Sessions` |
| **Cache** `libs/cache` | keys that expire | get, set, delete | inside `SignIn`, `RatingCron` |
| **Repository layer** `libs/database` | none | `findOne`, `create`, `update`, `delete` that throw `NotFoundException` | the statements of every module |
| **Uploads, site pages, config, mail, graphql, seeds** | none, or one row | one call to a cloud service, one row | not modelled |

### Interactions

    order   --GET_CART_BY_USER, DELETE_CART-->  cart
    cart    --GET_PRODUCT_BY_ID-->  product
    product --REMOVE_CART_ITEM-->  cart
    product --GET_POPULAR_PRODUCTS--> order
    all     --VALIDATE_JWT-->  auth
    browser --pages, forms--> mvc; its scripts send the forms to the services

Every call is an RxJS `send` with a 10 s timeout. The consumers run with
`noAck = true` (`libs/rmq/src/rmq.service.ts:14`), so a call is handled at most
once, a call whose consumer dies is lost, and a caller that has timed out does
not keep the handler from running later.

### Hard behaviours

* *Sagas without compensation.* `placeOrder` has the cart deleted in another
  database, commits, and then inserts the order items outside the transaction.
  `remove` has carts purged in another database, with its own update not
  awaited and its COMMIT after the answer.
* *Two connections per checkout.* The order items are inserted through the pool
  while the query runner of the same call keeps its connection.
* *Absolute writes of stale values.* Totals and quantities of carts, all the
  fields of a form, the payment status of an order.
* *Control flow by exception.* `create` takes `NotFoundException` of any of the
  statements of its first branch as "there is no such item yet"; a rejected
  promise that nobody awaits ends the process.
* *A cursor moved before the work is done* and kept more coarsely than what it
  is compared with, in the rating job.
* *Check, then act*: a code read before it is deleted, a secret looked for before
  one is generated, a one-time token burnt before the password is changed.
* *A recursion over data an administrator can close into a cycle*: categories.
* *Two halves of one credential*: a fingerprint in a cookie that comes with the
  head of an answer, a token in its body, each of which may be of another answer.

What makes each component correct is stated by the properties of section 3.

## 2. The modules

| Module | Contents |
|---|---|
| `Checkout` | `OrderService.placeOrder` with the cart service's `findCartForOrder`, `placeOrder` and `getUserCart`, the bus and the pool; its inductive invariant |
| `CheckoutPromise` | what a checkout promises to someone who sees tables and answers only |
| `CartItems` | `ItemService` and `getUserCart`/`getGuestCart`, statement by statement, with the other services' steps |
| `CartHistory` | what rows and totals are worth: `CartItems` with history of what made a total wrong and which creates raced |
| `ProductRemoval` | `ProductService.remove` and `removeCartItemForProduct`, against carts being filled and faults |
| `BackOffice` | the dashboard's pages and forms over products, authors, categories, promotions and orders; the storefront's lists |
| `RatingCron` | `cronProductRating`, reviews, recommendations |
| `SignIn` | login, two factors, authorization codes |
| `PasswordReset` | forgotten passwords |
| `Sessions` | tokens, cookies, refresh, the permission guard |
| `CheckoutProofs`, `CartItemsProofs`, `ProductRemovalProofs`, `BackOfficeProofs`, `RatingCronProofs`, `SignInProofs`, `PasswordResetProofs`, `SessionsProofs` | the theorems |
| `MC…` | instances for TLC: symmetry sets, prices, a clock |

The modules do not share variables: each abstracts its neighbours to the steps
that reach it. `Checkout` lets lines come and go in carts any time, which is
more than `CartItems` does; `CartItems` has DELETE_CART and REMOVE_CART_ITEM as
steps; `ProductRemoval` has the adding of an item as quote and insert, which are
`Refetch`/`Fetch` and `Insert` of `CartItems`; `SignIn` ends where `Sessions`
begins, with `authenticated`.

### Checkout

A *request* is one call of `placeOrder`. Its program counter names the statement
it stands at:

    idle -> findCart -> connect -> save -> deleteCart -> commit
         -> insertItems <-> insertRow -> [payment] -> ok

and every failure has an end of its own (`emptyCart`, `findFailed`, `dbError`,
`deleteRefused`, `deleteTimeout`, `commitFailed`, `itemsFailed`,
`paymentFailed`, `crashed`). `found[r]` is the cart the request was answered
with, `order[r]` and `inserted[r]` are its rows. `getCall[r]` and `delCall[r]`
are its two calls: `unsent`, `queued`, `answered`, `refused` or `lost`. A timeout
is the step `FindFails` or `DeleteTimesOut`, possible whenever the request waits
(time is not modelled; it may come while the handler is still to run, which is
the interesting case). It leaves the call where it is.

The cart service's tables are `cartState`, `cartOwner`, `cartLines`. A cart row
appears through `getUserCart`, whose read and insert are two steps. A *line* is
one cart item with its product and quantity.

A COMMIT that throws may or may not have been performed, here (`CommitFails`) and
in the cart service (`RefuseDelete`). `rollbackTransaction`, `throw` and `release`
of the catch and finally blocks are one action, `Abort`: no step of another
request could tell them apart. A request that waits for a connection is one that
cannot take `Connect` or `TakeSecondConnection`: the pool has no acquisition
timeout.

Left out: the order's address, total and status (`BackOffice` has the status and
payment), the permission guard before the handler, and the call
FIND_ORDER_PROMOTION, which the README's diagram shows and `placeOrder` does not
make.

### CartItems

A *call* is a visit, a `createCartItem`, `updateCartItem` or `deleteCartItem`, or
their variants for guests. Its local variables are the record `mem`; each
statement is one action, in the order of the code:

| place | statement | source (`item.service.ts`) |
|---|---|---|
| `find`, `open` | `getUserCart`: read the newest cart, else insert one | 28 |
| `fetch` | GET_PRODUCT_BY_ID | 31 |
| `lookup` | `itemRepository.findOne({product_id})` | 34 |
| `read` | `findOne({id}, {cart})` in `update` / `delete` | 87, 121 |
| `refetch` | GET_PRODUCT_BY_ID again | 93, 127 |
| `writeTotal` | `cartService.update` with the computed total | 97, 102, 130 |
| `writeItem` | `itemRepository.update` or `delete` | 108, 135 |
| `ownTotal` | `create`'s own `cartService.update` | 44 |
| `insert`, `insertTotal` | the catch branch of `create` | 53, 58 |
| `findTemp`, `openTemp`, `insertTemp` | `getGuestCart`, `createForGuest` | 73, 77 |

`NotFoundException` sends a `create` from anywhere between `lookup` and `ownTotal`
to `insert`, as the catch block does, and ends the other two. `Fault` is a failing
statement, an unanswered call (after 10 s) or the death of the process.
`quotable` holds the products `findProductOnCart` answers for: it destructures the
product's promotion and author, so a product without one of them makes it throw.
Prices are in the smallest unit, where `round(…, 2)` changes nothing; fractional
discounts and their rounding are outside the model. `Reprice`, `Withdraw`,
`RemoveForProduct` and `CheckOut` are the steps of administrators and the other
services, each with a budget. `UpdateForGuest` and `DeleteForGuest` are one
statement each. `tempCart[c].by` and `.raced` are history: who inserted the row
and who was about to insert another one then.

`CartHistory` runs the same steps and adds two variables that no step reads. A
cart is *in hand* of a call that has read a total or a quantity of it and is still
to write from it. `blamed` has the carts whose total may be wrong, for one of five
reasons: two calls had it in hand at once (`Shared`), a create is to add the price
here and has raised a row elsewhere (`Mixed`), a price changed (`Repriced`),
REMOVE_CART_ITEM took rows without lowering the total (`Purged`), a call failed
between its two writes (`Torn`). `raced` has the creates that had looked for a row
when another one inserted it.

### ProductRemoval

A removal goes `idle -> waiting -> committing -> ok`; the call it makes is
`unsent`, `queued`, `answered`, `refused`, `unsure` (the purge's COMMIT threw,
performed or not) or `lost`. `remove`'s update is not awaited: it is either
performed in the transaction by the time of COMMIT or its rejection ends the
process (`ProductServiceDies`). An add of a user is quoted and then inserted; a
guest's add is inserted without waiting for the quote, and when the quote is
refused the rejection is nobody's and ends the cart service. `late` and `racers`
are history: who had not inserted when a purge ran, and who was quoted when the
product was deactivated. Node's behaviour on an unhandled rejection (the process
ends) is the default of the versions the repository names.

### BackOffice

The tables of the product service are one function from ids to rows, a row its
state and its references. A page is rendered from several requests one after the
other (`todo`): the row, then the lists its selects offer. A form shows all
fields (`shown`, `list`), and its administrator may touch one before it is sent;
`Preselected` says what a field that was not touched sends, which is "no choice"
when its value is not in the list. `UpdatePaymentStatus` is the customers' mutation,
which writes whatever payment status its caller sends. Changes outside of forms, creations of authors
and promotions, and failing requests share the budget `MaxChanges`, pages the
budget `MaxPages`. `SubcategoryIds` is the recursive query as rounds over sets;
`Below` and `OnCycles` are its reference definitions, by least fixed point. Categories
form a tree at first; a cycle is closed by a form, whose list offers the row
itself and the rows under it.

### RatingCron

Time is counted in microseconds, `PerMs` to a millisecond, because the difference
decides which products are rated: PostgreSQL keeps `created_at` in microseconds,
the program reads it in milliseconds (`Ms`), and the cursor has the latter. A
product thus compares *greater* than the cursor made from itself unless it was
created on a whole millisecond, so the first product is rated, and the last of a
page is rated again. What really is left out for ever: a shop's only product (a page of one
is not rated), a product created exactly on a millisecond and alone at a boundary,
and products of the same millisecond at one. `Regular` names the shops without
those. The cursor lives in the process's memory (`CacheModule.register()`), is lost
with it, and expires. `NonePassedOver` is the safety half of `RatingsSettle`: the
cursor passes over no product that its run does not rate, but on a tie of whole
milliseconds. `had` is history: the counts each product has had since a run began.

### SignIn, PasswordReset, Sessions

`SignIn`: a login stands at `asked`, `coding` or `coded`. The login that asks for a
one-time password leaves nothing behind: the validation is a request of its own
that names the user, and reads the row again. An exchange reads the code
(`GetCode`), then deletes it (`DeleteCode`), then issues (`Authenticated`). A
secret is named by the enable-2fa request that generated it. `told` is history:
the users who were shown a secret and have not disabled two factors since;
`crossed` has the enable-2fa requests whose answer a disabling has overtaken.

`PasswordReset`: a token is named by the request that generated it, a hash by what
it is the hash of; a reset is `matched`, `spent`, `ok`. The form opens for any user
there is a row of. In both modules, `met` is history: the pairs of requests that
were under way together.

`Sessions` has time, `Life` instants to a token and its cookies (the services sign
with seconds), and the two places a browser keeps its half of a session in: the
cookie jar, set by the head of an answer, and the page's local storage, set when
the script has read the body. `holder` is the answer both are of. Signing happens
in two steps that a second may pass between. `grant[g].holder`, the holder when a
refresh was let in, and `grant[g].alone`, that no other request for tokens was under
way beside it, are history.

## 3. The runs

| Run | Instance | Properties |
|---|---|---|
| `checkout_crash` | 2 requests, 2 carts, 1 line, 2 visits, pool 3, 1 crash | `AnsweredMeansComplete`, `NoTransactionLeftOpen`, `CommittedOrderRetiresCart`, `LostCartHasCulprit`, `NoResale`, `CommitIsFinal`, the refinement `KeepsPromise`, and `IInv`, the invariant of the proofs |
| `checkout_ends` | 2 requests, 1 line, pool 3, weak fairness | `EveryCheckoutEnds` |
| `cart_totals` | 3 calls, 2 at a time, 2 users, 1 product, one of: a fault, a price change, a withdrawal, a removal, a checkout | `TotalsAgree`, `OneRowPerProduct`, `HistoryInv` |
| `cart_concurrent` | 3 calls, 2 at a time, 2 users, a guest, up to two of: a fault, a price change, a removal, a checkout | `AddedOnce`, `OneCartPerGuest`, `RowsStayPut`, `IInv` |
| `back_office` | 2 tabs, 2 pages, 1 outside change; 1 product, author, promotion and order, 2 categories | `ReferencesResolve`, `ListingIsSubtree`, `EditsKeepTheRest`, `PaidStaysPaid`, `IInv` |
| `product_removal` | 1 product, 2 removals, 2 users, 1 guest, 2 faults, weak fairness | `OnlyRacersRemain`, `PurgeHasCulprit`, `EveryRemovalEnds`, `IInv` |
| `rating` | 3 products at 5 instants, 2 to a millisecond, pages of 2, 1 review, 1 fault, weak fairness | `RatingsReflectTheRun`, `NonePassedOver`, `RatingsSettle`, `IInv` |
| `sign_in` | 2 users (one Google's), 2 logins, exchanges and enable-2fa requests, 1 fault | `PasswordAloneIsNotEnough`, `OneSessionPerCode`, `LastSecretWorks`, `IInv` |
| `password_reset` | 2 users, 2 browsers, 3 mails, 2 resets, 1 fault | `TokensAreSpent`, `NewestLinkWorks`, `IInv` |
| `sessions` | 2 callback pages, 2 refreshes, 1 request, 3 instants, weak fairness | `WhoSignedInIsSignedIn`, `RefreshOnlyAcrossASecond`, `EveryCallIsAnswered`, `IInv` |

Two runs show where the code departs from the repository's documentation
(`findings` in `PROJECT.json` quotes the lines):

| Run | Property | What happens |
|---|---|---|
| `checkout_gridlock` | `EveryCheckoutEnds` with pool = number of requests | all requests hold a connection and wait for a second one |
| `cart_own` | `AddedToOwnCart` with two users, one call at a time | the second user's add raises the first user's row |

Many properties say "unless": what the code does not guarantee is an exception
the property names, by the history that leads to it, and everything else is
excluded. `LostCartHasCulprit`, `TotalsAgree`, `OneRowPerProduct`,
`OnlyRacersRemain`, `PurgeHasCulprit`, `NonePassedOver`, `PaidStaysPaid`,
`PasswordAloneIsNotEnough`, `OneSessionPerCode`, `TokensAreSpent`, `LastSecretWorks`
and `NewestLinkWorks` are of this kind.

### Bounds

* *Checkout*: two requests are enough for every race of two checkouts over one
  cart, and two carts for a user with two of them; a third request adds no new
  pair. One crash ends every request in flight. A pool of three leaves one spare
  connection for two requests; a pool of two does not, which is the whole
  difference between `checkout_ends` and `checkout_gridlock` (the code has ten
  connections, and ten concurrent checkouts). Any number of lines is the proofs'.
* *Cart items*: two calls at a time reach every overlap of two mutations, with a
  third call to prepare or to follow; two users have a cart each, so that a create
  finds the other's row. One event per behaviour (two in `cart_concurrent`) is one
  cause of a wrong total beside the overlaps, and the product is the one everyone
  wants. Quantities run over -1, 0 and 1 (to 2 in `cart_own`), since
  `updateCartItem` takes any number. `MaxCarts`, `MaxItems`, `MaxTempCarts` and
  `MaxTempItems` bound the rows; a call that needs one more stops there.
* *Back office*: two pages are a stale form and the one that outdates it, the
  outside change is what neither shows; two categories make a tree of depth two
  and both cycles.
* *Removal*: a purge, a second one, one add on each side of it, and two faults,
  so that a service may die after a call was lost.
* *Rating*: pages of two with three products have a full page, a last page of
  one and none. One run of the job at a time: runs are half an hour apart.
  Five instants of two per millisecond give ties, ticks and neither.
* *Auth*: two of each request make every pair; three mails are one spent, one
  superseded and the newest.
* *Sessions*: three instants with a life of one: issue, boundary, expiry. Two
  refreshes are a refresh and the one after it. With no minutes of grace (`Grace`
  = 0) a refresh has exactly one instant to pass in, the one in which an access
  token signed a second before the refresh token has just expired; longer lives
  and the five minutes are the proofs'.

*Deadlock* is not checked: every module may really stop, when all requests have
ended and all budgets are spent. The liveness properties say that none stops
earlier.

### Fairness

Weak fairness on `Progress(r)`, the steps the order or product service takes by
itself for one request (`checkout_ends`, `checkout_gridlock`, `product_removal`),
on `Progress(j)` for one run of the rating job (the scheduler starts it every
half hour, and its statements answer), and on `TimesOut(c)` of the permission
guard. Node's event loop runs the continuation of a promise that has settled and
a timer that has fired, so a step that stays possible is taken. Nothing is
assumed of users, administrators, the bus or the service at the other end; every
wait ends by a timer's step. `RatingsSettle` is of shops that become quiet: with
finitely many reviews, products and faults every behaviour of the instance does.

## 4. The proofs

The eight proof modules are checked by TLAPS from the constants' named assumptions
alone, for any number of users, requests, carts, rows, tabs, products, runs, mails,
crashes and faults. Every module has an inductive invariant `IInv`, which a run
checks first; a proof has one lemma per action, under a few that say what any
action of its kind leaves to be shown. Every safety property of the passing runs,
invariant or action property, is a theorem, under no hypothesis on who else is
under way; `AddedToOwnCart`, which `cart_own` refutes, is not among them.

| Module | Inductive invariant | Theorems |
|---|---|---|
| `CheckoutProofs` | `TypeOK /\ Phases /\ NoTransactionLeftOpen /\ LostCartHasCulprit`: what each place of `placeOrder` knows of the calls, the cart and the order. `CommittedOrderRetiresCart` needs that a request at `commit` has had its own DELETE_CART handled, this that *answered* means handled, this that a queued call belongs to a request that holds a cart | `Invariance`, `TypeCorrect`, `CommitAfterDelete`, `Completeness`, `TransactionsClosed`, `LossesExplained`; the action properties `NoResaleHolds`, `CommitIsFinalHolds`; `Refinement`: `Spec => Promise!Spec` |
| `CartItemsProofs` | `IInv` of the rows and calls, `HistoryInv` of what they are worth; see below | `Invariance`, `TypeCorrect`, `NeverAddedTwice`, `GuestsShareNoCart`, `HistoryInvariance`, `TotalsHold`, `ListedOnce`; the action property `RowsStay` |
| `ProductRemovalProofs` | `TypeOK /\ Phases /\ PurgeIsComplete /\ RacersOnTheWay /\ PurgedByACall`: an answered purge has met everyone who was in a cart then (`late` has the others), so whoever is left when the COMMIT deactivates the product is a racer | `Invariance`, `OnlyRacers`, `Culprit` |
| `BackOfficeProofs` | `TypeOK /\ ReferencesResolve /\ OrderForms /\ NewForms`: a page asks only for what its form shows, and an order's form that can be sent has its payment | `Invariance`, `TypeCorrect`, `ReferencesHold`, `ListingHolds`; the action properties `EditsKeep`, `PaidStays` |
| `RatingCronProofs` | `TypeOK /\ RunsKeepUp`: a run that is on its way has seen the counts of every moment since it began, so what it counted is among them, and still is when it writes | `Invariance`, `TypeCorrect`; the action properties `RatingsReflect` and `CursorPassesNothing` |
| `SignInProofs` | `TypeOK /\ CodesAreSpent /\ ToldAreOn /\ Secrets /\ AnswersMet /\ LastSecretWorks`: an exchange past the deletion has no code left, two that found one code have met; a secret in a row was generated by a request that is past its update; who was told has two factors on, and a password login that began after it was asked for the second one | `Invariance`, `PasswordNeedsMore`, `OneSession`, `LastSecret` |
| `PasswordResetProofs` | `TypeOK /\ TokensInHand /\ PassedTogether /\ NewestLinkWorks`: a spent token is nobody's any more, a matched one is the newest or has met it | `Invariance`, `SingleUse`, `NewestLink` |
| `SessionsProofs` | `TypeOK /\ InTime /\ Halves /\ AloneOutlives /\ RefreshOnlyAcrossASecond`: the stored token is that of an answer read to the end, the cookies of one whose head arrived, and they last as long as what they are for; what a lone refresh signs outlives the refresh token | `Invariance`, `TypeCorrect`, `SignedIn`, `RefreshedOnce` |

### The invariants of CartItems

A call of the cart service reads rows, awaits, and writes what it computed from
them. Nothing keeps two calls apart, so the proofs assume nothing of the kind.

* `IInv`: what a call knows of a row (its cart, its product, that it was inserted)
  stays true of it, although the row may be deleted; items are in carts; a create
  that has raised a row has not inserted one. `AddedOnce`, `OneCartPerGuest` and
  `RowsStayPut` follow.
* `HistoryInv`, with `IInv`: as long as a cart is not blamed, at most one call has
  it in hand (`InOneHand`), and that call has the cart as it is: its locals are the
  row's quantity, the total and the price, and the total is what the items cost
  plus what the call has written ahead of its item (`Ahead`). When it lets go,
  nothing is ahead: `TotalsAgree`. A create that has looked knows every row of its
  product but those of creates it raced (`KnowsRows`), so a second row is one that a
  race brought: `OneRowPerProduct`, and more (`OneRowAnywhere`: the lookup is not
  restricted to the caller's cart).

Each of the five causes is needed: TLC refutes `TotalsAgree` in `cart_totals` as soon
as one of them is taken out of `HistoryNext`, and `OneRowPerProduct` without its
race. The sum of a cart's items is the community modules' fold over a finite set;
the proofs need that it exists, is an integer, and changes by one row's worth when
that row does (`SumExists` to `SumSame`).

### Induction over data

Where a definition recurses on data, the induction is made on a set: `SetInduction`
proves from the least element of the complement (`WFMin`) that a set of naturals
with 0 and every successor is all of them. `CartItemsProofs` uses it for sums over
finite sets; `BackOfficeProofs` for the recursive query, where `Round`, whose LET is
a recursive function, is shown to exist and to be determined, and then:

* the categories that some round comes by are the least set `Below(S)`;
* a round that is not empty stands on a chain of parents, one for each round before
  it; a chain longer than there are categories comes by one of them twice, and that
  one is on a cycle;
* a cycle below S is met by infinitely many rounds.

So `Ends(S)`, that the round with the number of all categories is empty, is that no
category at or under S is on a cycle, and `ListingIsSubtree` holds in every state,
reachable or not, of every finite set of categories.

### Only model-checked

The liveness properties `EveryCheckoutEnds`, `EveryRemovalEnds`, `RatingsSettle` and
`EveryCallIsAnswered`: fairness and ENABLED are out of the prover's reach. With the
first stays the pool: that one larger than the number of requests always has a
connection to spare is a fact about cardinalities that only liveness uses. The two
findings are counterexamples, and TLC's.

## 5. Where the documentation and the code disagree

Beside the two runs above, met while modelling (all of it is behaviour of the
modules; the properties are stated around it):

* README.md:629 promises "transactional consistency across the independent Order
  and Cart microservices". A DELETE_CART handled after its caller's timeout leaves
  neither cart nor order, and two overlapping checkouts of one cart both commit
  an order (`LostCartHasCulprit`, `NoResale` say when).
* README.md:658 has "COMMIT TRANSACTION (Order + OrderItems)"; the items are
  inserted after the COMMIT, on other connections.
* README.md:554 has DELETE_CART sent "after order records are committed", the
  diagram at README.md:652-658 before. The code does the latter, and
  `CommittedOrderRetiresCart` depends on it.
* README.md:742 promises a cart total that follows product prices; overlapping
  calls lose each other's change, and a total is blind to a price that changes
  later, to rows that REMOVE_CART_ITEM takes and to the item in another's cart that
  a create has raised; a call that fails between its two writes leaves them apart.
  `TotalsAgree` names these, and they are all there is.
* README.md:408 lets a product be without promotion (SET NULL);
  `findProductOnCart` destructures it, so items of such a product can be neither
  updated nor taken out of a cart (`Refused`).
* README.md:552 has REMOVE_CART_ITEM purge "across all carts": guests' rows stay,
  and a hard `delete` of a product purges nobody's.
* README.md:582 gives an authorization code 100 s; `auth.module.ts:42` gives it
  30 s. (The model has codes expire any time.)
* README.md:722's "single-use" tokens are used twice by overlapping resets
  (`TokensAreSpent`), README.md:592's "GET & DEL code" likewise (`OneSessionPerCode`).
* README.md:921 has two factors asked for "before any session tokens are minted".
  The Google login of a user with two factors on gets a code, and tokens for it,
  with no one-time password (`auth.service.ts:363-368`), and so does a password
  login that read the row before it was enabled. `PasswordAloneIsNotEnough` speaks
  of the passwords of logins that began after the secret was shown, which is what
  the code does keep.
* README.md:595-596 gives the access token 15 minutes and the refresh token 7 days.
  Both are signed with the same lifetime (`Sessions`), so the refresh the README
  describes passes only when the second changed between the two signatures.

One thing no document speaks of, although a reader might expect it: a payment that
was made may be taken back by anyone who may send `updatePaymentStatus`, which
passes on the status of its caller (`order.resolver.ts:38-43`,
`update-order.dto.ts:16-19`). `PaidStaysPaid` is of the dashboard's forms.

## 6. Not modelled

* *Uploads, site pages, configuration, mail transport, graphql adapters, seeds*:
  one call or one row, no state that another step could meet.
* *Registration* (one insert under a unique index), *updates of authors, and of the
  texts of promotions*: single rows.
* *Pagination and the filters by author and rating* of the product lists; the
  *sales ranking*, which only reads; *findOrderPromotion*, which nothing calls.
* *Floating point*: `Number(amount) * 100` in the Stripe call, rounded discounts.
* *Dead code*: `updateGuestCart`, `deleteGuestCart`, `CartService.delete`,
  `ReviewService.update`, the repository's raw* methods.

## 7. Plan

Left for proofs: a second refinement, of a cart that is a map from products to
quantities, which `CartItems` could only implement for carts that are not blamed.

Left for modelling: `Checkout` composed with the totals of `CartItems` (*what is
charged is what the order's items cost*), and several runs of the rating job at
once in a run of TLC (the proofs have any number), should one take longer than half
an hour.
