--------------------------- MODULE CheckoutPromise ---------------------------
(***************************************************************************)
(* What a checkout promises to someone who sees only the tables and the    *)
(* answers: a cart is taken before an order is placed from it, an order    *)
(* once placed stays placed, its items are filled in afterwards, and the   *)
(* answer "ok" is given for a placed and filled order only.  The promise   *)
(* is deliberately that weak: a cart may be taken and no order placed, and *)
(* a placed order may be answered with an error.                           *)
(***************************************************************************)
CONSTANTS Request, Cart, NoCart

VARIABLES
    taken,   \* carts removed by checkouts
    placed,  \* the cart each request's order was made from, or NoCart
    filled,  \* requests whose order has all its items
    reply    \* what each request was answered

vars == <<taken, placed, filled, reply>>

Init ==
    /\ taken = {}
    /\ placed = [r \in Request |-> NoCart]
    /\ filled = {}
    /\ reply = [r \in Request |-> "none"]

Accept(r) ==
    /\ reply[r] = "none"
    /\ reply' = [reply EXCEPT ![r] = "pending"]
    /\ UNCHANGED <<taken, placed, filled>>

Take(c) ==
    /\ c \notin taken
    /\ taken' = taken \cup {c}
    /\ UNCHANGED <<placed, filled, reply>>

\* The order appears; the request may learn of it as a failure.
Place(r, c) ==
    /\ reply[r] = "pending"
    /\ placed[r] = NoCart
    /\ c \in taken
    /\ placed' = [placed EXCEPT ![r] = c]
    /\ reply' \in {reply, [reply EXCEPT ![r] = "error"]}
    /\ UNCHANGED <<taken, filled>>

Fill(r) ==
    /\ reply[r] = "pending"
    /\ placed[r] # NoCart
    /\ filled' = filled \cup {r}
    /\ UNCHANGED <<taken, placed, reply>>

Succeed(r) ==
    /\ reply[r] = "pending"
    /\ r \in filled
    /\ reply' = [reply EXCEPT ![r] = "ok"]
    /\ UNCHANGED <<taken, placed, filled>>

\* One request fails, or all those a crashed process was working on.
Fail(R) ==
    /\ \A r \in R : reply[r] = "pending"
    /\ reply' = [r \in Request |-> IF r \in R THEN "error" ELSE reply[r]]
    /\ UNCHANGED <<taken, placed, filled>>

Next ==
    \/ \E r \in Request : Accept(r) \/ Fill(r) \/ Succeed(r)
    \/ \E c \in Cart : Take(c)
    \/ \E r \in Request, c \in Cart : Place(r, c)
    \/ \E R \in SUBSET Request : Fail(R)

Spec == Init /\ [][Next]_vars

=============================================================================
