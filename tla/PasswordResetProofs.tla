------------------------ MODULE PasswordResetProofs ------------------------
(***************************************************************************)
(* Proofs about PasswordReset, for any users, browsers and requests.       *)
(*                                                                         *)
(* That a token is spent, or that the newest link works, follows from what *)
(* a reset has in hand between its three statements.  IInv says that the   *)
(* token in a row is always the newest one, that a token which a reset has *)
(* cleared is in no row, that a reset whose token is no longer the newest  *)
(* was under way when the newest was generated (TokensInHand), and that    *)
(* two resets that passed with one token have met (PassedTogether).        *)
(***************************************************************************)
EXTENDS PasswordReset, TLAPS

\* No token, no mail, no reset.
LEMMA InitIInv == Init => IInv
BY NoneAssumption, KindAssumption, FaultAssumption
   DEF Init, IInv, TypeOK, ForgotState, ResetState, TokensInHand, PassedTogether, Passed,
       NewestLinkWorks

\* UpdateOneTimeToken (forgotPassword) keeps the invariant.
LEMMA UpdateOneTimeTokenStep ==
    ASSUME NEW f \in Forgot, NEW u \in User, IInv, UpdateOneTimeToken(f, u)
    PROVE  IInv'
<1> USE NoneAssumption, KindAssumption, FaultAssumption DEF IInv, ForgotState, ResetState
<1>1. TypeOK'
  BY DEF TypeOK, UpdateOneTimeToken, SetToken, Meets, InFlight, Resetting
<1>2. TokensInHand'
  BY DEF TypeOK, TokensInHand, UpdateOneTimeToken, SetToken, Meets, InFlight, Resetting
<1>3. PassedTogether'
  BY DEF TypeOK, PassedTogether, Passed, TokensInHand, UpdateOneTimeToken, SetToken, Meets,
         InFlight, Resetting
<1>4. NewestLinkWorks'
  <2> SUFFICES ASSUME NEW v \in User, newest'[v] # None, token'[v] # newest'[v]
               PROVE  /\ token'[v] = None
                      /\ \E q \in Reset : /\ reset'[q].user = v
                                          /\ reset'[q].at \in {"spent", "ok", "failed"}
                                          /\ reset'[q].token = newest'[v] \/ {q, newest'[v]} \in met'
    BY DEF NewestLinkWorks
  <2>1. v # u
    BY DEF TypeOK, UpdateOneTimeToken, SetToken
  <2>2. token'[v] = token[v] /\ newest'[v] = newest[v] /\ reset' = reset /\ met \subseteq met'
    BY <2>1 DEF TypeOK, UpdateOneTimeToken, SetToken, Meets
  <2> QED  BY <2>2 DEF NewestLinkWorks
<1> QED  BY <1>1, <1>2, <1>3, <1>4

\* SendMail (forgotPassword) keeps the invariant.
LEMMA SendMailStep ==
    ASSUME NEW f \in Forgot, IInv, SendMail(f)
    PROVE  IInv'
<1> USE NoneAssumption, KindAssumption, FaultAssumption DEF IInv, ForgotState, ResetState
<1>1. TypeOK'
  BY DEF TypeOK, SendMail
<1>2. TokensInHand'
  BY DEF TypeOK, TokensInHand, SendMail
<1>3. PassedTogether'
  BY DEF TypeOK, PassedTogether, Passed, TokensInHand, SendMail
<1>4. NewestLinkWorks'
  BY DEF TypeOK, NewestLinkWorks, TokensInHand, SendMail
<1> QED  BY <1>1, <1>2, <1>3, <1>4

\* SendMailFails (forgotPassword) keeps the invariant.
LEMMA SendMailFailsStep ==
    ASSUME NEW f \in Forgot, IInv, SendMailFails(f)
    PROVE  IInv'
<1> USE NoneAssumption, KindAssumption, FaultAssumption DEF IInv, ForgotState, ResetState
<1>1. TypeOK'
  <2>1. forgot' \in [Forgot -> ForgotState]
    BY DEF TypeOK, SendMailFails
  <2> QED  BY <2>1 DEF TypeOK, SendMailFails, Fault
<1>2. TokensInHand'
  BY DEF TypeOK, TokensInHand, SendMailFails, Fault
<1>3. PassedTogether'
  BY DEF TypeOK, PassedTogether, Passed, TokensInHand, SendMailFails, Fault
<1>4. NewestLinkWorks'
  BY DEF TypeOK, NewestLinkWorks, TokensInHand, SendMailFails, Fault
<1> QED  BY <1>1, <1>2, <1>3, <1>4

\* ResetPasswordForm (resetPasswordForm) keeps the invariant.
LEMMA ResetPasswordFormStep ==
    ASSUME NEW b \in Browser, NEW u \in User, IInv, ResetPasswordForm(b, u)
    PROVE  IInv'
<1> USE NoneAssumption, KindAssumption, FaultAssumption DEF IInv, ForgotState, ResetState
<1>1. TypeOK'
  BY DEF TypeOK, ResetPasswordForm
<1>2. TokensInHand'
  BY DEF TypeOK, TokensInHand, ResetPasswordForm
<1>3. PassedTogether'
  BY DEF TypeOK, PassedTogether, Passed, TokensInHand, ResetPasswordForm
<1>4. NewestLinkWorks'
  BY DEF TypeOK, NewestLinkWorks, TokensInHand, ResetPasswordForm
<1> QED  BY <1>1, <1>2, <1>3, <1>4

\* CookieExpires (resetPasswordForm) keeps the invariant.
LEMMA CookieExpiresStep ==
    ASSUME NEW b \in Browser, IInv, CookieExpires(b)
    PROVE  IInv'
<1> USE NoneAssumption, KindAssumption, FaultAssumption DEF IInv, ForgotState, ResetState
<1>1. TypeOK'
  BY DEF TypeOK, CookieExpires
<1>2. TokensInHand'
  BY DEF TypeOK, TokensInHand, CookieExpires
<1>3. PassedTogether'
  BY DEF TypeOK, PassedTogether, Passed, TokensInHand, CookieExpires
<1>4. NewestLinkWorks'
  BY DEF TypeOK, NewestLinkWorks, TokensInHand, CookieExpires
<1> QED  BY <1>1, <1>2, <1>3, <1>4

\* A reset that is let through keeps the invariant.
LEMMA MatchesStep ==
    ASSUME NEW r \in Reset, NEW b \in Browser, NEW u \in User, IInv,
           ValidateOneTimeToken(r, b, u), TokenMatches(b, u)
    PROVE  IInv'
<1> USE NoneAssumption, KindAssumption, FaultAssumption DEF IInv, ForgotState, ResetState
<1>1. Matches(r, u) /\ UNCHANGED <<token, password, forgot, cookie, newest, faults>> /\ reset[r].at = "idle"
  BY DEF ValidateOneTimeToken
<1>2. cookie[b] # None /\ cookie[b] = token[u]
  BY DEF TokenMatches
<1>3. TypeOK'
  BY <1>1, <1>2 DEF TypeOK, Matches, Meets, InFlight, Resetting
<1>4. TokensInHand'
  BY <1>1, <1>2 DEF TypeOK, TokensInHand, Matches, Meets, InFlight, Resetting
<1>5. PassedTogether'
  BY <1>1, <1>2 DEF TypeOK, PassedTogether, Passed, TokensInHand, Matches, Meets, InFlight, Resetting
<1>6. NewestLinkWorks'
  BY <1>1, <1>2 DEF TypeOK, NewestLinkWorks, TokensInHand, Matches, Meets, InFlight, Resetting
<1> QED  BY <1>3, <1>4, <1>5, <1>6

\* A reset that is refused keeps the invariant.
LEMMA RefusesStep ==
    ASSUME NEW r \in Reset, NEW b \in Browser, NEW u \in User, IInv,
           ValidateOneTimeToken(r, b, u), ~TokenMatches(b, u)
    PROVE  IInv'
<1> USE NoneAssumption, KindAssumption, FaultAssumption DEF IInv, ForgotState, ResetState
<1>1. Refuses(r) /\ UNCHANGED <<token, password, forgot, cookie, newest, faults>> /\ reset[r].at = "idle"
  BY DEF ValidateOneTimeToken
<1>2. TypeOK'
  BY <1>1 DEF TypeOK, Refuses
<1>3. TokensInHand'
  <2>1. reset'[r].at = "refused" /\ \A q \in Reset \ {r} : reset'[q] = reset[q]
    BY <1>1 DEF TypeOK, Refuses
  <2>2. UNCHANGED <<token, forgot, cookie, newest, met>>
    BY <1>1 DEF Refuses
  <2> QED  BY <2>1, <2>2 DEF TokensInHand
<1>4. PassedTogether'
  BY <1>1 DEF TypeOK, PassedTogether, Passed, TokensInHand, Refuses
<1>5. NewestLinkWorks'
  BY <1>1 DEF TypeOK, NewestLinkWorks, TokensInHand, Refuses
<1> QED  BY <1>2, <1>3, <1>4, <1>5

\* ValidateOneTimeToken (canActivate) keeps the invariant.
LEMMA ValidateOneTimeTokenStep ==
    ASSUME NEW r \in Reset, NEW b \in Browser, NEW u \in User, IInv, ValidateOneTimeToken(r, b, u)
    PROVE  IInv'
BY MatchesStep, RefusesStep

\* ClearOneTimeToken (canActivate) keeps the invariant.
LEMMA ClearOneTimeTokenStep ==
    ASSUME NEW r \in Reset, IInv, ClearOneTimeToken(r)
    PROVE  IInv'
<1> USE NoneAssumption, KindAssumption, FaultAssumption DEF IInv, ForgotState, ResetState
<1>1. TypeOK'
  <2>1. reset' \in [Reset -> ResetState]
    BY DEF TypeOK, ClearOneTimeToken, SetToken
  <2>2. \A q \in Reset : reset'[q].at \in {"matched", "spent", "ok"} => reset'[q].token # None
    BY DEF TypeOK, ClearOneTimeToken, SetToken
  <2>3. token' \in [User -> Forgot \cup {None}]
    BY DEF TypeOK, ClearOneTimeToken, SetToken
  <2> QED  BY <2>1, <2>2, <2>3 DEF TypeOK, ClearOneTimeToken, SetToken
<1>2. TokensInHand'
  BY DEF TypeOK, TokensInHand, ClearOneTimeToken, SetToken
<1>3. PassedTogether'
  BY DEF TypeOK, PassedTogether, Passed, TokensInHand, ClearOneTimeToken, SetToken
<1>4. NewestLinkWorks'
  <2> SUFFICES ASSUME NEW v \in User, newest'[v] # None, token'[v] # newest'[v]
               PROVE  /\ token'[v] = None
                      /\ \E q \in Reset : /\ reset'[q].user = v
                                          /\ reset'[q].at \in {"spent", "ok", "failed"}
                                          /\ reset'[q].token = newest'[v] \/ {q, newest'[v]} \in met'
    BY DEF NewestLinkWorks
  <2>1. /\ newest' = newest /\ met' = met
        /\ reset'[r].at = "spent" /\ reset'[r].user = reset[r].user /\ reset'[r].token = reset[r].token
        /\ \A q \in Reset \ {r} : reset'[q] = reset[q]
    BY DEF TypeOK, ClearOneTimeToken, SetToken
  <2>2. CASE v = reset[r].user
    <3>1. token'[v] = None
      BY <2>2 DEF TypeOK, ClearOneTimeToken, SetToken
    <3>2. reset[r].token = newest[v] \/ {r, newest[v]} \in met
      BY <2>2 DEF TokensInHand, ClearOneTimeToken, SetToken
    <3> QED  BY <2>1, <2>2, <3>1, <3>2
  <2>3. CASE v # reset[r].user
    <3>1. token'[v] = token[v]
      BY <2>3 DEF TypeOK, ClearOneTimeToken, SetToken
    <3>2. reset[r].at = "matched"
      BY DEF ClearOneTimeToken, SetToken
    <3>3. token[v] = None
      BY <2>1, <3>1 DEF NewestLinkWorks
    <3>4. PICK q \in Reset : /\ reset[q].user = v
                             /\ reset[q].at \in {"spent", "ok", "failed"}
                             /\ reset[q].token = newest[v] \/ {q, newest[v]} \in met
      BY <2>1, <3>1 DEF NewestLinkWorks
    <3>5. q # r
      BY <3>2, <3>4
    <3> QED  BY <2>1, <3>1, <3>3, <3>4, <3>5
  <2> QED  BY <2>2, <2>3
<1> QED  BY <1>1, <1>2, <1>3, <1>4

\* UpdatePassword (updatePassword) keeps the invariant.
LEMMA UpdatePasswordStep ==
    ASSUME NEW r \in Reset, IInv, UpdatePassword(r)
    PROVE  IInv'
<1> USE NoneAssumption, KindAssumption, FaultAssumption DEF IInv, ForgotState, ResetState
<1>1. TypeOK'
  <2>1. reset' \in [Reset -> ResetState]
    BY DEF TypeOK, UpdatePassword
  <2>2. \A q \in Reset : reset'[q].at \in {"matched", "spent", "ok"} => reset'[q].token # None
    BY DEF TypeOK, UpdatePassword
  <2>3. password' \in [User -> Reset \cup {None}]
    BY DEF TypeOK, UpdatePassword
  <2> QED  BY <2>1, <2>2, <2>3 DEF TypeOK, UpdatePassword
<1>2. TokensInHand'
  BY DEF TypeOK, TokensInHand, UpdatePassword
<1>3. PassedTogether'
  BY DEF TypeOK, PassedTogether, Passed, TokensInHand, UpdatePassword
<1>4. NewestLinkWorks'
  <2> SUFFICES ASSUME NEW v \in User, newest'[v] # None, token'[v] # newest'[v]
               PROVE  /\ token'[v] = None
                      /\ \E q \in Reset : /\ reset'[q].user = v
                                          /\ reset'[q].at \in {"spent", "ok", "failed"}
                                          /\ reset'[q].token = newest'[v] \/ {q, newest'[v]} \in met'
    BY DEF NewestLinkWorks
  <2>1. newest' = newest /\ met' = met /\ token' = token
    BY DEF UpdatePassword
  <2>2. \A q \in Reset : /\ reset'[q].user = reset[q].user /\ reset'[q].token = reset[q].token
                         /\ reset[q].at \in {"spent", "ok", "failed"}
                            => reset'[q].at \in {"spent", "ok", "failed"}
    BY DEF TypeOK, UpdatePassword
  <2>3. token[v] = None
    BY <2>1 DEF NewestLinkWorks
  <2>4. PICK q \in Reset : /\ reset[q].user = v
                           /\ reset[q].at \in {"spent", "ok", "failed"}
                           /\ reset[q].token = newest[v] \/ {q, newest[v]} \in met
    BY <2>1 DEF NewestLinkWorks
  <2> QED  BY <2>1, <2>2, <2>3, <2>4
<1> QED  BY <1>1, <1>2, <1>3, <1>4

\* ResetFails (transform) keeps the invariant.
LEMMA ResetFailsStep ==
    ASSUME NEW r \in Reset, IInv, ResetFails(r)
    PROVE  IInv'
<1> USE NoneAssumption, KindAssumption, FaultAssumption DEF IInv, ForgotState, ResetState
<1>1. TypeOK'
  BY DEF TypeOK, ResetFails, Fault, Resetting
<1>2. TokensInHand'
  BY DEF TypeOK, TokensInHand, ResetFails, Fault, Resetting
<1>3. PassedTogether'
  BY DEF TypeOK, PassedTogether, Passed, TokensInHand, ResetFails, Fault, Resetting
<1>4. NewestLinkWorks'
  <2> SUFFICES ASSUME NEW v \in User, newest'[v] # None, token'[v] # newest'[v]
               PROVE  /\ token'[v] = None
                      /\ \E q \in Reset : /\ reset'[q].user = v
                                          /\ reset'[q].at \in {"spent", "ok", "failed"}
                                          /\ reset'[q].token = newest'[v] \/ {q, newest'[v]} \in met'
    BY DEF NewestLinkWorks
  <2>1. newest' = newest /\ met' = met /\ token' = token
    BY DEF ResetFails
  <2>2. \A q \in Reset : /\ reset'[q].user = reset[q].user /\ reset'[q].token = reset[q].token
                         /\ reset[q].at \in {"spent", "ok", "failed"}
                            => reset'[q].at \in {"spent", "ok", "failed"}
    BY DEF TypeOK, ResetFails
  <2>3. token[v] = None
    BY <2>1 DEF NewestLinkWorks
  <2>4. PICK q \in Reset : /\ reset[q].user = v
                           /\ reset[q].at \in {"spent", "ok", "failed"}
                           /\ reset[q].token = newest[v] \/ {q, newest[v]} \in met
    BY <2>1 DEF NewestLinkWorks
  <2> QED  BY <2>1, <2>2, <2>3, <2>4
<1> QED  BY <1>1, <1>2, <1>3, <1>4

\* Restart keeps the invariant.
LEMMA RestartStep ==
    ASSUME IInv, Restart
    PROVE  IInv'
<1> USE NoneAssumption, KindAssumption, FaultAssumption DEF IInv, ForgotState, ResetState
<1>1. TypeOK'
  BY DEF TypeOK, Restart, Fault, Resetting
<1>2. TokensInHand'
  BY DEF TypeOK, TokensInHand, Restart, Fault, Resetting
<1>3. PassedTogether'
  BY DEF TypeOK, PassedTogether, Passed, TokensInHand, Restart, Fault, Resetting
<1>4. NewestLinkWorks'
  <2> SUFFICES ASSUME NEW v \in User, newest'[v] # None, token'[v] # newest'[v]
               PROVE  /\ token'[v] = None
                      /\ \E q \in Reset : /\ reset'[q].user = v
                                          /\ reset'[q].at \in {"spent", "ok", "failed"}
                                          /\ reset'[q].token = newest'[v] \/ {q, newest'[v]} \in met'
    BY DEF NewestLinkWorks
  <2>1. newest' = newest /\ met' = met /\ token' = token
    BY DEF Restart
  <2>2. \A q \in Reset : /\ reset'[q].user = reset[q].user /\ reset'[q].token = reset[q].token
                         /\ reset[q].at \in {"spent", "ok", "failed"}
                            => reset'[q].at \in {"spent", "ok", "failed"}
    BY DEF TypeOK, Restart, Resetting
  <2>3. token[v] = None
    BY <2>1 DEF NewestLinkWorks
  <2>4. PICK q \in Reset : /\ reset[q].user = v
                           /\ reset[q].at \in {"spent", "ok", "failed"}
                           /\ reset[q].token = newest[v] \/ {q, newest[v]} \in met
    BY <2>1 DEF NewestLinkWorks
  <2> QED  BY <2>1, <2>2, <2>3, <2>4
<1> QED  BY <1>1, <1>2, <1>3, <1>4

\* What holds of the variables holds after a step that changes none.
LEMMA StutteringStep ==
    ASSUME IInv, UNCHANGED vars
    PROVE  IInv'
BY DEF vars, IInv, TypeOK, ForgotState, ResetState, TokensInHand, PassedTogether, Passed,
       NewestLinkWorks

\* Every step keeps the invariant.
LEMMA NextStep ==
    ASSUME IInv, [Next]_vars
    PROVE  IInv'
<1>1. ASSUME NEW f \in Forgot, NEW u \in User, UpdateOneTimeToken(f, u)
      PROVE  IInv'
  BY <1>1, UpdateOneTimeTokenStep
<1>2. ASSUME NEW f \in Forgot, SendMail(f) \/ SendMailFails(f)
      PROVE  IInv'
  BY <1>2, SendMailStep, SendMailFailsStep
<1>3. ASSUME NEW b \in Browser, NEW u \in User, ResetPasswordForm(b, u)
      PROVE  IInv'
  BY <1>3, ResetPasswordFormStep
<1>4. ASSUME NEW b \in Browser, CookieExpires(b)
      PROVE  IInv'
  BY <1>4, CookieExpiresStep
<1>5. ASSUME NEW r \in Reset, NEW b \in Browser, NEW u \in User, ValidateOneTimeToken(r, b, u)
      PROVE  IInv'
  BY <1>5, ValidateOneTimeTokenStep
<1>6. ASSUME NEW r \in Reset, ClearOneTimeToken(r) \/ UpdatePassword(r) \/ ResetFails(r)
      PROVE  IInv'
  BY <1>6, ClearOneTimeTokenStep, UpdatePasswordStep, ResetFailsStep
<1>7. CASE Restart
  BY <1>7, RestartStep
<1>8. CASE UNCHANGED vars
  BY <1>8, StutteringStep
<1> QED  BY <1>1, <1>2, <1>3, <1>4, <1>5, <1>6, <1>7, <1>8 DEF Next

\* In every state of every run of the requests, mails, forms and crashes the
\* invariant holds.
THEOREM Invariance == Spec => []IInv
<1>1. Init => IInv
  BY InitIInv
<1>2. IInv /\ [Next]_vars => IInv'
  BY NextStep
<1> QED  BY <1>1, <1>2, PTL DEF Spec

\* "Single-use password reset tokens": only two resets that were between
\* ValidateOttGuard and the answer at one time pass with the same token.
THEOREM SingleUse == Spec => []TokensAreSpent
<1>1. IInv => TokensAreSpent
  BY DEF IInv, PassedTogether, Passed, TokensAreSpent
<1> QED  BY <1>1, Invariance, PTL

\* forgotPassword: the newest mail's token is the row's until it is spent or
\* an older reset, under way at that time, clears it.
THEOREM NewestLink == Spec => []NewestLinkWorks
<1>1. IInv => NewestLinkWorks
  BY DEF IInv
<1> QED  BY <1>1, Invariance, PTL

=============================================================================
