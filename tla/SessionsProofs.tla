---------------------------- MODULE SessionsProofs ----------------------------
(***************************************************************************)
(* Proofs about Sessions, for any callback pages, refreshes and requests,  *)
(* any lifetime of the tokens and any time.                                *)
(*                                                                         *)
(* Whose token and cookies a browser holds is in the state (Halves): a     *)
(* token that was stored is that of an answer read to the end, and the     *)
(* cookies of the same answer are kept at least as long.  That a refresh   *)
(* passes once only is AloneOutlives: what a refresh signs, with nothing   *)
(* beside it, outlives the refresh token there is.                         *)
(***************************************************************************)
EXTENDS Sessions, TLAPS

\* What joining changes: of the others, only that they are alone.
LEMMA Joining ==
    ASSUME NEW g \in Grant, NEW access \in Instant, NEW of \in Grant \cup {None},
           TypeOK, Joins(g, access, of)
    PROVE  /\ grant' \in [Grant -> GrantState]
           /\ grant'[g].at = "signing" /\ grant'[g].access = access /\ grant'[g].refresh = 0
           /\ grant'[g].holder = of
           /\ grant'[g].alone <=> g \in Refresh /\ UnderWay = {}
           /\ \A h \in Grant \ {g} :
                 /\ grant'[h].at = grant[h].at
                 /\ grant'[h].access = grant[h].access
                 /\ grant'[h].refresh = grant[h].refresh
                 /\ grant'[h].holder = grant[h].holder
                 /\ grant'[h].alone => grant[h].alone /\ h \notin UnderWay
                 /\ h \notin UnderWay => grant'[h] = grant[h]
<1> USE TimeAssumption
<1>1. \A h \in Grant : grant[h] \in GrantState
  BY DEF TypeOK
<1>2. 0 \in Instant
  BY DEF Instant, TypeOK
<1>3. [at |-> "signing", access |-> access, refresh |-> 0, holder |-> of,
       alone |-> g \in Refresh /\ UnderWay = {}] \in GrantState
  BY <1>2 DEF GrantState
<1>4. grant' \in [Grant -> GrantState]
  BY <1>1, <1>3 DEF Joins, GrantState
<1>5. /\ grant'[g].at = "signing" /\ grant'[g].access = access /\ grant'[g].refresh = 0
      /\ grant'[g].holder = of
      /\ grant'[g].alone <=> g \in Refresh /\ UnderWay = {}
  BY DEF Joins
<1>6. ASSUME NEW h \in Grant \ {g}
      PROVE  /\ grant'[h].at = grant[h].at
             /\ grant'[h].access = grant[h].access
             /\ grant'[h].refresh = grant[h].refresh
             /\ grant'[h].holder = grant[h].holder
             /\ grant'[h].alone => grant[h].alone /\ h \notin UnderWay
             /\ h \notin UnderWay => grant'[h] = grant[h]
  BY <1>1 DEF Joins, GrantState
<1> QED  BY <1>4, <1>5, <1>6

\* Tick (time goes by) keeps the invariant.
LEMMA TickStep ==
    ASSUME IInv, Tick
    PROVE  IInv'
<1> USE GrantAssumption, TimeAssumption DEF IInv, Grant
<1>1. TypeOK'
  BY DEF TypeOK, GrantState, Instant, Tick
<1>2. InTime'
  BY DEF TypeOK, GrantState, Instant, InTime, Tick
<1>3. Halves'
  BY DEF TypeOK, GrantState, Instant, InTime, Halves, Tick
<1>4. AloneOutlives'
  BY DEF TypeOK, GrantState, Instant, InTime, Halves, AloneOutlives, Tick, UnderWay
<1>5. RefreshOnlyAcrossASecond'
  BY DEF TypeOK, GrantState, Instant, Halves, AloneOutlives, RefreshOnlyAcrossASecond, Tick
<1> QED  BY <1>1, <1>2, <1>3, <1>4, <1>5

\* Logout (logout) keeps the invariant.
LEMMA LogoutStep ==
    ASSUME IInv, Logout
    PROVE  IInv'
<1> USE GrantAssumption, TimeAssumption DEF IInv, Grant
<1>1. TypeOK'
  BY DEF TypeOK, GrantState, Instant, Logout, NoCookie, NoRefresh
<1>2. InTime'
  BY DEF TypeOK, GrantState, Instant, InTime, Logout, NoCookie, NoRefresh
<1>3. Halves'
  BY DEF TypeOK, GrantState, Instant, InTime, Halves, Logout, NoCookie, NoRefresh
<1>4. AloneOutlives'
  BY DEF TypeOK, GrantState, Instant, InTime, Halves, AloneOutlives, Logout, NoCookie, NoRefresh, UnderWay
<1>5. RefreshOnlyAcrossASecond'
  BY DEF TypeOK, GrantState, Instant, Halves, AloneOutlives, RefreshOnlyAcrossASecond, Logout, NoCookie, NoRefresh
<1> QED  BY <1>1, <1>2, <1>3, <1>4, <1>5

\* Authenticate (authenticated) keeps the invariant.
LEMMA AuthenticateStep ==
    ASSUME NEW l \in Load, IInv, Authenticate(l)
    PROVE  IInv'
<1> USE GrantAssumption, TimeAssumption DEF IInv, Grant
<1>1. now + Life \in Instant /\ None \in Grant \cup {None}
  BY DEF TypeOK, Instant
<1>2. Joins(l, now + Life, None) /\ l \notin Refresh /\ l \notin UnderWay /\ grant[l].at = "idle"
  BY DEF Authenticate, UnderWay
<1>4. /\ grant' \in [Grant -> GrantState]
      /\ \A h \in Grant \ {l} :
            /\ grant'[h].at = grant[h].at
            /\ grant'[h].access = grant[h].access
            /\ grant'[h].refresh = grant[h].refresh
            /\ grant'[h].holder = grant[h].holder
            /\ grant'[h].alone => grant[h].alone /\ h \notin UnderWay
  BY <1>1, <1>2, Joining
<1>5. /\ grant'[l].at = "signing" /\ grant'[l].access = now + Life
      /\ grant'[l].refresh = 0 /\ grant'[l].holder = None
      /\ grant'[l].alone = FALSE
  <2>1. grant'[l].alone \in BOOLEAN
    BY <1>4 DEF GrantState
  <2> QED  BY <1>1, <1>2, <2>1, Joining
<1>6. UNCHANGED <<now, token, fingerprint, refreshToken, call, holder>>
  BY DEF Authenticate
<1>7. TypeOK'
  BY <1>4, <1>6 DEF TypeOK, GrantState, Instant
<1>8. InTime'
  BY <1>4, <1>5, <1>6 DEF TypeOK, Instant, InTime
<1>9. Halves'
  BY <1>2, <1>4, <1>5, <1>6 DEF TypeOK, GrantState, Instant, Halves
<1>10. AloneOutlives'
  BY <1>2, <1>4, <1>5, <1>6 DEF TypeOK, GrantState, Halves, AloneOutlives, UnderWay
<1>11. RefreshOnlyAcrossASecond'
  BY <1>2, <1>4, <1>5, <1>6 DEF TypeOK, GrantState, Halves, RefreshOnlyAcrossASecond
<1> QED  BY <1>7, <1>8, <1>9, <1>10, <1>11

\* SignRefreshToken (authenticated) keeps the invariant.
LEMMA SignRefreshTokenStep ==
    ASSUME NEW l \in Load, IInv, SignRefreshToken(l)
    PROVE  IInv'
<1> USE GrantAssumption, TimeAssumption DEF IInv, Grant
<1>1. TypeOK'
  <2>1. grant[l] \in GrantState /\ now + Life \in Instant
    BY DEF TypeOK, Instant
  <2>2. [grant[l] EXCEPT !.at = "signed", !.refresh = now + Life] \in GrantState
    BY <2>1 DEF GrantState, Instant, NoGrant
  <2>3. grant' = [grant EXCEPT ![l] = [grant[l] EXCEPT !.at = "signed", !.refresh = now + Life]]
    BY <2>1 DEF TypeOK, GrantState, SignRefreshToken
  <2> QED  BY <2>2, <2>3 DEF TypeOK, SignRefreshToken
<1>2. InTime'
  BY DEF TypeOK, GrantState, Instant, InTime, SignRefreshToken
<1>3. Halves'
  BY DEF TypeOK, GrantState, Instant, InTime, Halves, SignRefreshToken
<1>4. AloneOutlives'
  BY DEF TypeOK, GrantState, Instant, InTime, Halves, AloneOutlives, SignRefreshToken, UnderWay
<1>5. RefreshOnlyAcrossASecond'
  BY DEF TypeOK, GrantState, Instant, Halves, AloneOutlives, RefreshOnlyAcrossASecond, SignRefreshToken
<1> QED  BY <1>1, <1>2, <1>3, <1>4, <1>5

\* LoadRefused (callback page) keeps the invariant.
LEMMA LoadRefusedStep ==
    ASSUME NEW l \in Load, IInv, LoadRefused(l)
    PROVE  IInv'
<1> USE GrantAssumption, TimeAssumption DEF IInv, Grant
<1>1. TypeOK'
  BY DEF TypeOK, GrantState, Instant, LoadRefused, NoToken, UnderWay
<1>2. InTime'
  BY DEF TypeOK, GrantState, Instant, InTime, LoadRefused, NoToken, UnderWay
<1>3. Halves'
  BY DEF TypeOK, GrantState, Instant, InTime, Halves, LoadRefused, NoToken, UnderWay
<1>4. AloneOutlives'
  BY DEF TypeOK, GrantState, Instant, InTime, Halves, AloneOutlives, LoadRefused, NoToken, UnderWay
<1>5. RefreshOnlyAcrossASecond'
  BY DEF TypeOK, GrantState, Instant, Halves, AloneOutlives, RefreshOnlyAcrossASecond, LoadRefused, NoToken, UnderWay
<1> QED  BY <1>1, <1>2, <1>3, <1>4, <1>5

\* CheckTokens (refresh) keeps the invariant.
LEMMA CheckTokensStep ==
    ASSUME NEW r \in Refresh, IInv, CheckTokens(r)
    PROVE  IInv'
<1> USE GrantAssumption, TimeAssumption DEF IInv, Grant
<1>1. grant[r].at = "idle" /\ UNCHANGED <<now, token, fingerprint, refreshToken, call, holder>>
  BY DEF CheckTokens
<1>2. CASE Checked
  <2>1. 0 \in Instant /\ holder \in Grant \cup {None}
    BY DEF TypeOK, Instant
  <2>2. Joins(r, 0, holder) /\ r \notin UnderWay
    BY <1>1, <1>2 DEF CheckTokens, UnderWay
  <2>4. /\ grant' \in [Grant -> GrantState]
        /\ \A h \in Grant \ {r} :
              /\ grant'[h].at = grant[h].at
              /\ grant'[h].access = grant[h].access
              /\ grant'[h].refresh = grant[h].refresh
              /\ grant'[h].holder = grant[h].holder
              /\ grant'[h].alone => grant[h].alone /\ h \notin UnderWay
              /\ h \notin UnderWay => grant'[h] = grant[h]
    BY <2>1, <2>2, Joining
  <2>5. /\ grant'[r].at = "signing" /\ grant'[r].access = 0
        /\ grant'[r].refresh = 0 /\ grant'[r].holder = holder
        /\ grant'[r].alone => UnderWay = {}
    BY <2>1, <2>2, Joining
  <2>6. TypeOK'
    BY <1>1, <2>4 DEF TypeOK
  <2>7. InTime'
    BY <1>1, <2>4, <2>5 DEF TypeOK, Instant, InTime
  <2>8. holder # None => holder \in Grant \ {r} /\ grant[holder].at = "done" /\ holder \notin UnderWay
    BY <1>1 DEF TypeOK, Halves, UnderWay
  <2>9. Halves'
    <3>1. token.of \in Grant \cup {None} /\ fingerprint.of \in Grant \cup {None}
      BY DEF TypeOK
    <3>2. token.of # None => /\ grant'[token.of].at = "done"
                             /\ token.expires = grant'[token.of].access
      BY <1>1, <2>4, <3>1 DEF Halves
    <3>3. fingerprint.of # None => fingerprint.of \in Grant \ {r}
      BY <1>1, <3>1 DEF Halves
    <3>4. /\ fingerprint.of # None => grant'[fingerprint.of].at \in {"cookies", "done", "cut"}
          /\ fingerprint.of # None /\ grant'[fingerprint.of].at # "cut" =>
                /\ grant'[fingerprint.of].access <= fingerprint.until
                /\ fingerprint.of \in Load => /\ grant'[fingerprint.of].access <= refreshToken.until
                                             /\ grant'[fingerprint.of].refresh = refreshToken.expires
      BY <2>4, <3>3 DEF Halves
    <3>5. \A g \in Grant : grant'[g].holder # None => grant'[grant'[g].holder].at = "done"
      <4> SUFFICES ASSUME NEW g \in Grant, grant'[g].holder # None
                   PROVE  grant'[grant'[g].holder].at = "done"
        OBVIOUS
      <4>1. CASE g = r
        BY <2>4, <2>5, <2>8, <4>1
      <4>2. CASE g # r
        <5>1. grant'[g].holder = grant[g].holder /\ grant[grant[g].holder].at = "done"
          BY <2>4, <4>2 DEF Halves
        <5>2. grant[g].holder \in Grant \ {r}
          BY <1>1, <5>1 DEF TypeOK, GrantState
        <5> QED  BY <2>4, <5>1, <5>2
      <4> QED  BY <4>1, <4>2
    <3> QED  BY <1>1, <3>2, <3>4, <3>5 DEF Halves
  <2>10. AloneOutlives'
    <3>1. \A q \in Refresh : grant'[q].alone /\ q \in UnderWay' => UnderWay' = {q}
      BY <2>2, <2>4, <2>5 DEF UnderWay, AloneOutlives
    <3>2. \A q \in Refresh : grant'[q].alone /\ grant'[q].at \in {"signed", "cookies"} =>
             refreshToken'.expires <= grant'[q].access
      BY <1>1, <2>4, <2>5 DEF UnderWay, AloneOutlives
    <3>3. holder' \in Refresh /\ grant'[holder'].alone => refreshToken'.expires <= token'.expires
      BY <1>1, <2>4, <2>8 DEF AloneOutlives
    <3> QED  BY <3>1, <3>2, <3>3 DEF AloneOutlives
  <2>11. RefreshOnlyAcrossASecond'
    <3> SUFFICES ASSUME NEW q \in Refresh, grant'[q].holder # None,
                        grant'[q].at \in {"signing", "signed", "cookies", "done"}
                 PROVE  LET h == grant'[q].holder IN
                        IF h \in Load THEN grant'[h].access < grant'[h].refresh ELSE ~grant'[h].alone
      BY DEF RefreshOnlyAcrossASecond
    <3>1. CASE q = r
      <4>1. grant'[q].holder = holder /\ holder # None
        BY <2>5, <3>1
      <4>2. grant'[holder] = grant[holder]
        BY <2>4, <2>8, <4>1
      <4>3. /\ token.of = holder /\ token.expires = grant[holder].access /\ token.expires \in Nat
            /\ fingerprint.of = holder /\ grant[holder].at # "cut" /\ now \in Nat
            /\ refreshToken.expires \in Nat
        BY <2>8, <4>1 DEF Halves, TypeOK, Instant
      <4>4. token.expires <= now /\ now < refreshToken.expires
        BY <1>2, <4>3 DEF Checked
      <4>5. CASE holder \in Load
        BY <4>1, <4>2, <4>3, <4>4, <4>5 DEF Halves
      <4>6. CASE holder \in Refresh
        BY <4>1, <4>2, <4>3, <4>4, <4>6 DEF AloneOutlives
      <4> QED  BY <2>8, <4>1, <4>5, <4>6
    <3>2. CASE q # r
      <4>1. grant[q].holder = grant'[q].holder /\ grant[q].at = grant'[q].at
        BY <2>4, <3>2
      <4>2. /\ grant[q].holder \in Grant /\ grant[grant[q].holder].at = "done"
        BY <4>1 DEF TypeOK, GrantState, Halves
      <4>3. grant'[grant[q].holder] = grant[grant[q].holder]
        BY <1>1, <2>4, <4>2 DEF UnderWay
      <4> QED  BY <4>1, <4>3 DEF RefreshOnlyAcrossASecond
    <3> QED  BY <3>1, <3>2
  <2> QED  BY <2>6, <2>7, <2>9, <2>10, <2>11
<1>3. CASE ~Checked
  <2>1. grant' = [grant EXCEPT ![r].at = "refused"]
    BY <1>3 DEF CheckTokens
  <2>2. TypeOK'
    BY <1>1, <2>1 DEF TypeOK, GrantState
  <2>3. InTime'
    BY <1>1, <2>1 DEF TypeOK, InTime
  <2>4. Halves'
    BY <1>1, <2>1 DEF TypeOK, GrantState, Instant, Halves
  <2>5. AloneOutlives'
    BY <1>1, <2>1 DEF TypeOK, GrantState, AloneOutlives, UnderWay
  <2>6. RefreshOnlyAcrossASecond'
    BY <1>1, <2>1 DEF TypeOK, GrantState, RefreshOnlyAcrossASecond
  <2> QED  BY <2>2, <2>3, <2>4, <2>5, <2>6
<1> QED  BY <1>2, <1>3

\* SignAccessToken (refresh) keeps the invariant.
LEMMA SignAccessTokenStep ==
    ASSUME NEW r \in Refresh, IInv, SignAccessToken(r)
    PROVE  IInv'
<1> USE GrantAssumption, TimeAssumption DEF IInv, Grant
<1>1. TypeOK'
  <2>1. grant[r] \in GrantState /\ now + Life \in Instant
    BY DEF TypeOK, Instant
  <2>2. [grant[r] EXCEPT !.at = "signed", !.access = now + Life] \in GrantState
    BY <2>1 DEF GrantState, Instant, NoGrant
  <2>3. grant' = [grant EXCEPT ![r] = [grant[r] EXCEPT !.at = "signed", !.access = now + Life]]
    BY <2>1 DEF TypeOK, GrantState, SignAccessToken
  <2> QED  BY <2>2, <2>3 DEF TypeOK, SignAccessToken
<1>2. InTime'
  BY DEF TypeOK, GrantState, Instant, InTime, SignAccessToken
<1>3. Halves'
  BY DEF TypeOK, GrantState, Instant, InTime, Halves, SignAccessToken
<1>4. AloneOutlives'
  BY DEF TypeOK, GrantState, Instant, InTime, Halves, AloneOutlives, SignAccessToken, UnderWay
<1>5. RefreshOnlyAcrossASecond'
  BY DEF TypeOK, GrantState, Instant, Halves, AloneOutlives, RefreshOnlyAcrossASecond, SignAccessToken
<1> QED  BY <1>1, <1>2, <1>3, <1>4, <1>5

\* SendTokens (sendTokens) keeps the invariant.
LEMMA SendTokensStep ==
    ASSUME NEW g \in Grant, IInv, SendTokens(g)
    PROVE  IInv'
<1> USE GrantAssumption, TimeAssumption DEF IInv, Grant
<1>1. TypeOK'
  BY DEF TypeOK, GrantState, Instant, SendTokens
<1>2. InTime'
  BY DEF TypeOK, GrantState, Instant, InTime, SendTokens
<1>3. Halves'
  BY DEF TypeOK, GrantState, Instant, InTime, Halves, SendTokens
<1>4. AloneOutlives'
  BY DEF TypeOK, GrantState, Instant, InTime, Halves, AloneOutlives, SendTokens, UnderWay
<1>5. RefreshOnlyAcrossASecond'
  BY DEF TypeOK, GrantState, Instant, Halves, AloneOutlives, RefreshOnlyAcrossASecond, SendTokens
<1> QED  BY <1>1, <1>2, <1>3, <1>4, <1>5

\* StoreToken (callback page) keeps the invariant.
LEMMA StoreTokenStep ==
    ASSUME NEW g \in Grant, IInv, StoreToken(g)
    PROVE  IInv'
<1> USE GrantAssumption, TimeAssumption DEF IInv, Grant
<1>1. TypeOK'
  BY DEF TypeOK, GrantState, Instant, StoreToken, UnderWay
<1>2. InTime'
  BY DEF TypeOK, GrantState, Instant, InTime, StoreToken, UnderWay
<1>3. Halves'
  BY DEF TypeOK, GrantState, Instant, InTime, Halves, StoreToken, UnderWay
<1>4. AloneOutlives'
  BY DEF TypeOK, GrantState, Instant, InTime, Halves, AloneOutlives, StoreToken, UnderWay
<1>5. RefreshOnlyAcrossASecond'
  BY DEF TypeOK, GrantState, Instant, Halves, AloneOutlives, RefreshOnlyAcrossASecond, StoreToken, UnderWay
<1> QED  BY <1>1, <1>2, <1>3, <1>4, <1>5

\* Leave (callback page) keeps the invariant.
LEMMA LeaveStep ==
    ASSUME NEW g \in Grant, IInv, Leave(g)
    PROVE  IInv'
<1> USE GrantAssumption, TimeAssumption DEF IInv, Grant
<1>1. TypeOK'
  <2>1. grant[g] \in GrantState /\ now + Life \in Instant
    BY DEF TypeOK, Instant
  <2>2. NoGrant("cut") \in GrantState
    BY <2>1 DEF GrantState, Instant, NoGrant
  <2>3. grant' = [grant EXCEPT ![g] = NoGrant("cut")]
    BY <2>1 DEF TypeOK, GrantState, Leave
  <2> QED  BY <2>2, <2>3 DEF TypeOK, Leave
<1>2. InTime'
  BY DEF TypeOK, GrantState, Instant, InTime, Leave, UnderWay, NoGrant
<1>3. Halves'
  BY DEF TypeOK, GrantState, Instant, InTime, Halves, Leave, UnderWay, NoGrant
<1>4. AloneOutlives'
  BY DEF TypeOK, GrantState, Instant, InTime, Halves, AloneOutlives, Leave, UnderWay, NoGrant
<1>5. RefreshOnlyAcrossASecond'
  BY DEF TypeOK, GrantState, Instant, Halves, AloneOutlives, RefreshOnlyAcrossASecond, Leave, UnderWay, NoGrant
<1> QED  BY <1>1, <1>2, <1>3, <1>4, <1>5

\* No token, no cookie, no request.
LEMMA InitIInv == Init => IInv
BY GrantAssumption, TimeAssumption
   DEF Init, IInv, TypeOK, GrantState, Instant, NoToken, NoCookie, NoRefresh, NoGrant, Grant,
       InTime, Halves, AloneOutlives, UnderWay, RefreshOnlyAcrossASecond

\* The requests to the other services touch no token.
LEMMA CallStep ==
    ASSUME IInv, call' \in [Call -> [at : {"idle", "queued", "lost", "valid", "invalid",
                                         "accepted", "refused", "timeout"},
                                   token : [of : Grant \cup {None}, expires : Instant],
                                   fingerprint : Grant \cup {None}]],
           UNCHANGED <<now, token, fingerprint, refreshToken, grant, holder>>
    PROVE  IInv'
BY DEF IInv, TypeOK, InTime, Halves, AloneOutlives, UnderWay, RefreshOnlyAcrossASecond

\* Send, Validate, Answered, TimesOut and Lose (permission guard) keep the
\* invariant.
LEMMA GuardSteps ==
    ASSUME NEW c \in Call, IInv,
           \/ Send(c) \/ Validate(c) \/ TimesOut(c) \/ Lose(c)
           \/ \E roles \in {{"USER"}, {"ADMIN"}} : Answered(c, roles)
    PROVE  IInv'
<1>1. NoToken \in [of : Grant \cup {None}, expires : Instant]
  BY TimeAssumption DEF NoToken, Instant
<1>2. ASSUME NEW place \in {"lost", "valid", "invalid", "accepted", "refused", "timeout"},
             Goto(c, place)
      PROVE  IInv'
  <2>1. [at |-> place, token |-> NoToken, fingerprint |-> None]
           \in [at : {"idle", "queued", "lost", "valid", "invalid", "accepted", "refused", "timeout"},
               token : [of : Grant \cup {None}, expires : Instant],
               fingerprint : Grant \cup {None}]
    BY <1>1
  <2> QED  BY <1>2, <2>1, CallStep DEF Goto, IInv, TypeOK
<1>3. ASSUME Send(c) PROVE IInv'
  <2>1. CASE fingerprint.until <= now
    BY <1>2, <1>3, <2>1 DEF Send
  <2>2. CASE ~(fingerprint.until <= now)
    <3>1. [at |-> "queued", token |-> token, fingerprint |-> fingerprint.of]
             \in [at : {"idle", "queued", "lost", "valid", "invalid", "accepted", "refused", "timeout"},
                 token : [of : Grant \cup {None}, expires : Instant],
                 fingerprint : Grant \cup {None}]
      BY DEF IInv, TypeOK
    <3> QED  BY <1>3, <2>2, <3>1, CallStep DEF Send, IInv, TypeOK
  <2> QED  BY <2>1, <2>2
<1>4. ASSUME NEW roles \in {{"USER"}, {"ADMIN"}}, Answered(c, roles) PROVE IInv'
  <2>1. Goto(c, "accepted") \/ Goto(c, "refused")
    BY <1>4 DEF Answered
  <2> QED  BY <1>2, <2>1
<1>5. ASSUME Validate(c) PROVE IInv'
  <2>1. Goto(c, "valid") \/ Goto(c, "invalid")
    BY <1>5 DEF Validate
  <2> QED  BY <1>2, <2>1
<1>6. ASSUME TimesOut(c) \/ Lose(c) PROVE IInv'
  BY <1>2, <1>6 DEF TimesOut, Lose
<1> QED  BY <1>3, <1>4, <1>5, <1>6

\* The invariant is inductive.
LEMMA NextIInv == IInv /\ [Next]_vars => IInv'
<1> SUFFICES ASSUME IInv, [Next]_vars PROVE IInv'
  OBVIOUS
<1>1. CASE Tick
  BY <1>1, TickStep
<1>2. CASE Logout
  BY <1>2, LogoutStep
<1>3. ASSUME NEW l \in Load, Authenticate(l) \/ SignRefreshToken(l) \/ LoadRefused(l) PROVE IInv'
  BY <1>3, AuthenticateStep, SignRefreshTokenStep, LoadRefusedStep
<1>4. ASSUME NEW r \in Refresh, CheckTokens(r) \/ SignAccessToken(r) PROVE IInv'
  BY <1>4, CheckTokensStep, SignAccessTokenStep
<1>5. ASSUME NEW g \in Grant, SendTokens(g) \/ StoreToken(g) \/ Leave(g) PROVE IInv'
  BY <1>5, SendTokensStep, StoreTokenStep, LeaveStep
<1>6. ASSUME NEW c \in Call, Send(c) \/ Validate(c) \/ TimesOut(c) \/ Lose(c) PROVE IInv'
  BY <1>6, GuardSteps
<1>7. ASSUME NEW c \in Call, \E roles \in {{"USER"}, {"ADMIN"}} : Answered(c, roles) PROVE IInv'
  BY <1>7, GuardSteps
<1>8. CASE UNCHANGED vars
  BY <1>8 DEF vars, IInv, TypeOK, InTime, Halves, AloneOutlives, UnderWay, RefreshOnlyAcrossASecond
<1> QED  BY <1>1, <1>2, <1>3, <1>4, <1>5, <1>6, <1>7, <1>8 DEF Next

\* IInv holds in every reachable state.
THEOREM Invariance == Spec => []IInv
<1> QED  BY InitIInv, NextIInv, PTL DEF Spec

\* Every variable keeps its type, however large the instance is.
THEOREM TypeCorrect == Spec => []TypeOK
<1>1. IInv => TypeOK
  BY DEF IInv
<1> QED  BY <1>1, Invariance, PTL

\* Undisturbed, token and cookies are of one answer, the cookies stay at least
\* as long as the token is good, and the dashboard lets the user in.
THEOREM SignedIn == Spec => []WhoSignedInIsSignedIn
<1>1. IInv => WhoSignedInIsSignedIn
  <2> SUFFICES ASSUME IInv, holder # None
               PROVE  /\ token.of = holder /\ fingerprint.of = holder
                      /\ now < token.expires => /\ fingerprint.until > now
                                                /\ holder \in Load => LetIn
    BY DEF WhoSignedInIsSignedIn
  <2>1. /\ token.of = holder /\ fingerprint.of = holder /\ holder \in Grant
        /\ grant[holder].at = "done" /\ token.expires = grant[holder].access
    BY DEF IInv, TypeOK, Halves
  <2>2. /\ token.expires <= fingerprint.until
        /\ holder \in Load => token.expires <= refreshToken.until
    BY <2>1 DEF IInv, Halves
  <2>3. /\ now \in Nat /\ token.expires \in Nat /\ fingerprint.until \in Nat
        /\ refreshToken.until \in Nat
    BY TimeAssumption DEF IInv, TypeOK, Instant
  <2> QED  BY <2>1, <2>2, <2>3 DEF LetIn
<1> QED  BY <1>1, Invariance, PTL

\* No refresh passes but once and across a second, or after company.
THEOREM RefreshedOnce == Spec => []RefreshOnlyAcrossASecond
<1>1. IInv => RefreshOnlyAcrossASecond
  BY DEF IInv
<1> QED  BY <1>1, Invariance, PTL

=============================================================================
