------------------------------ MODULE Sessions ------------------------------
(***************************************************************************)
(* The tokens of one browser.  An exchange of a code signs an access token *)
(* and then a refresh token, and answers with two cookies and, in the      *)
(* body, the access token, which the page keeps in local storage; tabs     *)
(* share all three.  A refresh signs a new access token.  Requests to the  *)
(* other services carry access token and fingerprint, and                  *)
(* PermissionRequestGuard asks the auth service about them over the bus.   *)
(*                                                                         *)
(* Time goes by in seconds, as the tokens count it.  A fingerprint is      *)
(* named by the request that generates it.                                 *)
(***************************************************************************)
EXTENDS Naturals

CONSTANTS
    Load,        \* loads of the callback page, each with a code
    Refresh,     \* requests POST /auth/refresh
    Call,        \* requests to the other services
    Admin,       \* is the user one?
    Life,        \* TOKEN_EXPIRY_TIME of both tokens
    Grace,       \* five minutes
    None,
    MaxNow       \* bound on time

ASSUME GrantAssumption == Load \cap Refresh = {} /\ None \notin Load \cup Refresh
ASSUME TimeAssumption == Life \in Nat \ {0} /\ Grace \in Nat /\ MaxNow \in Nat
ASSUME AdminAssumption == Admin \in BOOLEAN

Grant == Load \cup Refresh

VARIABLES
    now,
    token,       \* local storage: whose token, and when it expires
    fingerprint, \* the cookie: whose, and until when it is kept
    refreshToken,\* the cookie: when its token expires, and until when it is kept
    grant,       \* requests for tokens, when what they sign expires, what they met
    call,        \* requests to the other services, and what they carry
    holder       \* whose token is in local storage, if nothing disturbed it

vars == <<now, token, fingerprint, refreshToken, grant, call, holder>>

\* "undefined" is what the page stores when there is no token in an answer.
NoToken == [of |-> None, expires |-> 0]
NoCookie == [of |-> None, until |-> 0]
NoRefresh == [expires |-> 0, until |-> 0]
NoGrant(place) == [at |-> place, access |-> 0, refresh |-> 0, holder |-> None, alone |-> FALSE]

Instant == 0..(MaxNow + Life)

GrantState == [at : {"idle", "signing", "signed", "cookies", "done", "refused", "cut"},
               access : Instant, refresh : Instant, holder : Grant \cup {None},
               alone : BOOLEAN]

TypeOK ==
    /\ now \in 0..MaxNow
    /\ token \in [of : Grant \cup {None}, expires : Instant]
    /\ fingerprint \in [of : Grant \cup {None}, until : Instant]
    /\ refreshToken \in [expires : Instant, until : Instant]
    /\ grant \in [Grant -> GrantState]
    /\ call \in [Call -> [at : {"idle", "queued", "lost", "valid", "invalid", "accepted", "refused", "timeout"},
                          token : [of : Grant \cup {None}, expires : Instant],
                          fingerprint : Grant \cup {None}]]
    /\ holder \in Grant \cup {None}

Init ==
    /\ now = 0
    /\ token = NoToken
    /\ fingerprint = NoCookie
    /\ refreshToken = NoRefresh
    /\ grant = [g \in Grant |-> NoGrant("idle")]
    /\ call = [c \in Call |-> [at |-> "idle", token |-> NoToken, fingerprint |-> None]]
    /\ holder = None

UnderWay == {g \in Grant : grant[g].at \in {"signing", "signed", "cookies"}}

Tick ==
    /\ now < MaxNow
    /\ now' = now + 1
    /\ UNCHANGED <<token, fingerprint, refreshToken, grant, call, holder>>

\* A request for tokens comes under way: a refresh is alone as long as there is
\* no other beside it.
Joins(g, access, of) ==
    LET request == [at |-> "signing", access |-> access, refresh |-> 0, holder |-> of,
                    alone |-> g \in Refresh /\ UnderWay = {}]
    IN  grant' = [h \in Grant |-> IF h = g THEN request
                                  ELSE IF h \in UnderWay THEN [grant[h] EXCEPT !.alone = FALSE]
                                  ELSE grant[h]]

-----------------------------------------------------------------------------
(* Tokens.                                                                 *)

\* authenticated: the access token is signed first.
Authenticate(l) ==
    /\ grant[l].at = "idle"
    /\ Joins(l, now + Life, None)
    /\ UNCHANGED <<now, token, fingerprint, refreshToken, call, holder>>

\* As SignRefreshToken, with milliseconds for seconds.
SignForLong(l) ==
    /\ l \in Load
    /\ grant[l].at = "signing"
    /\ grant' = [grant EXCEPT ![l].at = "signed", ![l].refresh = now + 1000 * Life]
    /\ UNCHANGED <<now, token, fingerprint, refreshToken, call, holder>>

SignRefreshToken(l) ==
    /\ l \in Load
    /\ grant[l].at = "signing"
    /\ grant' = [grant EXCEPT ![l].at = "signed", ![l].refresh = now + Life]
    /\ UNCHANGED <<now, token, fingerprint, refreshToken, call, holder>>

\* As Checked, for access tokens that are still good, too.
CheckedLoosely == now < refreshToken.expires

\* refresh as far as its checks: a refresh token that has not expired, and an
\* access token that has, at most five minutes ago.
Checked == /\ now < refreshToken.expires
           /\ now >= token.expires
           /\ now - token.expires <= Grace

CheckTokens(r) ==
    /\ grant[r].at = "idle"
    /\ refreshToken.until > now
    /\ token.of # None
    /\ IF Checked THEN Joins(r, 0, holder)
       ELSE grant' = [grant EXCEPT ![r].at = "refused"]
    /\ UNCHANGED <<now, token, fingerprint, refreshToken, call, holder>>

\* The user was found and the fingerprint hashed.
SignAccessToken(r) ==
    /\ r \in Refresh
    /\ grant[r].at = "signing"
    /\ grant' = [grant EXCEPT ![r].at = "signed", ![r].access = now + Life]
    /\ UNCHANGED <<now, token, fingerprint, refreshToken, call, holder>>

\* As SendTokens, with a fingerprint cookie that has no age left when it comes.
SendUntilSigned(g) ==
    /\ grant[g].at = "signed"
    /\ grant' = [grant EXCEPT ![g].at = "cookies"]
    /\ fingerprint' = [of |-> g, until |-> now]
    /\ refreshToken' = IF g \in Load THEN [expires |-> grant[g].refresh, until |-> now + Life]
                       ELSE refreshToken
    /\ holder' = None
    /\ UNCHANGED <<now, token, call>>

\* sendTokens, refreshToken: the head of the response reaches the browser.
\* A refresh leaves the refresh token as it is.
SendTokens(g) ==
    /\ grant[g].at = "signed"
    /\ grant' = [grant EXCEPT ![g].at = "cookies"]
    /\ fingerprint' = [of |-> g, until |-> now + Life]
    /\ refreshToken' = IF g \in Load THEN [expires |-> grant[g].refresh, until |-> now + Life]
                       ELSE refreshToken
    /\ holder' = None
    /\ UNCHANGED <<now, token, call>>

\* The page has read the body.
StoreToken(g) ==
    /\ grant[g].at = "cookies"
    /\ grant' = [grant EXCEPT ![g].at = "done"]
    /\ token' = [of |-> g, expires |-> grant[g].access]
    /\ holder' = IF fingerprint.of = g /\ UnderWay = {g} THEN g ELSE None
    /\ UNCHANGED <<now, fingerprint, refreshToken, call>>

\* The page is left before that.
Leave(g) ==
    /\ g \in UnderWay
    /\ grant' = [grant EXCEPT ![g] = NoGrant("cut")]
    /\ UNCHANGED <<now, token, fingerprint, refreshToken, call, holder>>

\* The code is spent or has expired: the page stores what is not there.
LoadRefused(l) ==
    /\ grant[l].at = "idle"
    /\ grant' = [grant EXCEPT ![l].at = "refused"]
    /\ token' = NoToken
    /\ holder' = None
    /\ UNCHANGED <<now, fingerprint, refreshToken, call>>

\* The cookies go, the access token stays.
Logout ==
    /\ fingerprint' = NoCookie
    /\ refreshToken' = NoRefresh
    /\ holder' = None
    /\ UNCHANGED <<now, token, grant, call>>

-----------------------------------------------------------------------------
(* Requests to the other services.                                         *)

\* What a request carries matters until it was looked at.
Goto(c, place) ==
    /\ call' = [call EXCEPT ![c] = [at |-> place, token |-> NoToken, fingerprint |-> None]]
    /\ UNCHANGED <<now, token, fingerprint, refreshToken, grant, holder>>

\* getTokenAndFingerprint.
Send(c) ==
    /\ call[c].at = "idle"
    /\ IF fingerprint.until <= now THEN Goto(c, "refused")
       ELSE /\ call' = [call EXCEPT ![c] = [at |-> "queued", token |-> token, fingerprint |-> fingerprint.of]]
            /\ UNCHANGED <<now, token, fingerprint, refreshToken, grant, holder>>

\* AccessTokenStrategy: the token is good and is bound to the fingerprint.
Good(c) == /\ call[c].token.of # None
           /\ now < call[c].token.expires
           /\ call[c].token.of = call[c].fingerprint

Validate(c) ==
    /\ call[c].at = "queued"
    /\ Goto(c, IF Good(c) THEN "valid" ELSE "invalid")

\* RolesGuard: what is for users is for the admin as well.
RoleIn(roles) == Admin \/ "USER" \in roles

Answered(c, roles) ==
    /\ call[c].at \in {"valid", "invalid"}
    /\ Goto(c, IF call[c].at = "valid" /\ RoleIn(roles) THEN "accepted" ELSE "refused")

\* As TimesOut, for messages that were delivered.
TimesOutInQueue(c) ==
    /\ call[c].at \in {"queued", "valid", "invalid"}
    /\ Goto(c, "timeout")

\* 10 s without an answer; one that comes later is dropped.
TimesOut(c) ==
    /\ call[c].at \in {"queued", "lost", "valid", "invalid"}
    /\ Goto(c, "timeout")

\* The auth service ends with the message in hand.
Lose(c) ==
    /\ call[c].at = "queued"
    /\ Goto(c, "lost")

-----------------------------------------------------------------------------
Next ==
    \/ Tick \/ Logout
    \/ \E l \in Load : Authenticate(l) \/ SignRefreshToken(l) \/ LoadRefused(l)
    \/ \E r \in Refresh : CheckTokens(r) \/ SignAccessToken(r)
    \/ \E g \in Grant : SendTokens(g) \/ StoreToken(g) \/ Leave(g)
    \/ \E c \in Call : Send(c) \/ Validate(c) \/ TimesOut(c) \/ Lose(c)
    \/ \E c \in Call, roles \in {{"USER"}, {"ADMIN"}} : Answered(c, roles)

Spec == Init /\ [][Next]_vars
FairSpec == Spec /\ \A c \in Call : WF_vars(TimesOut(c))

-----------------------------------------------------------------------------
\* DashboardMiddleware: are both cookies there?
LetIn == fingerprint.until > now /\ refreshToken.until > now

-----------------------------------------------------------------------------
(* Properties.                                                             *)

\* Who has signed in is signed in for as long as the token says: unless
\* another answer with tokens arrived beside it, a page was refused a code or
\* the user logged out, token and fingerprint belong together, no cookie goes
\* before the token expires, and the dashboard lets in who came from its page.
WhoSignedInIsSignedIn ==
    holder # None =>
       /\ token.of = holder /\ fingerprint.of = holder
       /\ now < token.expires => /\ fingerprint.until > now
                                 /\ holder \in Load => LetIn

\* Both tokens live equally long, and a refresh wants one that has expired and
\* one that has not: it passes only when the second changed between the two
\* signatures, once, or when page and cookies are not of one answer.  After a
\* refresh whose answer the page holds, another passes only if the first had
\* not been alone: a sign-in beside it left a younger refresh token.
RefreshOnlyAcrossASecond ==
    \A r \in Refresh : grant[r].at \in {"signing", "signed", "cookies", "done"} /\ grant[r].holder # None =>
       LET h == grant[r].holder IN
       IF h \in Load THEN grant[h].access < grant[h].refresh ELSE ~grant[h].alone

-----------------------------------------------------------------------------
(* The inductive invariant.                                                *)

\* Nothing that was signed lives longer than Life from now.
InTime ==
    /\ refreshToken.expires <= now + Life
    /\ \A g \in Grant : grant[g].access <= now + Life /\ grant[g].refresh <= now + Life

\* The two places of the browser hold what answers brought: the token that of
\* an answer that was read to the end, the cookies those of one whose head
\* has arrived, and these are kept at least as long as the tokens they are for.
Halves ==
    /\ token.of # None => /\ grant[token.of].at = "done"
                          /\ token.expires = grant[token.of].access
    /\ fingerprint.of # None => grant[fingerprint.of].at \in {"cookies", "done", "cut"}
    /\ fingerprint.of # None /\ grant[fingerprint.of].at # "cut" =>
          /\ grant[fingerprint.of].access <= fingerprint.until
          /\ fingerprint.of \in Load => /\ grant[fingerprint.of].access <= refreshToken.until
                                       /\ grant[fingerprint.of].refresh = refreshToken.expires
    /\ holder # None => token.of = holder /\ fingerprint.of = holder
    /\ \A g \in Grant : grant[g].holder # None => grant[grant[g].holder].at = "done"

\* A refresh that is alone signs a token that outlives the refresh token, and
\* for as long as the page holds both halves of its answer that stays so.
AloneOutlives ==
    /\ \A r \in Refresh : grant[r].alone /\ r \in UnderWay => UnderWay = {r}
    /\ \A r \in Refresh : grant[r].alone /\ grant[r].at \in {"signed", "cookies"} =>
          refreshToken.expires <= grant[r].access
    /\ holder \in Refresh /\ grant[holder].alone => refreshToken.expires <= token.expires

IInv == TypeOK /\ InTime /\ Halves /\ AloneOutlives /\ RefreshOnlyAcrossASecond

-----------------------------------------------------------------------------
\* A request to a service is answered, whatever becomes of the question to
\* the auth service.
EveryCallIsAnswered ==
    \A c \in Call : call[c].at = "queued" ~> call[c].at \in {"accepted", "refused", "timeout"}

=============================================================================
