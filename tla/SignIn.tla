------------------------------- MODULE SignIn -------------------------------
(***************************************************************************)
(* Signing in at the auth service: a password (or Google), a one-time      *)
(* password when the user has enabled two factors, a code that Redis keeps *)
(* for 30 seconds, and its exchange for tokens; and, meanwhile, two        *)
(* factors enabled and disabled.                                           *)
(*                                                                         *)
(* A user's row is read once per request, before bcrypt is awaited, and    *)
(* nothing is locked.  A code is named by the login that generates it and  *)
(* a secret by the request that generates it.                              *)
(***************************************************************************)
EXTENDS Naturals

CONSTANTS
    User,
    GoogleUser,  \* users whose openid_provider is google
    Login,       \* logins, of the shop and of the dashboard alike
    Exchange,    \* requests POST /auth/token
    Enable,      \* requests PATCH /auth/enable-2fa
    None,
    MaxFaults

ASSUME UserAssumption == GoogleUser \subseteq User
ASSUME NoneAssumption == None \notin User \cup Login \cup Exchange \cup Enable
ASSUME FaultAssumption == MaxFaults \in Nat

VARIABLES
    row,         \* user: enable_two_factor and two_factor_secret
    login,
    codes,       \* the codes in Redis
    exchange,
    enable,
    last,        \* user: the secret that the user was shown last
    told,        \* users who were shown a secret and have not disabled it since
    crossed,     \* enable-2fa requests whose answer a disable-2fa has overtaken
    met,         \* requests of one kind that were under way together
    faults

vars == <<row, login, codes, exchange, enable, last, told, crossed, met, faults>>

LoginState == [at : {"idle", "asked", "coding", "coded", "refused", "failed"},
               user : User \cup {None}, via : {"none", "password", "otp", "google"},
               told : BOOLEAN]   \* whether the user was told when it began
ExchangeState == [at : {"idle", "found", "issuing", "session", "refused", "failed"},
                  login : Login \cup {None}]
EnableState == [at : {"idle", "updating", "answering", "shown", "failed"},
                user : User \cup {None}, secret : Enable \cup {None}]

TypeOK ==
    /\ row \in [User -> [on : BOOLEAN, secret : Enable \cup {None}]]
    /\ \A u \in User : row[u].on <=> row[u].secret # None
    /\ login \in [Login -> LoginState]
    /\ codes \subseteq {l \in Login : login[l].at = "coded"}
    /\ exchange \in [Exchange -> ExchangeState]
    /\ enable \in [Enable -> EnableState]
    /\ last \in [User -> Enable \cup {None}]
    /\ told \subseteq User
    /\ crossed \subseteq Enable
    /\ met \subseteq SUBSET (Exchange \cup Enable)
    /\ faults \in 0..MaxFaults

Init ==
    /\ row = [u \in User |-> [on |-> FALSE, secret |-> None]]
    /\ login = [l \in Login |-> [at |-> "idle", user |-> None, via |-> "none", told |-> FALSE]]
    /\ codes = {}
    /\ exchange = [x \in Exchange |-> [at |-> "idle", login |-> None]]
    /\ enable = [e \in Enable |-> [at |-> "idle", user |-> None, secret |-> None]]
    /\ last = [u \in User |-> None]
    /\ told = {}
    /\ crossed = {}
    /\ met = {}
    /\ faults = 0

Fault == faults < MaxFaults /\ faults' = faults + 1

Exchanging == {x \in Exchange : exchange[x].at \in {"found", "issuing"}}
Enabling == {e \in Enable : enable[e].at \in {"updating", "answering"}}
Meets(r, others) == met' = met \cup {{r, o} : o \in others}

-----------------------------------------------------------------------------
(* Logging in.                                                             *)

Began(l, u, at, via) ==
    /\ login[l].at = "idle"
    /\ login' = [login EXCEPT ![l] = [at |-> at, user |-> u, via |-> via, told |-> u \in told]]
    /\ UNCHANGED <<row, codes, exchange, enable, last, told, crossed, met, faults>>

\* As LogIn, with a user who is not asked for a one-time password when the
\* flag is set.
LogInAtOnce(l, u) == Began(l, u, "coding", "password")

\* LocalAuthGuard and login or dashboardLogin, with the right password.
LogIn(l, u) == Began(l, u, IF row[u].on THEN "asked" ELSE "coding", "password")

\* A wrong password, a wrong one-time password, or two factors that are off
\* when validateOtp reads the row.
LogInRefused(l, u) == Began(l, u, "refused", "none")

\* googleCallback: loginWithGoogle asks for no one-time password; whose email
\* is not a Google user's goes to another page.
GoogleCallback(l, u) ==
    IF u \in GoogleUser THEN Began(l, u, "coding", "google") ELSE Began(l, u, "refused", "none")

\* validateOtp, dashboardValidateOtp: a request of its own, whose body names
\* the user; the row is read again.  The one-time password is that of an
\* authenticator that took the row's secret.
ValidateOtp(l, u) ==
    /\ row[u].on
    /\ \E e \in Enable : enable[e].at = "shown" /\ enable[e].user = u /\ enable[e].secret = row[u].secret
    /\ Began(l, u, "coding", "otp")

\* cacheAuthCode; the code is random and not in Redis yet.
CacheAuthCode(l) ==
    /\ login[l].at = "coding"
    /\ login' = [login EXCEPT ![l].at = "coded"]
    /\ codes' = codes \cup {l}
    /\ UNCHANGED <<row, exchange, enable, last, told, crossed, met, faults>>

CodeExpires(l) ==
    /\ l \in codes
    /\ codes' = codes \ {l}
    /\ UNCHANGED <<row, login, exchange, enable, last, told, crossed, met, faults>>

-----------------------------------------------------------------------------
(* The exchange of a code: the page of the callback may be loaded twice.   *)

GetCode(x, l) ==
    /\ exchange[x].at = "idle"
    /\ login[l].at = "coded"
    /\ exchange' = [exchange EXCEPT ![x] = [at |-> IF l \in codes THEN "found" ELSE "refused", login |-> l]]
    /\ Meets(x, Exchanging)
    /\ UNCHANGED <<row, login, codes, enable, last, told, crossed, faults>>

\* As DeleteCode, with the code left to expire.
KeepCode(x) ==
    /\ exchange[x].at = "found"
    /\ exchange' = [exchange EXCEPT ![x].at = "issuing"]
    /\ UNCHANGED <<row, login, codes, enable, last, told, crossed, met, faults>>

\* The user's row is found; a code that is no longer there is no error.
DeleteCode(x) ==
    /\ exchange[x].at = "found"
    /\ exchange' = [exchange EXCEPT ![x].at = "issuing"]
    /\ codes' = codes \ {exchange[x].login}
    /\ UNCHANGED <<row, login, enable, last, told, crossed, met, faults>>

\* authenticated: Sessions has the tokens.
Authenticated(x) ==
    /\ exchange[x].at = "issuing"
    /\ exchange' = [exchange EXCEPT ![x].at = "session"]
    /\ UNCHANGED <<row, login, codes, enable, last, told, crossed, met, faults>>

-----------------------------------------------------------------------------
(* Two factors.                                                            *)

\* As FindUserToEnable, with a new secret in the answer either way.
ShowNewSecret(e, u) ==
    /\ enable[e].at = "idle"
    /\ enable' = [enable EXCEPT ![e] =
                    [at |-> IF row[u].on THEN "answering" ELSE "updating", user |-> u, secret |-> e]]
    /\ Meets(e, Enabling)
    /\ UNCHANGED <<row, login, codes, exchange, last, told, crossed, faults>>

\* enableTwoFactor: the secret that is there, or else a new one.
FindUserToEnable(e, u) ==
    /\ enable[e].at = "idle"
    /\ enable' = [enable EXCEPT ![e] =
                    IF row[u].on THEN [at |-> "answering", user |-> u, secret |-> row[u].secret]
                    ELSE [at |-> "updating", user |-> u, secret |-> e]]
    /\ Meets(e, Enabling)
    /\ UNCHANGED <<row, login, codes, exchange, last, told, crossed, faults>>

EnableTwoFactor(e) ==
    /\ enable[e].at = "updating"
    /\ row' = [row EXCEPT ![enable[e].user] = [on |-> TRUE, secret |-> e]]
    /\ enable' = [enable EXCEPT ![e].at = "answering"]
    /\ UNCHANGED <<login, codes, exchange, last, told, crossed, met, faults>>

\* The user's authenticator takes the secret of the answer.
ShowSecret(e) ==
    /\ enable[e].at = "answering"
    /\ enable' = [enable EXCEPT ![e].at = "shown"]
    /\ last' = [last EXCEPT ![enable[e].user] = enable[e].secret]
    /\ told' = IF e \in crossed THEN told ELSE told \cup {enable[e].user}
    /\ UNCHANGED <<row, login, codes, exchange, crossed, met, faults>>

\* The user is not told any more, nor by an answer that is on its way.
Overtakes(u) ==
    /\ told' = told \ {u}
    /\ crossed' = crossed \cup {e \in Enable : enable[e].at = "answering" /\ enable[e].user = u}

\* As DisableTwoFactor, of the flag alone.
DisableFlag(u) ==
    /\ row' = [row EXCEPT ![u].on = FALSE]
    /\ Overtakes(u)
    /\ UNCHANGED <<login, codes, exchange, enable, last, met, faults>>

DisableTwoFactor(u) ==
    /\ row' = [row EXCEPT ![u] = [on |-> FALSE, secret |-> None]]
    /\ Overtakes(u)
    /\ UNCHANGED <<login, codes, exchange, enable, last, met, faults>>

-----------------------------------------------------------------------------
(* Faults: the requests end where they are; rows and codes stay.           *)

LoginFails(l) ==
    /\ login[l].at = "coding"
    /\ Fault
    /\ login' = [login EXCEPT ![l].at = "failed"]
    /\ UNCHANGED <<row, codes, exchange, enable, last, told, crossed, met>>

ExchangeFails(x) ==
    /\ x \in Exchanging
    /\ Fault
    /\ exchange' = [exchange EXCEPT ![x].at = "failed"]
    /\ UNCHANGED <<row, login, codes, enable, last, told, crossed, met>>

EnableFails(e) ==
    /\ e \in Enabling
    /\ Fault
    /\ enable' = [enable EXCEPT ![e].at = "failed"]
    /\ UNCHANGED <<row, login, codes, exchange, last, told, crossed, met>>

Restart ==
    /\ Fault
    /\ login' = [l \in Login |-> IF login[l].at = "coding" THEN [login[l] EXCEPT !.at = "failed"] ELSE login[l]]
    /\ exchange' = [x \in Exchange |-> IF x \in Exchanging THEN [exchange[x] EXCEPT !.at = "failed"]
                                       ELSE exchange[x]]
    /\ enable' = [e \in Enable |-> IF e \in Enabling THEN [enable[e] EXCEPT !.at = "failed"] ELSE enable[e]]
    /\ UNCHANGED <<row, codes, last, told, crossed, met>>

-----------------------------------------------------------------------------
Next ==
    \/ \E l \in Login, u \in User : LogIn(l, u) \/ LogInRefused(l, u) \/ GoogleCallback(l, u) \/ ValidateOtp(l, u)
    \/ \E l \in Login : CacheAuthCode(l) \/ CodeExpires(l) \/ LoginFails(l)
    \/ \E x \in Exchange, l \in Login : GetCode(x, l)
    \/ \E x \in Exchange : DeleteCode(x) \/ Authenticated(x) \/ ExchangeFails(x)
    \/ \E e \in Enable, u \in User : FindUserToEnable(e, u)
    \/ \E e \in Enable : EnableTwoFactor(e) \/ ShowSecret(e) \/ EnableFails(e)
    \/ \E u \in User : DisableTwoFactor(u)
    \/ Restart

Spec == Init /\ [][Next]_vars

-----------------------------------------------------------------------------
(* Properties.                                                             *)

\* "When enabled, ... login yields a temporary ValidateOtpGuard requirement
\* before any session tokens are minted", for passwords: once a user has been
\* shown a secret, a login that begins after it gets no session from the
\* password alone, unless two factors were disabled after the answer was made.
\* A login that began before may: its row is stale.  And a Google user's login
\* gets tokens with no one-time password, whatever the row says.
PasswordAloneIsNotEnough ==
    \A x \in Exchange : exchange[x].at = "session" =>
       LET l == exchange[x].login IN login[l].told => login[l].via # "password"

\* "GET & DEL code": two sessions from one code were asked for at once.
OneSessionPerCode ==
    \A x, y \in Exchange :
       /\ x # y
       /\ exchange[x].at = "session" /\ exchange[y].at = "session"
       /\ exchange[x].login = exchange[y].login
       => {x, y} \in met

\* The secret that the user's authenticator took last is the one that one-time
\* passwords are verified with, unless the answer with that one is still to
\* come or is lost, or its request met another one.
LastSecretWorks ==
    \A u \in User : row[u].on /\ last[u] # row[u].secret =>
       \/ enable[row[u].secret].at \in {"answering", "failed"}
       \/ \E e \in Enable : {e, row[u].secret} \in met /\ e # row[u].secret

\* Where an exchange stands, what has become of its code and of its login.
CodesAreSpent ==
    /\ \A x \in Exchange : exchange[x].at \in {"found", "issuing", "session"} =>
          /\ exchange[x].login \in Login
          /\ login[exchange[x].login].at = "coded"
          /\ exchange[x].at # "found" => exchange[x].login \notin codes
    /\ \A x, y \in Exchange :
          /\ x # y /\ exchange[x].login = exchange[y].login
          /\ {exchange[x].at, exchange[y].at} \subseteq {"found", "issuing", "session"}
          => {x, y} \in met

\* Who was told has two factors on, and so has who is about to be.
ToldAreOn ==
    /\ \A u \in told : row[u].on
    /\ \A e \in Enable : enable[e].at = "answering" /\ e \notin crossed => row[enable[e].user].on
    /\ \A l \in Login : login[l].told /\ login[l].at \in {"coding", "coded"} => login[l].via # "password"

\* Where the request stands that generated a user's secret.
Secrets ==
    /\ \A e \in Enable : /\ enable[e].at # "idle" => enable[e].user \in User
                         /\ enable[e].at = "updating" => enable[e].secret = e
    /\ \A u \in User : row[u].on => /\ enable[row[u].secret].user = u
                                   /\ enable[row[u].secret].secret = row[u].secret
                                   /\ enable[row[u].secret].at \notin {"idle", "updating"}

\* A secret on its way that is no longer the row's has met its successor.
AnswersMet ==
    /\ \A e, d \in Enabling : e # d => {e, d} \in met
    /\ \A e \in Enable : LET s == row[enable[e].user].secret IN
          enable[e].at = "answering" /\ row[enable[e].user].on /\ enable[e].secret # s
          => {e, s} \in met /\ e # s

\* The invariant of the proofs.
IInv == TypeOK /\ CodesAreSpent /\ ToldAreOn /\ Secrets /\ AnswersMet /\ LastSecretWorks

=============================================================================
