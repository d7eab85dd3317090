---------------------------- MODULE PasswordReset ----------------------------
(***************************************************************************)
(* A forgotten password.  A one-time token in the user's row, a mail with  *)
(* a link to a form, the form that sets the token's hash as a cookie, and  *)
(* the request that compares the cookie with the row, clears the token,    *)
(* hashes the new password and stores it: three statements and two waits,  *)
(* with no transaction around them.                                        *)
(*                                                                         *)
(* A token is named by the request that generates it, a password by the    *)
(* request that asks for it, and a hash by what it is the hash of.         *)
(***************************************************************************)
EXTENDS Naturals

CONSTANTS
    User,
    Browser,
    Forgot,      \* requests POST /auth/forgot-password
    Reset,       \* requests PATCH /auth/reset-password
    None,
    MaxFaults

ASSUME NoneAssumption == None \notin User \cup Forgot \cup Reset
ASSUME KindAssumption == Forgot \cap Reset = {}
ASSUME FaultAssumption == MaxFaults \in Nat

VARIABLES
    token,       \* user: one_time_token
    password,    \* user: the reset that stored it; None: the first one
    forgot,
    cookie,      \* browser: the token that its cookie is the hash of
    reset,
    newest,      \* user: who wrote the token last
    met,         \* requests that were under way together
    faults

vars == <<token, password, forgot, cookie, reset, newest, met, faults>>

ForgotState == [at : {"idle", "mailing", "sent", "unanswered", "failed"}, user : User \cup {None}]
ResetState == [at : {"idle", "matched", "spent", "ok", "refused", "failed"},
               user : User \cup {None}, token : Forgot \cup {None}]

TypeOK ==
    /\ token \in [User -> Forgot \cup {None}]
    /\ password \in [User -> Reset \cup {None}]
    /\ forgot \in [Forgot -> ForgotState]
    /\ cookie \in [Browser -> Forgot \cup {None}]
    /\ reset \in [Reset -> ResetState]
    /\ \A r \in Reset : reset[r].at \in {"matched", "spent", "ok"} => reset[r].token # None
    /\ newest \in [User -> Forgot \cup {None}]
    /\ met \subseteq SUBSET (Forgot \cup Reset)
    /\ faults \in 0..MaxFaults

Init ==
    /\ token = [u \in User |-> None]
    /\ password = [u \in User |-> None]
    /\ forgot = [f \in Forgot |-> [at |-> "idle", user |-> None]]
    /\ cookie = [b \in Browser |-> None]
    /\ reset = [r \in Reset |-> [at |-> "idle", user |-> None, token |-> None]]
    /\ newest = [u \in User |-> None]
    /\ met = {}
    /\ faults = 0

Fault == faults < MaxFaults /\ faults' = faults + 1

Resetting == {r \in Reset : reset[r].at \in {"matched", "spent"}}
InFlight == Resetting \cup {f \in Forgot : forgot[f].at = "mailing"}
Meets(r) == met' = met \cup {{r, o} : o \in InFlight}

\* updateOneTimeToken.
SetToken(u, t) == token' = [token EXCEPT ![u] = t]

-----------------------------------------------------------------------------
(* Forgotten: ForgotPasswordGuard and forgotPassword.                      *)

\* As UpdateOneTimeToken, keeping a token that is there.
KeepToken(f, u) ==
    /\ forgot[f].at = "idle"
    /\ forgot' = [forgot EXCEPT ![f] = [at |-> "mailing", user |-> u]]
    /\ token' = IF token[u] = None THEN [token EXCEPT ![u] = f] ELSE token
    /\ newest' = [newest EXCEPT ![u] = f]
    /\ Meets(f)
    /\ UNCHANGED <<password, cookie, reset, faults>>

UpdateOneTimeToken(f, u) ==
    /\ forgot[f].at = "idle"
    /\ forgot' = [forgot EXCEPT ![f] = [at |-> "mailing", user |-> u]]
    /\ SetToken(u, f)
    /\ newest' = [newest EXCEPT ![u] = f]
    /\ Meets(f)
    /\ UNCHANGED <<password, cookie, reset, faults>>

SendMail(f) ==
    /\ forgot[f].at = "mailing"
    /\ forgot' = [forgot EXCEPT ![f].at = "sent"]
    /\ UNCHANGED <<token, password, cookie, reset, newest, met, faults>>

\* The callback throws: nobody catches it and the promise never settles.
\* (When the exception ends the process as well, Restart follows.)
SendMailFails(f) ==
    /\ forgot[f].at = "mailing"
    /\ Fault
    /\ forgot' = [forgot EXCEPT ![f].at = "unanswered"]
    /\ UNCHANGED <<token, password, cookie, reset, newest, met>>

-----------------------------------------------------------------------------
(* The form and its submission.                                            *)

\* ResetPasswordGuard finds the row by the id of the link, which has no token.
\* Without a token in the row the hash of it throws.
ResetPasswordForm(b, u) ==
    /\ token[u] # None
    /\ cookie' = [cookie EXCEPT ![b] = token[u]]
    /\ UNCHANGED <<token, password, forgot, reset, newest, met, faults>>

CookieExpires(b) ==
    /\ cookie[b] # None
    /\ cookie' = [cookie EXCEPT ![b] = None]
    /\ UNCHANGED <<token, password, forgot, reset, newest, met, faults>>

\* validateOneTimeToken: a cookie, and the hash of what the row was read with.
TokenMatches(b, u) == cookie[b] # None /\ cookie[b] = token[u]

Matches(r, u) ==
    /\ reset' = [reset EXCEPT ![r] = [at |-> "matched", user |-> u, token |-> token[u]]]
    /\ Meets(r)

Refuses(r) ==
    /\ reset' = [reset EXCEPT ![r].at = "refused"]
    /\ UNCHANGED met

\* As ValidateOneTimeToken, without a look at whether there is a cookie.
CompareAnything(r, b, u) ==
    /\ reset[r].at = "idle"
    /\ IF cookie[b] = token[u] THEN Matches(r, u) ELSE Refuses(r)
    /\ UNCHANGED <<token, password, forgot, cookie, newest, faults>>

\* ValidateOttGuard compares the row as ResetPasswordGuard has read it with the
\* cookie.  Passwords that differ are refused before.
ValidateOneTimeToken(r, b, u) ==
    /\ reset[r].at = "idle"
    /\ IF TokenMatches(b, u) THEN Matches(r, u) ELSE Refuses(r)
    /\ UNCHANGED <<token, password, forgot, cookie, newest, faults>>

\* As ClearOneTimeToken, left to the next mail.
LeaveToken(r) ==
    /\ reset[r].at = "matched"
    /\ reset' = [reset EXCEPT ![r].at = "spent"]
    /\ UNCHANGED <<token, password, forgot, cookie, newest, met, faults>>

\* updateOneTimeToken(user.id, null), whatever the row has by now.
ClearOneTimeToken(r) ==
    /\ reset[r].at = "matched"
    /\ reset' = [reset EXCEPT ![r].at = "spent"]
    /\ SetToken(reset[r].user, None)
    /\ UNCHANGED <<password, forgot, cookie, newest, met, faults>>

\* HashPasswordPipe, and resetPassword.
UpdatePassword(r) ==
    /\ reset[r].at = "spent"
    /\ reset' = [reset EXCEPT ![r].at = "ok"]
    /\ password' = [password EXCEPT ![reset[r].user] = r]
    /\ UNCHANGED <<token, forgot, cookie, newest, met, faults>>

-----------------------------------------------------------------------------
(* Faults.                                                                 *)

\* A statement fails, or HashPasswordPipe refuses a body without a password
\* (two that are missing are equal to ValidateOttGuard), after the token went.
ResetFails(r) ==
    /\ r \in Resetting
    /\ Fault
    /\ reset' = [reset EXCEPT ![r].at = "failed"]
    /\ UNCHANGED <<token, password, forgot, cookie, newest, met>>

Restart ==
    /\ Fault
    /\ forgot' = [f \in Forgot |-> IF forgot[f].at = "mailing" THEN [forgot[f] EXCEPT !.at = "failed"]
                                   ELSE forgot[f]]
    /\ reset' = [r \in Reset |-> IF r \in Resetting THEN [reset[r] EXCEPT !.at = "failed"] ELSE reset[r]]
    /\ UNCHANGED <<token, password, cookie, newest, met>>

-----------------------------------------------------------------------------
Next ==
    \/ \E f \in Forgot, u \in User : UpdateOneTimeToken(f, u)
    \/ \E f \in Forgot : SendMail(f) \/ SendMailFails(f)
    \/ \E b \in Browser, u \in User : ResetPasswordForm(b, u)
    \/ \E b \in Browser : CookieExpires(b)
    \/ \E r \in Reset, b \in Browser, u \in User : ValidateOneTimeToken(r, b, u)
    \/ \E r \in Reset : ClearOneTimeToken(r) \/ UpdatePassword(r) \/ ResetFails(r)
    \/ Restart

Spec == Init /\ [][Next]_vars

-----------------------------------------------------------------------------
(* Properties.                                                             *)

\* "Single-use password reset tokens transmitted via email": two resets that
\* pass with one token were under way together.
TokensAreSpent ==
    \A r, q \in Reset :
       /\ r # q
       /\ reset[r].at \in {"spent", "ok"} /\ reset[q].at \in {"spent", "ok"}
       /\ reset[r].token = reset[q].token
       => {r, q} \in met

\* The newest link works: the token of the last mail is the one in the row,
\* unless it was spent, or cleared by a reset of the same user with an older
\* one that was under way when it was generated.
NewestLinkWorks ==
    \A u \in User : newest[u] # None /\ token[u] # newest[u] =>
       /\ token[u] = None
       /\ \E r \in Reset : /\ reset[r].user = u
                           /\ reset[r].at \in {"spent", "ok", "failed"}
                           /\ reset[r].token = newest[u] \/ {r, newest[u]} \in met

\* Where a reset stands, and what its token and the row's are to each other:
\* a token that was spent is nobody's, two resets that passed with one token
\* have met, and so have a reset on its way and a token newer than its own.
TokensInHand ==
    /\ \A u \in User : token[u] # None => token[u] = newest[u]
    /\ \A u \in User : newest[u] # None => forgot[newest[u]].user = u /\ forgot[newest[u]].at # "idle"
    /\ \A b \in Browser : cookie[b] # None => forgot[cookie[b]].at # "idle"
    /\ \A r \in Reset : reset[r].at \in {"matched", "spent", "ok"} =>
          LET u == reset[r].user IN
          /\ u \in User
          /\ forgot[reset[r].token].user = u /\ forgot[reset[r].token].at # "idle"
          /\ newest[u] # None
          /\ reset[r].at \in {"spent", "ok"} => token[u] # reset[r].token
    /\ \A r \in Reset : reset[r].at = "matched" =>
          LET u == reset[r].user IN reset[r].token = newest[u] \/ {r, newest[u]} \in met

Passed == {r \in Reset : reset[r].at \in {"matched", "spent", "ok"}}

PassedTogether ==
    \A r, q \in Passed : r # q /\ reset[r].token = reset[q].token => {r, q} \in met

\* The invariant of the proofs.
IInv == TypeOK /\ TokensInHand /\ PassedTogether /\ NewestLinkWorks

=============================================================================
