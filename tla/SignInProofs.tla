---------------------------- MODULE SignInProofs ----------------------------
(***************************************************************************)
(* Proofs about SignIn, for any users, logins, exchanges and requests.     *)
(*                                                                         *)
(* What a session or a secret is depends on where other requests stand,    *)
(* so that none of the three properties is inductive.  IInv says of an     *)
(* exchange what has become of its code and of its login (CodesAreSpent),  *)
(* of who was shown a secret that his two factors are on (ToldAreOn), of a user's secret  *)
(* which request generated it (Secrets), and of an answer under way with   *)
(* another secret that its request met the one that replaced it            *)
(* (AnswersMet).  A lemma for each action has one step per conjunct.       *)
(***************************************************************************)
EXTENDS SignIn, TLAPS

\* The tables are empty and no request is under way.
LEMMA InitIInv == Init => IInv
BY NoneAssumption, FaultAssumption
   DEF Init, IInv, TypeOK, CodesAreSpent, ToldAreOn, Secrets, AnswersMet, LastSecretWorks,
       Enabling, LoginState, ExchangeState, EnableState

\* A login that goes on keeps its user, its way and what the user was told.
LEMMA LoginGoesOn ==
    ASSUME NEW m \in LoginState, NEW at \in {"idle", "asked", "coding", "coded", "refused", "failed"}
    PROVE  [m EXCEPT !.at = at] \in LoginState
<1> DEFINE new == [at |-> at, user |-> m.user, via |-> m.via, told |-> m.told]
<1>1. m = [at |-> m.at, user |-> m.user, via |-> m.via, told |-> m.told]
  BY Zenon DEF LoginState
<1>2. [m EXCEPT !.at = at] = new
  BY <1>1
<1>3. new \in LoginState
  BY Zenon DEF LoginState
<1> QED  BY <1>2, <1>3

\* However a login begins, the invariant is kept.
LEMMA BeganStep ==
    ASSUME NEW l \in Login, NEW u \in User,
           NEW at \in {"asked", "coding", "refused"}, NEW via \in {"none", "password", "otp", "google"},
           row[u].on /\ at = "coding" => via # "password", IInv, Began(l, u, at, via)
    PROVE  IInv'
<1> USE NoneAssumption, FaultAssumption DEF IInv, LoginState, ExchangeState, EnableState
<1>1. TypeOK'
  BY DEF TypeOK, Began
<1>2. CodesAreSpent'
  BY DEF TypeOK, CodesAreSpent, Exchanging, Began
<1>3. ToldAreOn'
  <2>1. login'[l] = [at |-> at, user |-> u, via |-> via, told |-> u \in told]
    BY DEF TypeOK, Began
  <2>2. \A m \in Login \ {l} : login'[m] = login[m]
    BY DEF TypeOK, Began
  <2>3. UNCHANGED <<row, enable, told, crossed>>
    BY DEF Began
  <2>4. login'[l].told => row[u].on
    <3>1. CASE u \in told
      BY <3>1 DEF ToldAreOn
    <3>2. CASE u \notin told
      <4>1. (u \in told) = FALSE
        BY <3>2
      <4>2. login'[l] = [at |-> at, user |-> u, via |-> via, told |-> FALSE]
        BY <2>1, <4>1
      <4> QED  BY <4>2
    <3> QED  BY <3>1, <3>2
  <2>5. login'[l].told /\ login'[l].at \in {"coding", "coded"} => login'[l].via # "password"
    BY <2>1, <2>4
  <2> QED  BY <2>2, <2>3, <2>5 DEF ToldAreOn
<1>4. Secrets'
  BY DEF TypeOK, Secrets, Began
<1>5. AnswersMet'
  BY DEF TypeOK, AnswersMet, Secrets, Enabling, Began
<1>6. LastSecretWorks'
  BY DEF TypeOK, LastSecretWorks, AnswersMet, Secrets, Enabling, Began
<1> QED  BY <1>1, <1>2, <1>3, <1>4, <1>5, <1>6

\* CacheAuthCode (cacheAuthCode) keeps the invariant.
LEMMA CacheAuthCodeStep ==
    ASSUME NEW l \in Login, IInv, CacheAuthCode(l)
    PROVE  IInv'
<1> USE NoneAssumption, FaultAssumption DEF IInv, LoginState, ExchangeState, EnableState
<1>1. TypeOK'
  <2>1. [login[l] EXCEPT !.at = "coded"] \in LoginState
    <3> HIDE DEF LoginState
    <3> QED  BY LoginGoesOn DEF TypeOK
  <2>2. login' = [login EXCEPT ![l] = [login[l] EXCEPT !.at = "coded"]]
    BY DEF TypeOK, CacheAuthCode
  <2>3. login' \in [Login -> LoginState] /\ codes' \subseteq {m \in Login : login'[m].at = "coded"}
    <3> HIDE DEF LoginState
    <3> QED  BY <2>1, <2>2 DEF TypeOK, CacheAuthCode
  <2> QED  BY <2>3 DEF TypeOK, CacheAuthCode
<1>2. CodesAreSpent'
  BY DEF TypeOK, CodesAreSpent, Exchanging, CacheAuthCode
<1>3. ToldAreOn'
  BY DEF TypeOK, ToldAreOn, CacheAuthCode
<1>4. Secrets'
  BY DEF TypeOK, Secrets, CacheAuthCode
<1>5. AnswersMet'
  BY DEF TypeOK, AnswersMet, Secrets, Enabling, CacheAuthCode
<1>6. LastSecretWorks'
  BY DEF TypeOK, LastSecretWorks, AnswersMet, Secrets, Enabling, CacheAuthCode
<1> QED  BY <1>1, <1>2, <1>3, <1>4, <1>5, <1>6

\* CodeExpires (AuthModule) keeps the invariant.
LEMMA CodeExpiresStep ==
    ASSUME NEW l \in Login, IInv, CodeExpires(l)
    PROVE  IInv'
<1> USE NoneAssumption, FaultAssumption DEF IInv, LoginState, ExchangeState, EnableState
<1>1. TypeOK'
  BY DEF TypeOK, CodeExpires
<1>2. CodesAreSpent'
  BY DEF TypeOK, CodesAreSpent, Exchanging, CodeExpires
<1>3. ToldAreOn'
  BY DEF TypeOK, ToldAreOn, CodeExpires
<1>4. Secrets'
  BY DEF TypeOK, Secrets, CodeExpires
<1>5. AnswersMet'
  BY DEF TypeOK, AnswersMet, Secrets, Enabling, CodeExpires
<1>6. LastSecretWorks'
  BY DEF TypeOK, LastSecretWorks, AnswersMet, Secrets, Enabling, CodeExpires
<1> QED  BY <1>1, <1>2, <1>3, <1>4, <1>5, <1>6

\* GetCode (canActivate) keeps the invariant.
LEMMA GetCodeStep ==
    ASSUME NEW x \in Exchange, NEW l \in Login, IInv, GetCode(x, l)
    PROVE  IInv'
<1> USE NoneAssumption, FaultAssumption DEF IInv, LoginState, ExchangeState, EnableState
<1>1. TypeOK'
  BY DEF TypeOK, GetCode, Meets, Exchanging
<1>2. CodesAreSpent'
  BY DEF TypeOK, CodesAreSpent, Exchanging, GetCode, Meets
<1>3. ToldAreOn'
  BY DEF TypeOK, ToldAreOn, GetCode, Meets, Exchanging
<1>4. Secrets'
  BY DEF TypeOK, Secrets, GetCode, Meets, Exchanging
<1>5. AnswersMet'
  BY DEF TypeOK, AnswersMet, Secrets, Enabling, GetCode, Meets, Exchanging
<1>6. LastSecretWorks'
  BY DEF TypeOK, LastSecretWorks, AnswersMet, Secrets, Enabling, GetCode, Meets,
         Exchanging
<1> QED  BY <1>1, <1>2, <1>3, <1>4, <1>5, <1>6

\* DeleteCode (canActivate) keeps the invariant.
LEMMA DeleteCodeStep ==
    ASSUME NEW x \in Exchange, IInv, DeleteCode(x)
    PROVE  IInv'
<1> USE NoneAssumption, FaultAssumption DEF IInv, LoginState, ExchangeState, EnableState
<1>1. TypeOK'
  BY DEF TypeOK, DeleteCode
<1>2. CodesAreSpent'
  BY DEF TypeOK, CodesAreSpent, Exchanging, DeleteCode
<1>3. ToldAreOn'
  BY DEF TypeOK, ToldAreOn, DeleteCode
<1>4. Secrets'
  BY DEF TypeOK, Secrets, DeleteCode
<1>5. AnswersMet'
  BY DEF TypeOK, AnswersMet, Secrets, Enabling, DeleteCode
<1>6. LastSecretWorks'
  BY DEF TypeOK, LastSecretWorks, AnswersMet, Secrets, Enabling, DeleteCode
<1> QED  BY <1>1, <1>2, <1>3, <1>4, <1>5, <1>6

\* Authenticated (authenticated) keeps the invariant.
LEMMA AuthenticatedStep ==
    ASSUME NEW x \in Exchange, IInv, Authenticated(x)
    PROVE  IInv'
<1> USE NoneAssumption, FaultAssumption DEF IInv, LoginState, ExchangeState, EnableState
<1>1. TypeOK'
  BY DEF TypeOK, Authenticated
<1>2. CodesAreSpent'
  BY DEF TypeOK, CodesAreSpent, Exchanging, Authenticated
<1>3. ToldAreOn'
  BY DEF TypeOK, ToldAreOn, Authenticated
<1>4. Secrets'
  BY DEF TypeOK, Secrets, Authenticated
<1>5. AnswersMet'
  BY DEF TypeOK, AnswersMet, Secrets, Enabling, Authenticated
<1>6. LastSecretWorks'
  BY DEF TypeOK, LastSecretWorks, AnswersMet, Secrets, Enabling, Authenticated
<1> QED  BY <1>1, <1>2, <1>3, <1>4, <1>5, <1>6

\* FindUserToEnable (enableTwoFactor) keeps the invariant.
LEMMA FindUserToEnableStep ==
    ASSUME NEW e \in Enable, NEW u \in User, IInv, FindUserToEnable(e, u)
    PROVE  IInv'
<1> USE NoneAssumption, FaultAssumption DEF IInv, LoginState, ExchangeState, EnableState
<1>1. TypeOK'
  BY DEF TypeOK, FindUserToEnable, Meets, Enabling
<1>2. CodesAreSpent'
  BY DEF TypeOK, CodesAreSpent, Exchanging, FindUserToEnable, Meets, Enabling
<1>3. ToldAreOn'
  BY DEF TypeOK, ToldAreOn, FindUserToEnable, Meets, Enabling
<1>4. Secrets'
  BY DEF TypeOK, Secrets, FindUserToEnable, Meets, Enabling
<1>5. AnswersMet'
  <2>1. row' = row /\ met' = met \cup {{e, d} : d \in Enabling}
    BY DEF FindUserToEnable, Meets
  <2>2. \A d \in Enable \ {e} : enable'[d] = enable[d]
    BY DEF TypeOK, FindUserToEnable
  <2>3. /\ enable'[e].at \in {"answering", "updating"} /\ enable'[e].user = u
        /\ enable'[e].at = "answering" => enable'[e].secret = row[u].secret
    BY DEF TypeOK, FindUserToEnable
  <2>4. \A d, c \in Enabling' : d # c => {d, c} \in met'
    <3> SUFFICES ASSUME NEW d \in Enabling', NEW c \in Enabling', d # c
                 PROVE  {d, c} \in met'
      OBVIOUS
    <3>1. CASE d # e /\ c # e
      BY <2>1, <2>2, <3>1 DEF AnswersMet, Enabling
    <3>2. CASE d = e \/ c = e
      <4>1. PICK o \in Enabling : {d, c} = {e, o}
        BY <2>2, <3>2 DEF Enabling
      <4> QED  BY <2>1, <4>1
    <3> QED  BY <3>1, <3>2
  <2>5. ASSUME NEW d \in Enable,
               enable'[d].at = "answering", row'[enable'[d].user].on,
               enable'[d].secret # row'[enable'[d].user].secret
        PROVE  {d, row'[enable'[d].user].secret} \in met' /\ d # row'[enable'[d].user].secret
    <3>1. d # e
      BY <2>1, <2>3, <2>5
    <3> QED  BY <2>1, <2>2, <2>5, <3>1 DEF AnswersMet
  <2> QED  BY <2>4, <2>5 DEF AnswersMet
<1>6. LastSecretWorks'
  <2> SUFFICES ASSUME NEW v \in User, row'[v].on, last'[v] # row'[v].secret
               PROVE  \/ enable'[row'[v].secret].at \in {"answering", "failed"}
                      \/ \E d \in Enable : {d, row'[v].secret} \in met' /\ d # row'[v].secret
    BY DEF LastSecretWorks
  <2>1. row' = row /\ last' = last /\ met \subseteq met' /\ row[v].secret \in Enable
    BY DEF TypeOK, FindUserToEnable, Meets
  <2>2. enable'[row[v].secret].at = enable[row[v].secret].at
    BY <2>1 DEF TypeOK, Secrets, FindUserToEnable
  <2> QED  BY <2>1, <2>2 DEF LastSecretWorks
<1> QED  BY <1>1, <1>2, <1>3, <1>4, <1>5, <1>6

\* EnableTwoFactor (enableTwoFactor) keeps the invariant.
LEMMA EnableTwoFactorStep ==
    ASSUME NEW e \in Enable, IInv, EnableTwoFactor(e)
    PROVE  IInv'
<1> USE NoneAssumption, FaultAssumption DEF IInv, LoginState, ExchangeState, EnableState
<1>1. TypeOK'
  BY DEF TypeOK, Secrets, EnableTwoFactor
<1>2. CodesAreSpent'
  BY DEF TypeOK, CodesAreSpent, Exchanging, EnableTwoFactor
<1>3. ToldAreOn'
  <2>1. \A u \in User : row[u].on => row'[u].on
    BY DEF TypeOK, EnableTwoFactor
  <2>2. row'[enable[e].user].on /\ enable[e].user \in User
    BY DEF TypeOK, Secrets, EnableTwoFactor
  <2>3. \A d \in Enable : enable'[d].user = enable[d].user /\ (d # e => enable'[d] = enable[d])
    BY DEF TypeOK, EnableTwoFactor
  <2>4. \A d \in Enable : enable[d].at = "answering" => enable[d].user \in User
    BY DEF Secrets
  <2>5. UNCHANGED <<login, told, crossed>> /\ told \subseteq User
    BY DEF TypeOK, EnableTwoFactor
  <2>6. ASSUME NEW d \in Enable, enable'[d].at = "answering", d \notin crossed'
        PROVE  row'[enable'[d].user].on
    <3>1. CASE d = e
      BY <2>2, <2>3, <3>1
    <3>2. CASE d # e
      <4>1. row[enable[d].user].on
        BY <2>3, <2>5, <2>6, <3>2 DEF ToldAreOn
      <4> QED  BY <2>1, <2>3, <2>4, <2>6, <3>2, <4>1
    <3> QED  BY <3>1, <3>2
  <2>7. \A u \in told' : row'[u].on
    BY <2>1, <2>5 DEF ToldAreOn
  <2> QED  BY <2>5, <2>6, <2>7 DEF ToldAreOn
<1>4. Secrets'
  BY DEF TypeOK, Secrets, EnableTwoFactor
<1>5. AnswersMet'
  BY DEF TypeOK, AnswersMet, Secrets, Enabling, EnableTwoFactor
<1>6. LastSecretWorks'
  <2> SUFFICES ASSUME NEW v \in User, row'[v].on, last'[v] # row'[v].secret
               PROVE  \/ enable'[row'[v].secret].at \in {"answering", "failed"}
                      \/ \E d \in Enable : {d, row'[v].secret} \in met' /\ d # row'[v].secret
    BY DEF LastSecretWorks
  <2>1. enable[e].user \in User /\ row'[enable[e].user].secret = e /\ enable'[e].at = "answering"
    BY DEF TypeOK, Secrets, EnableTwoFactor
  <2>2. CASE v = enable[e].user
    BY <2>1, <2>2
  <2>3. CASE v # enable[e].user
    <3>1. row'[v] = row[v] /\ last' = last /\ met' = met /\ row[v].secret # e
      BY <2>3 DEF TypeOK, Secrets, EnableTwoFactor
    <3>2. enable'[row[v].secret].at = enable[row[v].secret].at
      BY <3>1 DEF TypeOK, Secrets, EnableTwoFactor
    <3> QED  BY <3>1, <3>2 DEF LastSecretWorks
  <2> QED  BY <2>2, <2>3
<1> QED  BY <1>1, <1>2, <1>3, <1>4, <1>5, <1>6

\* ShowSecret (enableTwoFactor) keeps the invariant.
LEMMA ShowSecretStep ==
    ASSUME NEW e \in Enable, IInv, ShowSecret(e)
    PROVE  IInv'
<1> USE NoneAssumption, FaultAssumption DEF IInv, LoginState, ExchangeState, EnableState
<1>1. TypeOK'
  BY DEF TypeOK, Secrets, ShowSecret
<1>2. CodesAreSpent'
  BY DEF TypeOK, CodesAreSpent, Exchanging, ShowSecret
<1>3. ToldAreOn'
  BY DEF TypeOK, ToldAreOn, ShowSecret
<1>4. Secrets'
  BY DEF TypeOK, Secrets, ShowSecret
<1>5. AnswersMet'
  BY DEF TypeOK, AnswersMet, Secrets, Enabling, ShowSecret
<1>6. LastSecretWorks'
  <2> SUFFICES ASSUME NEW v \in User, row'[v].on, last'[v] # row'[v].secret
               PROVE  \/ enable'[row'[v].secret].at \in {"answering", "failed"}
                      \/ \E d \in Enable : {d, row'[v].secret} \in met' /\ d # row'[v].secret
    BY DEF LastSecretWorks
  <2>1. row' = row /\ met' = met /\ row[v].secret \in Enable
    BY DEF TypeOK, ShowSecret
  <2>2. CASE v = enable[e].user
    <3>1. last'[v] = enable[e].secret
      BY <2>2 DEF TypeOK, ShowSecret
    <3> QED  BY <2>1, <2>2, <3>1 DEF ShowSecret, AnswersMet
  <2>3. CASE v # enable[e].user
    <3>1. last'[v] = last[v] /\ row[v].secret # e
      BY <2>1, <2>3 DEF TypeOK, Secrets, ShowSecret
    <3>2. enable'[row[v].secret].at = enable[row[v].secret].at
      BY <2>1, <3>1 DEF TypeOK, ShowSecret
    <3> QED  BY <2>1, <3>1, <3>2 DEF LastSecretWorks
  <2> QED  BY <2>2, <2>3
<1> QED  BY <1>1, <1>2, <1>3, <1>4, <1>5, <1>6

\* DisableTwoFactor (disableTwoFactor) keeps the invariant.
LEMMA DisableTwoFactorStep ==
    ASSUME NEW u \in User, IInv, DisableTwoFactor(u)
    PROVE  IInv'
<1> USE NoneAssumption, FaultAssumption DEF IInv, LoginState, ExchangeState, EnableState
<1>1. TypeOK'
  BY DEF TypeOK, DisableTwoFactor, Overtakes
<1>2. CodesAreSpent'
  BY DEF TypeOK, CodesAreSpent, Exchanging, DisableTwoFactor, Overtakes
<1>3. ToldAreOn'
  BY DEF TypeOK, ToldAreOn, DisableTwoFactor, Overtakes
<1>4. Secrets'
  BY DEF TypeOK, Secrets, DisableTwoFactor, Overtakes
<1>5. AnswersMet'
  BY DEF TypeOK, AnswersMet, Secrets, Enabling, DisableTwoFactor, Overtakes
<1>6. LastSecretWorks'
  <2> SUFFICES ASSUME NEW v \in User, row'[v].on, last'[v] # row'[v].secret
               PROVE  \/ enable'[row'[v].secret].at \in {"answering", "failed"}
                      \/ \E d \in Enable : {d, row'[v].secret} \in met' /\ d # row'[v].secret
    BY DEF LastSecretWorks
  <2>1. row'[v] = row[v] /\ last' = last /\ met' = met /\ enable' = enable
    BY DEF TypeOK, DisableTwoFactor, Overtakes
  <2> QED  BY <2>1 DEF LastSecretWorks
<1> QED  BY <1>1, <1>2, <1>3, <1>4, <1>5, <1>6

\* LoginFails (getClientCallbackUrl) keeps the invariant.
LEMMA LoginFailsStep ==
    ASSUME NEW l \in Login, IInv, LoginFails(l)
    PROVE  IInv'
<1> USE NoneAssumption, FaultAssumption DEF IInv, LoginState, ExchangeState, EnableState
<1>1. TypeOK'
  <2>1. [login[l] EXCEPT !.at = "failed"] \in LoginState
    <3> HIDE DEF LoginState
    <3> QED  BY LoginGoesOn DEF TypeOK
  <2>2. login' = [login EXCEPT ![l] = [login[l] EXCEPT !.at = "failed"]]
    BY DEF TypeOK, LoginFails
  <2>3. login' \in [Login -> LoginState] /\ codes' \subseteq {m \in Login : login'[m].at = "coded"}
    <3> HIDE DEF LoginState
    <3> QED  BY <2>1, <2>2 DEF TypeOK, LoginFails
  <2> QED  BY <2>3 DEF TypeOK, LoginFails, Fault
<1>2. CodesAreSpent'
  BY DEF TypeOK, CodesAreSpent, Exchanging, LoginFails, Fault
<1>3. ToldAreOn'
  BY DEF TypeOK, ToldAreOn, LoginFails, Fault
<1>4. Secrets'
  BY DEF TypeOK, Secrets, LoginFails, Fault
<1>5. AnswersMet'
  BY DEF TypeOK, AnswersMet, Secrets, Enabling, LoginFails, Fault
<1>6. LastSecretWorks'
  BY DEF TypeOK, LastSecretWorks, AnswersMet, Secrets, Enabling, LoginFails, Fault
<1> QED  BY <1>1, <1>2, <1>3, <1>4, <1>5, <1>6

\* ExchangeFails (canActivate) keeps the invariant.
LEMMA ExchangeFailsStep ==
    ASSUME NEW x \in Exchange, IInv, ExchangeFails(x)
    PROVE  IInv'
<1> USE NoneAssumption, FaultAssumption DEF IInv, LoginState, ExchangeState, EnableState
<1>1. TypeOK'
  BY DEF TypeOK, ExchangeFails, Fault, Exchanging
<1>2. CodesAreSpent'
  BY DEF TypeOK, CodesAreSpent, Exchanging, ExchangeFails, Fault
<1>3. ToldAreOn'
  BY DEF TypeOK, ToldAreOn, ExchangeFails, Fault, Exchanging
<1>4. Secrets'
  BY DEF TypeOK, Secrets, ExchangeFails, Fault, Exchanging
<1>5. AnswersMet'
  BY DEF TypeOK, AnswersMet, Secrets, Enabling, ExchangeFails, Fault, Exchanging
<1>6. LastSecretWorks'
  BY DEF TypeOK, LastSecretWorks, AnswersMet, Secrets, Enabling, ExchangeFails,
         Fault, Exchanging
<1> QED  BY <1>1, <1>2, <1>3, <1>4, <1>5, <1>6

\* EnableFails (enableTwoFactor) keeps the invariant.
LEMMA EnableFailsStep ==
    ASSUME NEW e \in Enable, IInv, EnableFails(e)
    PROVE  IInv'
<1> USE NoneAssumption, FaultAssumption DEF IInv, LoginState, ExchangeState, EnableState
<1>1. TypeOK'
  BY DEF TypeOK, EnableFails, Fault, Enabling
<1>2. CodesAreSpent'
  BY DEF TypeOK, CodesAreSpent, Exchanging, EnableFails, Fault, Enabling
<1>3. ToldAreOn'
  BY DEF TypeOK, ToldAreOn, EnableFails, Fault, Enabling
<1>4. Secrets'
  BY DEF TypeOK, Secrets, EnableFails, Fault, Enabling
<1>5. AnswersMet'
  <2>1. UNCHANGED <<row, met>> /\ \A d \in Enable \ {e} : enable'[d] = enable[d]
    BY DEF TypeOK, EnableFails
  <2>2. enable'[e].at = "failed"
    BY DEF TypeOK, EnableFails
  <2> QED  BY <2>1, <2>2 DEF AnswersMet, Enabling
<1>6. LastSecretWorks'
  <2> SUFFICES ASSUME NEW v \in User, row'[v].on, last'[v] # row'[v].secret
               PROVE  \/ enable'[row'[v].secret].at \in {"answering", "failed"}
                      \/ \E d \in Enable : {d, row'[v].secret} \in met' /\ d # row'[v].secret
    BY DEF LastSecretWorks
  <2>1. row' = row /\ last' = last /\ met' = met /\ row[v].secret \in Enable
    BY DEF TypeOK, EnableFails
  <2>2. enable[row[v].secret].at \in {"answering", "failed"}
        => enable'[row[v].secret].at \in {"answering", "failed"}
    BY <2>1 DEF TypeOK, Enabling, EnableFails
  <2> QED  BY <2>1, <2>2 DEF LastSecretWorks
<1> QED  BY <1>1, <1>2, <1>3, <1>4, <1>5, <1>6

\* Restart (CacheModule) keeps the invariant.
LEMMA RestartStep ==
    ASSUME IInv, Restart
    PROVE  IInv'
<1> USE NoneAssumption, FaultAssumption DEF IInv, LoginState, ExchangeState, EnableState
<1>1. TypeOK'
  <2>1. \A m \in Login : [login[m] EXCEPT !.at = "failed"] \in LoginState
    <3> HIDE DEF LoginState
    <3> QED  BY LoginGoesOn DEF TypeOK
  <2>2. \A x \in Exchange : [exchange[x] EXCEPT !.at = "failed"] \in ExchangeState
    BY DEF TypeOK
  <2>3. \A d \in Enable : [enable[d] EXCEPT !.at = "failed"] \in EnableState
    BY DEF TypeOK
  <2>4. /\ login' \in [Login -> LoginState] /\ exchange' \in [Exchange -> ExchangeState]
        /\ enable' \in [Enable -> EnableState]
    <3> HIDE DEF LoginState, ExchangeState, EnableState
    <3> QED  BY <2>1, <2>2, <2>3 DEF TypeOK, Restart
  <2>5. codes' \subseteq {m \in Login : login'[m].at = "coded"}
    BY DEF TypeOK, Restart
  <2>6. UNCHANGED <<row, last, told, crossed, met>> /\ faults' \in 0..MaxFaults
    BY DEF TypeOK, Restart, Fault
  <2> QED  BY <2>4, <2>5, <2>6 DEF TypeOK
<1>2. CodesAreSpent'
  BY DEF TypeOK, CodesAreSpent, Exchanging, Restart, Fault, Enabling
<1>3. ToldAreOn'
  BY DEF TypeOK, ToldAreOn, Restart, Fault, Exchanging, Enabling
<1>4. Secrets'
  BY DEF TypeOK, Secrets, Restart, Fault, Exchanging, Enabling
<1>5. AnswersMet'
  BY DEF TypeOK, AnswersMet, Secrets, Enabling, Restart, Fault, Exchanging
<1>6. LastSecretWorks'
  <2> SUFFICES ASSUME NEW v \in User, row'[v].on, last'[v] # row'[v].secret
               PROVE  \/ enable'[row'[v].secret].at \in {"answering", "failed"}
                      \/ \E d \in Enable : {d, row'[v].secret} \in met' /\ d # row'[v].secret
    BY DEF LastSecretWorks
  <2>1. row' = row /\ last' = last /\ met' = met /\ row[v].secret \in Enable
    BY DEF TypeOK, Restart
  <2>2. enable[row[v].secret].at \in {"answering", "failed"}
        => enable'[row[v].secret].at \in {"answering", "failed"}
    BY <2>1 DEF TypeOK, Enabling, Restart
  <2> QED  BY <2>1, <2>2 DEF LastSecretWorks
<1> QED  BY <1>1, <1>2, <1>3, <1>4, <1>5, <1>6

\* What holds of the variables holds after a step that changes none.
LEMMA StutteringStep ==
    ASSUME IInv, UNCHANGED vars
    PROVE  IInv'
BY DEF vars, IInv, TypeOK, CodesAreSpent, ToldAreOn, Secrets, AnswersMet, LastSecretWorks,
       Enabling, LoginState, ExchangeState, EnableState

\* Every step keeps the invariant.
LEMMA NextStep ==
    ASSUME IInv, [Next]_vars
    PROVE  IInv'
<1>1. ASSUME NEW l \in Login, NEW u \in User, LogIn(l, u)
      PROVE  IInv'
  <2>1. CASE row[u].on
    <3>1. Began(l, u, "asked", "password")
      BY <1>1, <2>1 DEF LogIn
    <3> QED  BY <3>1, BeganStep
  <2>2. CASE ~ row[u].on
    <3>1. Began(l, u, "coding", "password")
      BY <1>1, <2>2 DEF LogIn
    <3> QED  BY <2>2, <3>1, BeganStep
  <2> QED  BY <2>1, <2>2
<1>2. ASSUME NEW l \in Login, NEW u \in User, LogInRefused(l, u)
      PROVE  IInv'
  BY <1>2, BeganStep DEF LogInRefused
<1>3. ASSUME NEW l \in Login, NEW u \in User, GoogleCallback(l, u)
      PROVE  IInv'
  <2>1. CASE u \in GoogleUser
    <3>1. Began(l, u, "coding", "google")
      BY <1>3, <2>1 DEF GoogleCallback
    <3> QED  BY <3>1, BeganStep
  <2>2. CASE u \notin GoogleUser
    <3>1. Began(l, u, "refused", "none")
      BY <1>3, <2>2 DEF GoogleCallback
    <3> QED  BY <3>1, BeganStep
  <2> QED  BY <2>1, <2>2
<1>4. ASSUME NEW l \in Login, CacheAuthCode(l) \/ CodeExpires(l) \/ LoginFails(l)
      PROVE  IInv'
  BY <1>4, CacheAuthCodeStep, CodeExpiresStep, LoginFailsStep
<1>5. ASSUME NEW x \in Exchange, NEW l \in Login, GetCode(x, l)
      PROVE  IInv'
  BY <1>5, GetCodeStep
<1>6. ASSUME NEW x \in Exchange, DeleteCode(x) \/ Authenticated(x) \/ ExchangeFails(x)
      PROVE  IInv'
  BY <1>6, DeleteCodeStep, AuthenticatedStep, ExchangeFailsStep
<1>7. ASSUME NEW e \in Enable, NEW u \in User, FindUserToEnable(e, u)
      PROVE  IInv'
  BY <1>7, FindUserToEnableStep
<1>8. ASSUME NEW e \in Enable, EnableTwoFactor(e) \/ ShowSecret(e) \/ EnableFails(e)
      PROVE  IInv'
  BY <1>8, EnableTwoFactorStep, ShowSecretStep, EnableFailsStep
<1>9. ASSUME NEW u \in User, DisableTwoFactor(u)
      PROVE  IInv'
  BY <1>9, DisableTwoFactorStep
<1>10. CASE Restart
  BY <1>10, RestartStep
<1>11. CASE UNCHANGED vars
  BY <1>11, StutteringStep
<1>12. ASSUME NEW l \in Login, NEW u \in User, ValidateOtp(l, u)
       PROVE  IInv'
  BY <1>12, BeganStep DEF ValidateOtp
<1> QED  BY <1>1, <1>2, <1>3, <1>4, <1>5, <1>6, <1>7, <1>8, <1>9, <1>10, <1>11, <1>12 DEF Next

\* In every state of every run of the logins, exchanges and enable-2fa requests
\* the invariant holds: the type invariant of the tables, what an exchange says
\* of its code, and where each secret comes from.
THEOREM Invariance == Spec => []IInv
<1>1. Init => IInv
  BY InitIInv
<1>2. IInv /\ [Next]_vars => IInv'
  BY NextStep
<1> QED  BY <1>1, <1>2, PTL DEF Spec

\* login, dashboardLogin and enableTwoFactor: a login that begins after its user
\* was shown a secret gets no session from the password alone, however many
\* logins and requests overlap; a disabling that comes later ends the promise.
THEOREM PasswordNeedsMore == Spec => []PasswordAloneIsNotEnough
<1>1. IInv => PasswordAloneIsNotEnough
  BY DEF IInv, TypeOK, CodesAreSpent, ToldAreOn, PasswordAloneIsNotEnough
<1> QED  BY <1>1, Invariance, PTL

\* validateAuthCode: two sessions come from one code only when their requests
\* were both between GET and the answer at one time.
THEOREM OneSession == Spec => []OneSessionPerCode
<1>1. IInv => OneSessionPerCode
  BY DEF IInv, CodesAreSpent, OneSessionPerCode
<1> QED  BY <1>1, Invariance, PTL

\* enableTwoFactor: the authenticator verifies with the last secret it took,
\* unless an answer is missing or two requests met.
THEOREM LastSecret == Spec => []LastSecretWorks
<1>1. IInv => LastSecretWorks
  BY DEF IInv
<1> QED  BY <1>1, Invariance, PTL

=============================================================================
