------------------------- MODULE AccountCredentials -------------------------
(***************************************************************************)
(* One account's aggregate and everything that writes it: registration,    *)
(* sign-in, password change and reset, identifiers and their verification, *)
(* linked providers, suspension and the moderator role                     *)
(* (account/service_auth.go, service_me.go, service_admin.go, service.go,  *)
(* domain/account.go, adapter/postgres/aggregate.go).                      *)
(*                                                                         *)
(* A handler loads the aggregate, changes its copy and saves the whole of  *)
(* it on the version it read; the sessions are dropped after the write.    *)
(* The session store itself is module SessionStore: here the account is    *)
(* signed in or not.                                                       *)
(***************************************************************************)
EXTENDS Integers, FiniteSets

CONSTANTS
  Emails,          \* addresses; one of them may be on the row
  Providers,       \* OAuth providers
  Secrets,         \* one-time secrets, random and unique: none is requested when all are drawn
  AccountCallers,  \* concurrent requests
  MaxVersion,      \* how often the row is written
  NoEmail, NoSecret

ASSUME AccountAssumption ==
  /\ MaxVersion \in Nat \ {0}
  /\ NoEmail \notin Emails /\ NoSecret \notin Secrets

VARIABLES
  account,    \* the row and its linked providers; version 0 before it exists
  secret,     \* the secrets in the cache: what each is for and the address it went to
  minted,     \* the secrets already drawn
  throttled,  \* the sends the cache is holding back
  signedIn,   \* some session of the account is live
  work        \* the running requests

accountVars == <<account, secret, minted, throttled, signedIn, work>>

Account == [version : 0 .. MaxVersion, password : BOOLEAN, email : Emails \cup {NoEmail},
            phone : BOOLEAN, verified : BOOLEAN, providers : SUBSET Providers,
            suspended : BOOLEAN, moderator : BOOLEAN]

NoAccount == [version |-> 0, password |-> FALSE, email |-> NoEmail, phone |-> FALSE,
              verified |-> FALSE, providers |-> {}, suspended |-> FALSE, moderator |-> FALSE]

Scopes == {"password-reset", "email-verify"}
Unminted == [for |-> "none", to |-> NoEmail]
NoWork == [op |-> "none", at |-> "idle", row |-> NoAccount, secret |-> NoSecret]

\* Which columns each request is there to change.
Touches ==
  [password |-> {"change-password", "reset-password"},
   email |-> {"update-me"}, phone |-> {"update-me"},
   verified |-> {"update-me", "verify-email"},
   providers |-> {"link", "unlink"},
   suspended |-> {"suspend", "lift"}, moderator |-> {"revoke-moderator"}]

Saves == {"change-password", "update-me", "verify-email", "link", "unlink", "suspend", "lift",
          "revoke-moderator", "reset-password"}

\* Every variable holds a value of its kind.
AccountTypeOK ==
  /\ account \in Account
  /\ secret \in [Secrets -> [for : Scopes \cup {"none"}, to : Emails \cup {NoEmail}]]
  /\ minted \subseteq Secrets
  /\ throttled \subseteq Scopes
  /\ signedIn \in BOOLEAN
  /\ work \in [AccountCallers ->
       [op : Saves \cup {"none", "login", "request-reset", "request-verify", "greet"},
        at : {"idle", "save", "revoke", "session", "take", "load", "throttle", "mint"},
        row : Account, secret : Secrets \cup {NoSecret}]]

AccountInit ==
  /\ account = NoAccount
  /\ secret = [s \in Secrets |-> Unminted]
  /\ minted = {} /\ throttled = {} /\ signedIn = FALSE
  /\ work = [c \in AccountCallers |-> NoWork]

-----------------------------------------------------------------------------
(* The aggregate's rules *)

Exists == account.version > 0
HasIdentifier(a) == a.email # NoEmail \/ a.phone
SignInMethods(a) == Cardinality(a.providers) + (IF a.password THEN 1 ELSE 0)

\* Validate, which Create and Save both run.
ValidAccount(a) == HasIdentifier(a) /\ SignInMethods(a) > 0

NewAccount(e) == [NoAccount EXCEPT !.version = 1, !.password = TRUE, !.email = e, !.phone = e = NoEmail]
NewOAuthAccount(e, v, p) ==
  [NoAccount EXCEPT !.version = 1, !.email = e, !.phone = e = NoEmail, !.verified = v, !.providers = {p}]

\* SetEmail and ClearEmail: a changed address is unverified.
SetEmail(a, e) == IF a.email = e THEN a ELSE [a EXCEPT !.email = e, !.verified = FALSE]

CanUnlink(a, p) == p \in a.providers /\ SignInMethods(a) > 1
CanLink(a, p) == p \notin a.providers

\* Mutant: UPDATE ... WHERE id = @id alone.
SaveLandsAnyway(a) == TRUE

\* Save lands on the version the copy was read at.
SaveLands(a) == a.version = account.version

-----------------------------------------------------------------------------
(* Steps every request is made of *)

Idling(c) == work[c].op = "none"
Working(c, op, step, a, s) == work' = [work EXCEPT ![c] = [op |-> op, at |-> step, row |-> a, secret |-> s]]
WorkStep(c, step) == work' = [work EXCEPT ![c].at = step]

\* A request with nothing left to save: of its copy it needs the address at most.
AddressOf(a) == [NoAccount EXCEPT !.email = a.email]
WorkOn(c, step, a) == work' = [work EXCEPT ![c].at = step, ![c].row = a, ![c].secret = NoSecret]
WorkDone(c) == work' = [work EXCEPT ![c] = NoWork]

\* A request that changed its copy and goes on to Save.
Writing(c, op, a) ==
  /\ Idling(c) /\ Exists /\ account.version < MaxVersion
  /\ Working(c, op, "save", a, NoSecret)
  /\ UNCHANGED <<account, secret, minted, throttled, signedIn>>

\* Save, and what the handler does next: drop the sessions, mail the new address,
\* sign in, or answer.
SaveAccount(c) ==
  LET a == work[c].row
      op == work[c].op IN
  /\ work[c].at = "save"
  /\ \/ /\ SaveLands(a) /\ ValidAccount(a)
        /\ account' = [a EXCEPT !.version = account.version + 1]
        /\ CASE op \in {"change-password", "reset-password", "suspend", "revoke-moderator"} ->
                  WorkOn(c, "revoke", NoAccount)
             [] op = "update-me" /\ a.email # account.email /\ a.email # NoEmail ->
                  WorkOn(c, "mint", AddressOf(a))
             [] op = "link" -> WorkOn(c, "session", NoAccount)
             [] OTHER -> WorkDone(c)
     \/ ~(SaveLands(a) /\ ValidAccount(a)) /\ WorkDone(c) /\ UNCHANGED account
  /\ UNCHANGED <<secret, minted, throttled, signedIn>>

\* sessions.RevokeAll.  A password change keeps the session it came with.
DropSessions(c) ==
  /\ work[c].at = "revoke" /\ WorkDone(c)
  /\ signedIn' = (work[c].op = "change-password" /\ signedIn)
  /\ UNCHANGED <<account, secret, minted, throttled>>

\* sessions.Create at the end of a sign-in.
OpenSession(c) ==
  /\ work[c].at = "session" /\ WorkDone(c) /\ signedIn' = TRUE
  /\ UNCHANGED <<account, secret, minted, throttled>>

\* putSecret under a new random key, and the message that carries it.
putSecret(c, s) ==
  LET kind == IF work[c].op = "request-reset" THEN "password-reset" ELSE "email-verify" IN
  /\ work[c].at = "mint" /\ s \notin minted /\ minted' = minted \cup {s}
  /\ secret' = [secret EXCEPT ![s] = [for |-> kind, to |-> work[c].row.email]]
  /\ IF work[c].op = "greet" THEN WorkOn(c, "session", NoAccount) ELSE WorkDone(c)
  /\ UNCHANGED <<account, throttled, signedIn>>

-----------------------------------------------------------------------------
(* The requests *)

\* Register writes the row, mails the address and signs in.
Register(c, e) ==
  /\ Idling(c) /\ ~Exists
  /\ account' = NewAccount(e)
  /\ Working(c, "greet", IF e = NoEmail THEN "session" ELSE "mint", AddressOf(NewAccount(e)), NoSecret)
  /\ UNCHANGED <<secret, minted, throttled, signedIn>>

\* Login: the password was right and the account not suspended on the row just read.
Login(c) ==
  /\ Idling(c) /\ Exists /\ account.password /\ ~account.suspended
  /\ Working(c, "login", "session", NoAccount, NoSecret)
  /\ UNCHANGED <<account, secret, minted, throttled, signedIn>>

\* resolveOAuthAccount: known by its subject, linked by a verified address, or new.
LoginOAuth(c, p, e, v) ==
  \/ /\ Idling(c) /\ Exists /\ p \in account.providers /\ ~account.suspended
     /\ Working(c, "login", "session", NoAccount, NoSecret)
     /\ UNCHANGED <<account, secret, minted, throttled, signedIn>>
  \/ /\ CanLink(account, p) /\ v /\ e = account.email /\ ~account.suspended
     /\ Writing(c, "link", [account EXCEPT !.providers = @ \cup {p}])
  \/ /\ Idling(c) /\ ~Exists
     /\ account' = NewOAuthAccount(e, v, p)
     /\ Working(c, "login", "session", NoAccount, NoSecret)
     /\ UNCHANGED <<secret, minted, throttled, signedIn>>

ChangePassword(c) ==
  signedIn /\ account.password /\ Writing(c, "change-password", [account EXCEPT !.password = TRUE])

UpdateMe(c, e, ph) ==
  signedIn /\ Writing(c, "update-me", [SetEmail(account, e) EXCEPT !.phone = ph])

UnlinkOAuthIdentity(c, p) ==
  signedIn /\ CanUnlink(account, p) /\ Writing(c, "unlink", [account EXCEPT !.providers = @ \ {p}])

AdminSuspendAccount(c) == Writing(c, "suspend", [account EXCEPT !.suspended = TRUE])

AdminLiftSuspension(c) == Writing(c, "lift", [account EXCEPT !.suspended = FALSE])

AdminRevokeModerator(c) ==
  account.moderator /\ Writing(c, "revoke-moderator", [account EXCEPT !.moderator = FALSE])

\* A new moderator's row, written by an admin and signed in by nobody.
AdminCreateModerator(e) ==
  /\ ~Exists /\ account' = [NewAccount(e) EXCEPT !.moderator = TRUE]
  /\ UNCHANGED <<secret, minted, throttled, signedIn, work>>

-----------------------------------------------------------------------------
(* One-time secrets *)

\* RequestPasswordReset and RequestEmailVerification: throttle asks whether a send
\* is held back, and then holds the next one back.
RequestSecret(c, kind) ==
  /\ Idling(c) /\ Exists /\ minted # Secrets /\ kind \notin throttled
  /\ kind = "email-verify" => signedIn /\ account.email # NoEmail /\ ~account.verified
  /\ Working(c, IF kind = "password-reset" THEN "request-reset" ELSE "request-verify",
             "throttle", AddressOf(account), NoSecret)
  /\ UNCHANGED <<account, secret, minted, throttled, signedIn>>

Throttle(c) ==
  /\ work[c].at = "throttle" /\ WorkStep(c, "mint")
  /\ throttled' = throttled \cup
       {IF work[c].op = "request-reset" THEN "password-reset" ELSE "email-verify"}
  /\ UNCHANGED <<account, secret, minted, signedIn>>

ThrottleLapses(kind) ==
  /\ kind \in throttled /\ throttled' = throttled \ {kind}
  /\ UNCHANGED <<account, secret, minted, signedIn, work>>

\* takeSecret, first call: the key is there.
RedeemSecret(c, s) ==
  /\ Idling(c) /\ secret[s].for # "none"
  /\ Working(c, IF secret[s].for = "password-reset" THEN "reset-password" ELSE "verify-email",
             "take", NoAccount, s)
  /\ UNCHANGED <<account, secret, minted, throttled, signedIn>>

\* takeSecret, second call: the key is deleted, whoever else has read it.
takeSecret(c) ==
  /\ work[c].at = "take" /\ WorkStep(c, "load")
  /\ secret' = [secret EXCEPT ![work[c].secret] = Unminted]
  /\ UNCHANGED <<account, minted, throttled, signedIn>>

\* The account the secret names is loaded and changed.
LoadRedeemed(c) ==
  /\ work[c].at = "load" /\ account.version < MaxVersion
  /\ work' = [work EXCEPT ![c].at = "save",
                          ![c].row = IF work[c].op = "reset-password"
                                     THEN [account EXCEPT !.password = TRUE]
                                     ELSE [account EXCEPT !.verified = TRUE]]
  /\ UNCHANGED <<account, secret, minted, throttled, signedIn>>

SecretExpires(s) ==
  /\ secret[s].for # "none" /\ secret' = [secret EXCEPT ![s] = Unminted]
  /\ UNCHANGED <<account, minted, throttled, signedIn, work>>

\* A call fails, or the process dies, in the middle of a request.
AccountCrash(c) ==
  /\ ~Idling(c) /\ WorkDone(c)
  /\ UNCHANGED <<account, secret, minted, throttled, signedIn>>

AccountNext ==
  \/ \E c \in AccountCallers :
       \/ SaveAccount(c) \/ DropSessions(c) \/ OpenSession(c)
       \/ \E s \in Secrets : putSecret(c, s) \/ RedeemSecret(c, s)
       \/ \E e \in Emails \cup {NoEmail} :
            \/ Register(c, e)
            \/ \E ph \in BOOLEAN : UpdateMe(c, e, ph)
            \/ \E p \in Providers, v \in BOOLEAN : LoginOAuth(c, p, e, v)
       \/ Login(c) \/ ChangePassword(c)
       \/ \E p \in Providers : UnlinkOAuthIdentity(c, p)
       \/ AdminSuspendAccount(c) \/ AdminLiftSuspension(c) \/ AdminRevokeModerator(c)
       \/ \E kind \in Scopes : RequestSecret(c, kind)
       \/ Throttle(c) \/ takeSecret(c) \/ LoadRedeemed(c) \/ AccountCrash(c)
  \/ \E e \in Emails : AdminCreateModerator(e)
  \/ \E kind \in Scopes : ThrottleLapses(kind)
  \/ \E s \in Secrets : SecretExpires(s)

AccountSpec == AccountInit /\ [][AccountNext]_accountVars

-----------------------------------------------------------------------------
(* Properties *)

\* Two requests that each see another way in, or another identifier, cannot both
\* remove theirs: an account can always be named and signed in to.
AlwaysAWayIn == Exists => HasIdentifier(account) /\ SignInMethods(account) > 0

\* The whole aggregate is written back, and still a request changes only what it
\* is about: no write carries an older password, suspension, role or address.
WritesOnlyItsPart ==
  \A c \in AccountCallers : work[c].at = "save" /\ work'[c] # work[c] /\ account' # account =>
    \A f \in DOMAIN Touches : account'[f] # account[f] => work[c].op \in Touches[f]

=============================================================================
