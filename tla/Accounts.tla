------------------------------ MODULE Accounts ------------------------------
(***************************************************************************)
(* The account store of the Tickerless API: the tables users,              *)
(* auth_identities and auth_sessions (migrations 0001, 0006, 0008) and the *)
(* handlers under /v1/auth (lib.rs) that read and write them through       *)
(* database.rs.                                                            *)
(*                                                                         *)
(* A request is one HTTP call.  Between two database round trips any other *)
(* request may run, so every round trip is an action of its own and pc     *)
(* names the next one.  A statement outside a transaction is atomic.  The  *)
(* transaction of google_user runs at READ COMMITTED: its rows are seen by *)
(* nobody until GoogleCommit, but a conflicting INSERT waits for it, as    *)
(* PostgreSQL makes it wait on the unique index.                           *)
(*                                                                         *)
(* Identifiers are fresh (UUIDs, 32 random bytes), so the account and the  *)
(* session a request creates are named after the request.  Accounts named  *)
(* after a wallet are the rows of before migration 0006, when a user was a *)
(* wallet address and nothing else.                                        *)
(***************************************************************************)
EXTENDS FiniteSets, Naturals

CONSTANTS
  Request,        \* HTTP requests, each handled once
  Email,          \* normalized addresses (auth::normalize_email)
  Password,       \* passwords that valid_password accepts
  DummyPassword,  \* the password behind auth::dummy_password_hash
  Subject,        \* Google account subjects
  Wallet,         \* Solana public keys
  LegacyWallet,   \* wallets of users that predate email accounts
  PoolSize,       \* connections in the PgPool (10 in database::connect)
  None            \* SQL NULL, and "not yet" in a request

Account == Request \cup LegacyWallet

ASSUME ConstantsAssumption ==
  /\ LegacyWallet \subseteq Wallet
  /\ Request \cap Wallet = {}
  /\ DummyPassword \in Password
  /\ PoolSize \in Nat \ {0}
  /\ None \notin Account \cup Email \cup Password \cup Subject \cup Wallet

VARIABLES
  users,      \* table users; a row of NULLs stands for no row (users_identity_present)
  identities, \* table auth_identities: the account of each Google subject
  sessions,   \* table auth_sessions: owner and state of each token
  input,      \* what each request asks for
  pc,         \* the next round trip of each request
  who,        \* the account each request works for, once it knows
  reply       \* the answer each request got

tables == <<users, identities, sessions>>
vars == <<users, identities, sessions, input, pc, who, reply>>

-----------------------------------------------------------------------------
(* The rows, the requests and their phases *)

UserRow == [email : Email \cup {None}, password : Password \cup {None},
            wallet : Wallet \cup {None}]
NoUser == [email |-> None, password |-> None, wallet |-> None]

SessionRow == [user : Account \cup {None},
               state : {"none", "live", "revoked", "expired"}]
NoSession == [user |-> None, state |-> "none"]

PasswordInput == [op : {"register", "login"}, email : Email, password : Password]
GoogleInput == [op : {"google"}, subject : Subject, email : Email]
TokenInput == [op : {"me", "logout"}, token : Request, late : BOOLEAN]
BindInput == [op : {"bind"}, token : Request, wallet : Wallet, late : BOOLEAN]
Input == PasswordInput \cup GoogleInput \cup TokenInput \cup BindInput

ASSUME NoneAssumption == None \notin Input

\* Mutant: the session is issued while google_user's connection is still held.
HoldingWhileIssuing == {"check", "insert_user", "insert_identity", "commit", "inserting",
                        "session"}

\* Phases in which a request keeps a connection from one step to the next: inside
\* google_user's transaction, and in an INSERT that may wait for such a transaction.
Holding == {"check", "insert_user", "insert_identity", "commit", "inserting"}
Working == Holding \cup {"hashing", "credentials", "verify", "find",
             "session", "authenticate", "update_wallet", "revoke"}
Phase == Working \cup {"idle", "done"}

Reply == {"none", "signed_in", "email_exists", "invalid_credentials", "unauthorized",
          "user", "bound", "wallet_in_use", "wallet_mismatch", "logged_out", "error"}

TypeOK ==
  /\ users \in [Account -> UserRow]
  /\ identities \in [Subject -> Account \cup {None}]
  /\ sessions \in [Request -> SessionRow]
  /\ input \in [Request -> Input \cup {None}]
  /\ pc \in [Request -> Phase]
  /\ who \in [Request -> Account \cup {None}]
  /\ reply \in [Request -> Reply]

-----------------------------------------------------------------------------
(* Helpers *)

\* A statement outside a transaction takes a connection of the pool.
ConnectionFree == Cardinality({q \in Request : pc[q] \in Holding}) < PoolSize

EmailTaken(e) == \E a \in Account : users[a].email = e
WalletTaken(w, a) == \E b \in Account \ {a} : users[b].wallet = w

\* Mutant: an INSERT does not wait for the same key of an open transaction.
NeverPending(e) == FALSE

\* Rows of open transactions: an INSERT of the same key waits for their end.
EmailPending(e) ==
  \E q \in Request : pc[q] \in {"insert_identity", "commit"} /\ input[q].email = e
SubjectPending(s) == \E q \in Request : pc[q] = "commit" /\ input[q].subject = s

Live(t) == sessions[t].state = "live"

Answer(r, x) == /\ pc' = [pc EXCEPT ![r] = "done"]
                /\ reply' = [reply EXCEPT ![r] = x]

Goto(r, phase) == /\ pc' = [pc EXCEPT ![r] = phase]
                  /\ UNCHANGED reply

-----------------------------------------------------------------------------
(* Arrival: routing (configure_app) and the checks before the first await *)

\* Mutant: dispatch to a phase that no handler has.
PhaseOfPath(op) == op

FirstPhase(op) ==
  CASE op = "register" -> "hashing"
    [] op = "login"    -> "credentials"
    [] op = "google"   -> "find"
    [] op = "logout"   -> "revoke"
    [] OTHER           -> "authenticate"

\* late records, for the properties, that the session was already over on arrival.
Admissible(i) ==
  i.op \in {"me", "logout", "bind"} =>
    /\ sessions[i.token].state # "none"
    /\ i.late = ~ Live(i.token)

Arrive(r) ==
  /\ pc[r] = "idle"
  /\ \E i \in Input :
       /\ Admissible(i)
       /\ input' = [input EXCEPT ![r] = i]
       /\ pc' = [pc EXCEPT ![r] = FirstPhase(i.op)]
  /\ UNCHANGED <<tables, who, reply>>

-----------------------------------------------------------------------------
(* POST /v1/auth/email/register *)

EmailRow(i) == [email |-> i.email, password |-> i.password, wallet |-> None]

\* hash_password has run in a worker thread; register_email_user gets a connection.
RegisterBegin(r) ==
  /\ pc[r] = "hashing"
  /\ ConnectionFree
  /\ Goto(r, "inserting")
  /\ UNCHANGED <<tables, input, who>>

\* register_email_user: one INSERT.  The connection may break after the row is
\* stored, and then the handler answers 500 with the account in place.
RegisterInsert(r) ==
  /\ pc[r] = "inserting"
  /\ ~ EmailPending(input[r].email)
  /\ IF EmailTaken(input[r].email)
     THEN Answer(r, "email_exists") /\ UNCHANGED <<users, who>>
     ELSE /\ users' = [users EXCEPT ![r] = EmailRow(input[r])]
          /\ who' = [who EXCEPT ![r] = r]
          /\ Goto(r, "session") \/ Answer(r, "error")
  /\ UNCHANGED <<identities, sessions, input>>

-----------------------------------------------------------------------------
(* POST /v1/auth/email/login *)

\* email_user_credentials: the account of the address that has a password.
Credentials(e) ==
  {a \in Account : users[a].email = e /\ users[a].password # None}

LoginRead(r) ==
  LET found == Credentials(input[r].email) IN
  /\ pc[r] = "credentials"
  /\ ConnectionFree
  /\ who' = [who EXCEPT ![r] = IF found = {} THEN None ELSE CHOOSE a \in found : TRUE]
  /\ Goto(r, "verify")
  /\ UNCHANGED <<tables, input>>

\* verify_password against the hash read before: the dummy hash when there was none.
Verified(r) ==
  input[r].password = IF who[r] = None THEN DummyPassword ELSE users[who[r]].password

LoginVerify(r) ==
  /\ pc[r] = "verify"
  /\ IF who[r] # None /\ Verified(r)
     THEN Goto(r, "session")
     ELSE Answer(r, "invalid_credentials")
  /\ UNCHANGED <<tables, input, who>>

-----------------------------------------------------------------------------
(* POST /v1/auth/google, the ID token already verified *)

GoogleFind(r) ==
  LET known == identities[input[r].subject] IN
  /\ pc[r] = "find"
  /\ ConnectionFree
  /\ who' = [who EXCEPT ![r] = known]
  /\ Goto(r, IF known = None THEN "check" ELSE "session")
  /\ UNCHANGED <<tables, input>>

\* Mutant: signs in to the account that has the address instead of refusing.
GoogleAdoptEmail(r) ==
  /\ pc[r] = "check"
  /\ IF EmailTaken(input[r].email)
     THEN /\ who' = [who EXCEPT ![r] = CHOOSE a \in Account : users[a].email = input[r].email]
          /\ Goto(r, "session")
     ELSE Goto(r, "insert_user") /\ UNCHANGED who
  /\ UNCHANGED <<tables, input>>

GoogleCheckEmail(r) ==
  /\ pc[r] = "check"
  /\ IF EmailTaken(input[r].email)
     THEN Answer(r, "email_exists")
     ELSE Goto(r, "insert_user")
  /\ UNCHANGED <<tables, input, who>>

\* Mutant: the user row is inserted outside the transaction.
GoogleInsertUserAlone(r) ==
  /\ pc[r] = "insert_user"
  /\ IF EmailTaken(input[r].email)
     THEN Answer(r, "error") /\ UNCHANGED users
     ELSE /\ users' = [users EXCEPT ![r] = [NoUser EXCEPT !.email = input[r].email]]
          /\ Goto(r, "insert_identity")
  /\ UNCHANGED <<identities, sessions, input, who>>

\* Waits while another transaction holds the address; a row committed since the
\* check is a unique violation, which google_user reports as a database error.
GoogleInsertUser(r) ==
  /\ pc[r] = "insert_user"
  /\ ~ EmailPending(input[r].email)
  /\ IF EmailTaken(input[r].email)
     THEN Answer(r, "error")
     ELSE Goto(r, "insert_identity")
  /\ UNCHANGED <<tables, input, who>>

\* Mutant: an upsert of the identity, which moves the subject to the new account.
GoogleUpsertIdentity(r) ==
  /\ pc[r] = "insert_identity"
  /\ ~ SubjectPending(input[r].subject)
  /\ Goto(r, "commit")
  /\ UNCHANGED <<tables, input, who>>

GoogleInsertIdentity(r) ==
  /\ pc[r] = "insert_identity"
  /\ ~ SubjectPending(input[r].subject)
  /\ IF identities[input[r].subject] # None
     THEN Answer(r, "error")
     ELSE Goto(r, "commit")
  /\ UNCHANGED <<tables, input, who>>

\* The user row and its identity become visible together, whether or not the
\* acknowledgement of the COMMIT reaches the handler.
GoogleCommit(r) ==
  /\ pc[r] = "commit"
  /\ users' = [users EXCEPT ![r] = [NoUser EXCEPT !.email = input[r].email]]
  /\ identities' = [identities EXCEPT ![input[r].subject] = r]
  /\ who' = [who EXCEPT ![r] = r]
  /\ Goto(r, "session") \/ Answer(r, "error")
  /\ UNCHANGED <<sessions, input>>

-----------------------------------------------------------------------------
(* Sessions: issue_session, /v1/auth/me, /v1/auth/logout, expiry *)

CreateSession(r) ==
  /\ pc[r] = "session"
  /\ ConnectionFree
  /\ sessions' = [sessions EXCEPT ![r] = [user |-> who[r], state |-> "live"]]
  /\ Answer(r, "signed_in") \/ Answer(r, "error")
  /\ UNCHANGED <<users, identities, input, who>>

\* Mutant: authenticated_user without "revoked_at IS NULL".
AuthenticatedUnlessExpired(t) ==
  sessions[t].state \in {"live", "revoked"} /\ users[sessions[t].user].email # None

\* authenticated_user: a live session of an account with an address.
Authenticated(t) == Live(t) /\ users[sessions[t].user].email # None

Authenticate(r) ==
  LET t == input[r].token IN
  /\ pc[r] = "authenticate"
  /\ ConnectionFree
  /\ IF Authenticated(t)
     THEN /\ who' = [who EXCEPT ![r] = sessions[t].user]
          /\ IF input[r].op = "bind" THEN Goto(r, "update_wallet") ELSE Answer(r, "user")
     ELSE Answer(r, "unauthorized") /\ UNCHANGED who
  /\ UNCHANGED <<tables, input>>

\* Mutant: whether the UPDATE of revoke_session found a row is not looked at.
RevokeAnyway(r) ==
  LET t == input[r].token IN
  /\ pc[r] = "revoke"
  /\ ConnectionFree
  /\ sessions' = IF Live(t) THEN [sessions EXCEPT ![t].state = "revoked"] ELSE sessions
  /\ Answer(r, "logged_out") \/ Answer(r, "error")
  /\ UNCHANGED <<users, identities, input, who>>

Revoke(r) ==
  LET t == input[r].token IN
  /\ pc[r] = "revoke"
  /\ ConnectionFree
  /\ IF Live(t)
     THEN /\ sessions' = [sessions EXCEPT ![t].state = "revoked"]
          /\ Answer(r, "logged_out") \/ Answer(r, "error")
     ELSE Answer(r, "unauthorized") /\ UNCHANGED sessions
  /\ UNCHANGED <<users, identities, input, who>>

\* SESSION_TTL_DAYS have passed.
Expire(t) ==
  /\ Live(t)
  /\ sessions' = [sessions EXCEPT ![t].state = "expired"]
  /\ UNCHANGED <<users, identities, input, pc, who, reply>>

-----------------------------------------------------------------------------
(* POST /v1/auth/wallet, after its authentication *)

Bindable(a, w) == users[a].wallet \in {None, w}

\* bind_wallet: one UPDATE.  No row matches, or the unique index refuses it, or
\* it is done.
UpdateWallet(r) ==
  LET a == who[r]
      w == input[r].wallet
  IN /\ pc[r] = "update_wallet"
     /\ ConnectionFree
     /\ \/ /\ ~ Bindable(a, w)
           /\ Answer(r, "wallet_mismatch")
           /\ UNCHANGED users
        \/ /\ Bindable(a, w)
           /\ WalletTaken(w, a)
           /\ Answer(r, "wallet_in_use")
           /\ UNCHANGED users
        \/ /\ Bindable(a, w)
           /\ ~ WalletTaken(w, a)
           /\ users' = [users EXCEPT ![a].wallet = w]
           /\ Answer(r, "bound") \/ Answer(r, "error")
     /\ UNCHANGED <<identities, sessions, input, who>>

-----------------------------------------------------------------------------
(* Failures *)

\* A statement fails, the pool times out, the client goes away or the process
\* stops: the request ends, and an open transaction is rolled back.
Fail(r) ==
  /\ pc[r] \in Working
  /\ Answer(r, "error")
  /\ UNCHANGED <<tables, input, who>>

-----------------------------------------------------------------------------

Step(r) ==
  \/ RegisterBegin(r)
  \/ RegisterInsert(r)
  \/ LoginRead(r)
  \/ LoginVerify(r)
  \/ GoogleFind(r)
  \/ GoogleCheckEmail(r)
  \/ GoogleInsertUser(r)
  \/ GoogleInsertIdentity(r)
  \/ GoogleCommit(r)
  \/ CreateSession(r)
  \/ Authenticate(r)
  \/ Revoke(r)
  \/ UpdateWallet(r)

Init ==
  /\ users = [a \in Account |->
                IF a \in LegacyWallet THEN [NoUser EXCEPT !.wallet = a] ELSE NoUser]
  /\ identities = [s \in Subject |-> None]
  /\ sessions = [r \in Request |-> NoSession]
  /\ input = [r \in Request |-> None]
  /\ pc = [r \in Request |-> "idle"]
  /\ who = [r \in Request |-> None]
  /\ reply = [r \in Request |-> "none"]

Next ==
  \/ \E r \in Request : Arrive(r) \/ Step(r) \/ Fail(r)
  \/ \E t \in Request : Expire(t)

\* The executor polls every request until it is answered, and sqlx hands out
\* connections in the order they were asked for.
Spec == Init /\ [][Next]_vars /\ \A r \in Request : WF_vars(Step(r))

-----------------------------------------------------------------------------
(* Properties *)

\* An address, and a wallet, belongs to one account, counting the rows that open
\* transactions have not committed yet: of two requests that insert the same
\* address or subject at once, one waits (users_email_unique_idx,
\* users_wallet_address_key, auth_identities' UNIQUE constraints).
UniqueKeys ==
  /\ \A a, b \in Account : a # b =>
       /\ users[a].email = users[b].email => users[a].email = None
       /\ users[a].wallet = users[b].wallet => users[a].wallet = None
  /\ \A q \in Request : pc[q] \in {"insert_identity", "commit"} =>
       ~ EmailTaken(input[q].email)
  /\ \A q, r \in Request :
       {pc[q], pc[r]} \subseteq {"insert_identity", "commit"} /\ q # r =>
         input[q].email # input[r].email
  /\ \A s, t \in Subject : identities[s] = identities[t] => s = t \/ identities[s] = None

\* No account is half created: whoever holds an address can sign in, by a password
\* or by a Google identity.  An address stored without either would be lost, since
\* register and google both answer email_exists for it ever after.
EveryAccountReachable ==
  \A a \in Account : users[a].email # None =>
    users[a].password # None \/ \E s \in Subject : identities[s] = a

\* A session belongs to the account whose credential its request proved, and a
\* Google identity never leads into an account that has a password ("does not take
\* over email accounts", the test of google_user).
SessionsMatchCredentials ==
  /\ \A r \in Request : sessions[r].state # "none" =>
       LET a == sessions[r].user IN
       IF input[r].op = "google"
       THEN identities[input[r].subject] = a
       ELSE users[a].email = input[r].email /\ users[a].password = input[r].password
  /\ \A s \in Subject : identities[s] # None => users[identities[s]].password = None

\* What a client has been told stays so, whatever other requests do later: the
\* wallet that was bound is still the account's, the refused address or wallet is
\* still somebody else's, the session that was ended is still revoked.
RepliesStayTrue ==
  \A r \in Request : LET i == input[r] IN
    /\ reply[r] = "signed_in" =>
         sessions[r].user = who[r] /\ sessions[r].state # "none"
    /\ reply[r] = "email_exists" => EmailTaken(i.email)
    /\ reply[r] = "bound" => users[who[r]].wallet = i.wallet
    /\ reply[r] = "wallet_in_use" => WalletTaken(i.wallet, who[r])
    /\ reply[r] = "wallet_mismatch" => users[who[r]].wallet \notin {None, i.wallet}
    /\ reply[r] = "logged_out" => sessions[i.token].state = "revoked"

\* A request that arrives after its session was revoked or has expired is never
\* served: not answered with the user, and no wallet is bound for it.
EndedSessionsRefused ==
  \A r \in Request : pc[r] = "update_wallet" \/ reply[r] \in {"user", "bound", "logged_out"} =>
    ~ input[r].late

\* Every request that arrives is answered: requests that wait for one another's
\* rows or for a connection of the pool never wait in a circle.
EveryRequestAnswered == \A r \in Request : pc[r] # "idle" ~> pc[r] = "done"

-----------------------------------------------------------------------------
(* The store implements the registry of accounts, in which creating an       *)
(* account, opening and ending a session and binding a wallet are atomic.    *)

Credential == (Email \X Password) \cup Subject

ASSUME CredentialAssumption == Subject \cap (Email \X Password) = {}

CredentialsOf(a) ==
  {c \in Email \X Password : users[a].email = c[1] /\ users[a].password = c[2]}
    \cup {s \in Subject : identities[s] = a}

Registry == INSTANCE AccountRegistry WITH
  Session     <- Request,
  address     <- [a \in Account |-> users[a].email],
  credentials <- [a \in Account |-> CredentialsOf(a)],
  wallet      <- [a \in Account |-> users[a].wallet],
  session     <- sessions

ImplementsRegistry == Registry!Spec

=============================================================================
