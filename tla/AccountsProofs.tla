---------------------------- MODULE AccountsProofs ----------------------------
(***************************************************************************)
(* Proofs about Accounts, for every set of requests, addresses, passwords, *)
(* subjects and wallets and every pool size.                               *)
(*                                                                         *)
(* None of the properties is inductive alone.  The invariant adds what a   *)
(* request in mid-flight may rely on: which handler is in which phase      *)
(* (PhaseInv), that a row or session named after a request is written only *)
(* at the end of that request (FreshInv), that the account a request works *)
(* for is the one its credential proves (WhoInv), and that the keys of     *)
(* open transactions are still free (PendingInv).                          *)
(***************************************************************************)
EXTENDS Accounts, TLAPS

PhaseOps(phase) ==
  CASE phase \in {"hashing", "inserting"} -> {"register"}
    [] phase \in {"credentials", "verify"} -> {"login"}
    [] phase \in {"find", "check", "insert_user", "insert_identity", "commit"} -> {"google"}
    [] phase = "session" -> {"register", "login", "google"}
    [] phase = "authenticate" -> {"me", "bind"}
    [] phase = "update_wallet" -> {"bind"}
    [] phase = "revoke" -> {"logout"}
    [] OTHER -> {"register", "login", "google", "me", "bind", "logout"}

\* A request that has arrived has an input, and is in a phase of its handler.
PhaseInv ==
  \A r \in Request :
    /\ pc[r] = "idle" <=> input[r] = None
    /\ pc[r] # "idle" => input[r].op \in PhaseOps(pc[r])
    /\ pc[r] # "done" => reply[r] = "none"

\* The row and the session named after a request are written by its last steps.
FreshInv ==
  \A r \in Request :
    /\ pc[r] \notin {"session", "done"} => users[r] = NoUser
    /\ pc[r] # "done" => sessions[r] = NoSession

\* Passwords, wallets of new accounts and identities belong to accounts with an
\* address, and identities to accounts without a password.
RowInv ==
  /\ \A a \in Account : users[a].email = None => users[a].password = None
  /\ \A r \in Request : users[r].email = None => users[r].wallet = None
  /\ \A s \in Subject : identities[s] # None =>
       users[identities[s]].email # None /\ users[identities[s]].password = None

\* The credential of request r signs in to account a.
Proves(r, a) ==
  /\ a # None
  /\ input[r].op \in {"register", "login", "google"}
  /\ IF input[r].op = "google"
     THEN identities[input[r].subject] = a
     ELSE users[a].email = input[r].email /\ users[a].password = input[r].password

\* The account a request works for.
WhoInv ==
  \A r \in Request :
    /\ pc[r] = "verify" /\ who[r] # None =>
         users[who[r]].email = input[r].email /\ users[who[r]].password # None
    /\ pc[r] = "session" => Proves(r, who[r])
    /\ pc[r] = "update_wallet" => who[r] # None /\ users[who[r]].email # None

\* A session has an owner, whose credential was proved, and an owner has an address.
SessionInv ==
  \A r \in Request : sessions[r].state # "none" => Proves(r, sessions[r].user)

\* A request that presents a token presents one that was issued, and one that came
\* too late finds its session over.
TokenInv ==
  \A r \in Request : input[r] # None /\ input[r].op \in {"me", "logout", "bind"} =>
    /\ sessions[input[r].token].state # "none"
    /\ input[r].late => ~ Live(input[r].token)

\* A subject about to be committed is new, and no other transaction inserts it.
PendingInv ==
  \A q \in Request : pc[q] = "commit" =>
    /\ identities[input[q].subject] = None
    /\ \A r \in Request \ {q} : pc[r] = "commit" => input[r].subject # input[q].subject

\* What a reply says about the request it answers.
ReplyInv ==
  \A r \in Request :
    /\ reply[r] = "signed_in" => input[r].op \in {"register", "login", "google"}
    /\ reply[r] = "email_exists" => input[r].op \in {"register", "google"}
    /\ reply[r] \in {"bound", "wallet_in_use", "wallet_mismatch"} =>
         input[r].op = "bind" /\ who[r] # None
    /\ reply[r] = "logged_out" => input[r].op = "logout"

IInv ==
  /\ TypeOK
  /\ PhaseInv
  /\ FreshInv
  /\ RowInv
  /\ WhoInv
  /\ SessionInv
  /\ TokenInv
  /\ PendingInv
  /\ ReplyInv
  /\ UniqueKeys
  /\ EveryAccountReachable
  /\ SessionsMatchCredentials
  /\ RepliesStayTrue
  /\ EndedSessionsRefused

-----------------------------------------------------------------------------
(* Inputs *)

\* The fields of an input are those its operation has.
LEMMA InputFields ==
  ASSUME NEW i \in Input
  PROVE  /\ i # None /\ i.op \in {"register", "login", "google", "me", "bind", "logout"}
         /\ i.op \in {"register", "login"} => i.email \in Email /\ i.password \in Password
         /\ i.op = "google" => i.email \in Email /\ i.subject \in Subject
         /\ i.op \in {"me", "logout", "bind"} => i.token \in Request
         /\ i.op = "bind" => i.wallet \in Wallet
BY NoneAssumption DEF Input, PasswordInput, GoogleInput, TokenInput, BindInput

\* What TypeOK and PhaseInv say of one request in mid-flight.
LEMMA RequestFacts ==
  ASSUME TypeOK, PhaseInv, NEW r \in Request, pc[r] # "idle"
  PROVE  /\ input[r] \in Input
         /\ input[r].op \in PhaseOps(pc[r])
BY DEF TypeOK, PhaseInv

-----------------------------------------------------------------------------
(* Type correctness *)

LEMMA TypeInit == Init => TypeOK
BY ConstantsAssumption DEF Init, TypeOK, Account, UserRow, NoUser, SessionRow, NoSession,
  Phase, Working, Holding, Reply

LEMMA TypeStep ==
  ASSUME TypeOK, PhaseInv, [Next]_vars
  PROVE  TypeOK'
<1> USE DEF TypeOK, tables, Account, Phase, Working, Holding, Reply, Goto, Answer
<1>1. ASSUME NEW r \in Request, Arrive(r) PROVE TypeOK'
  <2>1. PICK i \in Input : /\ input' = [input EXCEPT ![r] = i]
                           /\ pc' = [pc EXCEPT ![r] = FirstPhase(i.op)]
    BY <1>1 DEF Arrive
  <2>2. FirstPhase(i.op) \in Phase
    BY DEF FirstPhase
  <2>3. QED BY <1>1, <2>1, <2>2 DEF Arrive
<1>2. ASSUME NEW r \in Request, RegisterInsert(r) PROVE TypeOK'
  <2>1. input[r].email \in Email /\ input[r].password \in Password
    BY <1>2, RequestFacts, InputFields DEF RegisterInsert, PhaseOps
  <2>2. EmailRow(input[r]) \in UserRow
    BY <2>1 DEF EmailRow, UserRow, NoUser
  <2>3. QED BY <1>2, <2>2 DEF RegisterInsert
<1>3. ASSUME NEW r \in Request, GoogleCommit(r) PROVE TypeOK'
  <2>1. input[r].email \in Email /\ input[r].subject \in Subject
    BY <1>3, RequestFacts, InputFields DEF GoogleCommit, PhaseOps
  <2>2. [NoUser EXCEPT !.email = input[r].email] \in UserRow
    BY <2>1 DEF UserRow, NoUser
  <2>3. QED BY <1>3, <2>2 DEF GoogleCommit
<1>4. ASSUME NEW r \in Request, UpdateWallet(r) PROVE TypeOK'
  <2>1. input[r].wallet \in Wallet
    BY <1>4, RequestFacts, InputFields DEF UpdateWallet, PhaseOps
  <2>2. users' = users \/ users' = [users EXCEPT ![who[r]].wallet = input[r].wallet]
    BY <1>4 DEF UpdateWallet
  <2>3. users' \in [Account -> UserRow]
    BY <2>1, <2>2 DEF UserRow
  <2>4. pc' \in [Request -> Phase] /\ reply' \in [Request -> Reply]
    BY <1>4 DEF UpdateWallet
  <2>5. QED BY <1>4, <2>3, <2>4 DEF UpdateWallet
<1>5. ASSUME NEW r \in Request,
             \/ RegisterBegin(r) \/ LoginVerify(r) \/ GoogleCheckEmail(r)
             \/ GoogleInsertUser(r) \/ GoogleInsertIdentity(r) \/ Fail(r)
      PROVE TypeOK'
  BY <1>5 DEF RegisterBegin, LoginVerify, GoogleCheckEmail, GoogleInsertUser,
    GoogleInsertIdentity, Fail
<1>6. ASSUME NEW r \in Request, LoginRead(r) PROVE TypeOK'
  <2>1. Credentials(input[r].email) = {} \/
          (CHOOSE a \in Credentials(input[r].email) : TRUE) \in Account
    BY DEF Credentials
  <2>2. QED BY <1>6, <2>1 DEF LoginRead
<1>7. ASSUME NEW r \in Request, GoogleFind(r) PROVE TypeOK'
  <2>1. input[r].subject \in Subject
    BY <1>7, RequestFacts, InputFields DEF GoogleFind, PhaseOps
  <2>2. QED BY <1>7, <2>1 DEF GoogleFind
<1>8. ASSUME NEW r \in Request, CreateSession(r) PROVE TypeOK'
  BY <1>8 DEF CreateSession, SessionRow
<1>9. ASSUME NEW r \in Request, Authenticate(r) PROVE TypeOK'
  <2>1. input[r].token \in Request
    BY <1>9, RequestFacts, InputFields DEF Authenticate, PhaseOps
  <2>2. QED BY <1>9, <2>1 DEF Authenticate, SessionRow
<1>10. ASSUME NEW r \in Request, Revoke(r) PROVE TypeOK'
  BY <1>10 DEF Revoke, SessionRow
<1>11. ASSUME NEW t \in Request, Expire(t) PROVE TypeOK'
  BY <1>11 DEF Expire, SessionRow
<1>12. CASE UNCHANGED vars
  BY <1>12 DEF vars
<1>13. QED
  BY <1>1, <1>2, <1>3, <1>4, <1>5, <1>6, <1>7, <1>8, <1>9, <1>10, <1>11, <1>12
  DEF Next, Step

-----------------------------------------------------------------------------
(* What a step leaves alone *)

\* Set columns and identities never change, sessions end but never revive or move,
\* and a request keeps its input and its answer.
Permanent ==
  /\ \A a \in Account :
       /\ users[a].email # None =>
            users'[a].email = users[a].email /\ users'[a].password = users[a].password
       /\ users[a].wallet # None => users'[a].wallet = users[a].wallet
  /\ \A s \in Subject : identities[s] # None => identities'[s] = identities[s]
  /\ \A t \in Request : sessions[t].state # "none" =>
       /\ sessions'[t].user = sessions[t].user
       /\ sessions'[t].state # "none"
       /\ ~ Live(t) => sessions'[t] = sessions[t]
  /\ \A r \in Request :
       /\ pc[r] # "idle" => pc'[r] # "idle" /\ input'[r] = input[r]
       /\ pc[r] = "done" => pc'[r] = "done" /\ who'[r] = who[r] /\ reply'[r] = reply[r]

LEMMA UpdateWalletEffect ==
  ASSUME NEW r \in Request, UpdateWallet(r)
  PROVE  /\ pc[r] = "update_wallet" /\ pc' = [pc EXCEPT ![r] = "done"]
         /\ UNCHANGED <<identities, sessions, input, who>>
         /\ \E x \in {"bound", "wallet_in_use", "wallet_mismatch", "error"} :
              /\ reply' = [reply EXCEPT ![r] = x]
              /\ \/ /\ x \in {"bound", "error"}
                    /\ Bindable(who[r], input[r].wallet)
                    /\ ~ WalletTaken(input[r].wallet, who[r])
                    /\ users' = [users EXCEPT ![who[r]].wallet = input[r].wallet]
                 \/ /\ x = "wallet_in_use" /\ users' = users
                    /\ WalletTaken(input[r].wallet, who[r])
                 \/ /\ x = "wallet_mismatch" /\ users' = users
                    /\ ~ Bindable(who[r], input[r].wallet)
BY DEF UpdateWallet, Answer

LEMMA PermanentStep ==
  ASSUME IInv, [Next]_vars
  PROVE  Permanent
<1> USE DEF IInv, Permanent, TypeOK, tables, Goto, Answer, Live
<1>1. ASSUME NEW r \in Request, Arrive(r) PROVE Permanent
  BY <1>1 DEF Arrive
<1>2. ASSUME NEW r \in Request, RegisterInsert(r) PROVE Permanent
  <2>1. users[r] = NoUser
    BY <1>2 DEF RegisterInsert, FreshInv
  <2>2. QED BY <1>2, <2>1 DEF RegisterInsert, NoUser, Account
<1>3. ASSUME NEW r \in Request, GoogleCommit(r) PROVE Permanent
  <2>1. users[r] = NoUser /\ identities[input[r].subject] = None
    BY <1>3 DEF GoogleCommit, FreshInv, PendingInv
  <2>2. QED BY <1>3, <2>1 DEF GoogleCommit, NoUser, Account
<1>4. ASSUME NEW r \in Request, UpdateWallet(r) PROVE Permanent
  <2>1. \/ users' = users
        \/ /\ users' = [users EXCEPT ![who[r]].wallet = input[r].wallet]
           /\ users[who[r]].wallet \in {None, input[r].wallet}
    BY <1>4, UpdateWalletEffect DEF Bindable
  <2>2. \A a \in Account :
          /\ users'[a].email = users[a].email /\ users'[a].password = users[a].password
          /\ users[a].wallet # None => users'[a].wallet = users[a].wallet
    BY <2>1 DEF UserRow
  <2>3. /\ pc[r] = "update_wallet" /\ pc' = [pc EXCEPT ![r] = "done"]
        /\ UNCHANGED <<identities, sessions, input, who>>
        /\ \E x \in Reply : reply' = [reply EXCEPT ![r] = x]
    BY <1>4, UpdateWalletEffect DEF Reply
  <2>4. QED BY <2>2, <2>3
<1>5. ASSUME NEW r \in Request,
             \/ RegisterBegin(r) \/ LoginRead(r) \/ LoginVerify(r) \/ GoogleFind(r)
             \/ GoogleCheckEmail(r) \/ GoogleInsertUser(r) \/ GoogleInsertIdentity(r)
             \/ Authenticate(r) \/ Fail(r)
      PROVE Permanent
  BY <1>5 DEF RegisterBegin, LoginRead, LoginVerify, GoogleFind, GoogleCheckEmail,
    GoogleInsertUser, GoogleInsertIdentity, Authenticate, Fail, Working, Holding
<1>6. ASSUME NEW r \in Request, CreateSession(r) PROVE Permanent
  <2>1. sessions[r] = NoSession
    BY <1>6 DEF CreateSession, FreshInv
  <2>2. QED BY <1>6, <2>1 DEF CreateSession, NoSession
<1>7. ASSUME NEW r \in Request, Revoke(r) PROVE Permanent
  <2>1. \/ sessions' = sessions
        \/ Live(input[r].token)
           /\ sessions' = [sessions EXCEPT ![input[r].token].state = "revoked"]
    BY <1>7 DEF Revoke
  <2>2. \A t \in Request : sessions[t].state # "none" =>
          /\ sessions'[t].user = sessions[t].user
          /\ sessions'[t].state # "none"
          /\ ~ Live(t) => sessions'[t] = sessions[t]
    BY <2>1 DEF SessionRow
  <2>3. QED BY <1>7, <2>2 DEF Revoke
<1>8. ASSUME NEW t \in Request, Expire(t) PROVE Permanent
  BY <1>8 DEF Expire, SessionRow
<1>9. CASE UNCHANGED vars
  BY <1>9 DEF vars
<1>10. QED
  BY <1>1, <1>2, <1>3, <1>4, <1>5, <1>6, <1>7, <1>8, <1>9 DEF Next, Step

-----------------------------------------------------------------------------
(* The invariant, one conjunct at a time *)

LEMMA PhaseStep ==
  ASSUME IInv, [Next]_vars
  PROVE  PhaseInv'
<1> USE DEF IInv, TypeOK, PhaseInv, PhaseOps, tables, Goto, Answer
<1>1. ASSUME NEW r \in Request, Arrive(r) PROVE PhaseInv'
  <2>1. PICK i \in Input : /\ input' = [input EXCEPT ![r] = i]
                           /\ pc' = [pc EXCEPT ![r] = FirstPhase(i.op)]
    BY <1>1 DEF Arrive
  <2>2. i # None /\ FirstPhase(i.op) \notin {"idle", "done"} /\ i.op \in PhaseOps(FirstPhase(i.op))
    BY InputFields DEF FirstPhase
  <2>3. QED BY <1>1, <2>1, <2>2 DEF Arrive
<1>2. ASSUME NEW r \in Request,
             \/ RegisterBegin(r) \/ RegisterInsert(r) \/ LoginRead(r) \/ LoginVerify(r)
             \/ GoogleFind(r) \/ GoogleCheckEmail(r) \/ GoogleInsertUser(r)
             \/ GoogleInsertIdentity(r) \/ GoogleCommit(r) \/ CreateSession(r)
      PROVE PhaseInv'
  BY <1>2 DEF RegisterBegin, RegisterInsert, LoginRead, LoginVerify, GoogleFind,
    GoogleCheckEmail, GoogleInsertUser, GoogleInsertIdentity, GoogleCommit, CreateSession
<1>3. ASSUME NEW r \in Request, Authenticate(r) \/ Revoke(r) \/ Fail(r)
      PROVE PhaseInv'
  BY <1>3 DEF Authenticate, Revoke, Fail, Working, Holding
<1>4. ASSUME NEW r \in Request, UpdateWallet(r) PROVE PhaseInv'
  BY <1>4, UpdateWalletEffect
<1>5. ASSUME NEW t \in Request, Expire(t) PROVE PhaseInv'
  BY <1>5 DEF Expire
<1>6. CASE UNCHANGED vars
  BY <1>6 DEF vars
<1>7. QED
  BY <1>1, <1>2, <1>3, <1>4, <1>5, <1>6 DEF Next, Step

LEMMA FreshStep ==
  ASSUME IInv, [Next]_vars
  PROVE  FreshInv'
<1> USE DEF IInv, TypeOK, FreshInv, PhaseInv, PhaseOps, tables, Goto, Answer
<1>1. ASSUME NEW r \in Request, Arrive(r) PROVE FreshInv'
  BY <1>1 DEF Arrive
<1>2. ASSUME NEW r \in Request,
             \/ RegisterBegin(r) \/ LoginRead(r) \/ LoginVerify(r) \/ GoogleFind(r)
             \/ GoogleCheckEmail(r) \/ GoogleInsertUser(r) \/ GoogleInsertIdentity(r)
             \/ Authenticate(r) \/ Fail(r)
      PROVE FreshInv'
  BY <1>2 DEF RegisterBegin, LoginRead, LoginVerify, GoogleFind, GoogleCheckEmail,
    GoogleInsertUser, GoogleInsertIdentity, Authenticate, Fail, Working, Holding
<1>3. ASSUME NEW r \in Request, RegisterInsert(r) \/ GoogleCommit(r) \/ CreateSession(r)
      PROVE FreshInv'
  BY <1>3 DEF RegisterInsert, GoogleCommit, CreateSession, Account
<1>4. ASSUME NEW r \in Request, UpdateWallet(r) PROVE FreshInv'
  <2>1. users[who[r]].email # None
    BY <1>4, UpdateWalletEffect DEF WhoInv
  <2>2. \A q \in Request : users[q] = NoUser => users'[q] = users[q]
    BY <1>4, <2>1, UpdateWalletEffect DEF NoUser, Account
  <2>3. QED BY <1>4, <2>2, UpdateWalletEffect
<1>5. ASSUME NEW r \in Request, Revoke(r) PROVE FreshInv'
  <2>1. \A q \in Request : sessions[q] = NoSession => sessions'[q] = sessions[q]
    BY <1>5 DEF Revoke, Live, NoSession
  <2>2. QED BY <1>5, <2>1 DEF Revoke
<1>6. ASSUME NEW t \in Request, Expire(t) PROVE FreshInv'
  BY <1>6 DEF Expire, Live, NoSession
<1>7. CASE UNCHANGED vars
  BY <1>7 DEF vars
<1>8. QED
  BY <1>1, <1>2, <1>3, <1>4, <1>5, <1>6, <1>7 DEF Next, Step

\* Only three steps write the table users, and only one the table identities.
LEMMA TableWrites ==
  ASSUME IInv, [Next]_vars
  PROVE  \/ UNCHANGED <<users, identities>>
         \/ \E r \in Request : RegisterInsert(r) \/ GoogleCommit(r) \/ UpdateWallet(r)
BY DEF Next, Step, vars, tables, Arrive, RegisterBegin, LoginRead, LoginVerify, GoogleFind,
  GoogleCheckEmail, GoogleInsertUser, GoogleInsertIdentity, CreateSession, Authenticate,
  Revoke, Fail, Expire

\* What a request writes when it creates an account.
LEMMA RegisterEffect ==
  ASSUME IInv, NEW r \in Request, RegisterInsert(r)
  PROVE  /\ input[r].email \in Email /\ input[r].password \in Password
         /\ input[r].op = "register" /\ users[r] = NoUser /\ pc[r] = "inserting"
         /\ UNCHANGED <<identities, sessions, input>>
         /\ \/ users' = users /\ EmailTaken(input[r].email)
            \/ /\ ~ EmailTaken(input[r].email)
               /\ users' = [users EXCEPT ![r] =
                    [email |-> input[r].email, password |-> input[r].password, wallet |-> None]]
<1>1. pc[r] = "inserting" /\ input[r].op = "register" /\ input[r] \in Input /\ users[r] = NoUser
  BY RequestFacts DEF IInv, RegisterInsert, PhaseOps, FreshInv
<1>2. EmailRow(input[r]) =
        [email |-> input[r].email, password |-> input[r].password, wallet |-> None]
  BY DEF EmailRow, NoUser
<1>3. QED BY <1>1, <1>2, InputFields DEF RegisterInsert

LEMMA CommitEffect ==
  ASSUME IInv, NEW r \in Request, GoogleCommit(r)
  PROVE  /\ input[r].email \in Email /\ input[r].subject \in Subject
         /\ input[r].op = "google" /\ users[r] = NoUser /\ pc[r] = "commit"
         /\ identities[input[r].subject] = None /\ ~ EmailTaken(input[r].email)
         /\ UNCHANGED <<sessions, input>>
         /\ users' = [users EXCEPT ![r] =
              [email |-> input[r].email, password |-> None, wallet |-> None]]
         /\ identities' = [identities EXCEPT ![input[r].subject] = r]
<1>1. pc[r] = "commit" /\ input[r].op = "google" /\ input[r] \in Input /\ users[r] = NoUser
  BY RequestFacts DEF IInv, GoogleCommit, PhaseOps, FreshInv
<1>2. [NoUser EXCEPT !.email = input[r].email] =
        [email |-> input[r].email, password |-> None, wallet |-> None]
  BY DEF NoUser
<1>3. identities[input[r].subject] = None /\ ~ EmailTaken(input[r].email)
  BY <1>1 DEF IInv, PendingInv, UniqueKeys
<1>4. QED BY <1>1, <1>2, <1>3, InputFields DEF GoogleCommit

LEMMA RowStep ==
  ASSUME IInv, [Next]_vars
  PROVE  RowInv'
<1> USE DEF IInv, TypeOK, RowInv
<1>1. ASSUME NEW r \in Request, RegisterInsert(r) PROVE RowInv'
  <2>1. /\ users[r] = NoUser /\ identities' = identities
        /\ \/ users' = users
           \/ /\ input[r].email # None
              /\ users' = [users EXCEPT ![r] =
                   [email |-> input[r].email, password |-> input[r].password, wallet |-> None]]
    BY <1>1, RegisterEffect, ConstantsAssumption
  <2>2. \A s \in Subject : identities[s] # r
    BY <2>1, ConstantsAssumption DEF NoUser, Account
  <2>3. QED BY <2>1, <2>2 DEF Account
<1>2. ASSUME NEW r \in Request, GoogleCommit(r) PROVE RowInv'
  <2>1. /\ users' = [users EXCEPT ![r] =
              [email |-> input[r].email, password |-> None, wallet |-> None]]
        /\ identities' = [identities EXCEPT ![input[r].subject] = r]
        /\ input[r].email # None /\ users[r] = NoUser
    BY <1>2, CommitEffect, ConstantsAssumption
  <2>2. \A s \in Subject : identities[s] # r
    BY <2>1, ConstantsAssumption DEF NoUser, Account
  <2>3. QED BY <2>1, <2>2 DEF Account
<1>3. ASSUME NEW r \in Request, UpdateWallet(r) PROVE RowInv'
  <2>1. /\ identities' = identities
        /\ users' = users \/ users' = [users EXCEPT ![who[r]].wallet = input[r].wallet]
        /\ who[r] # None /\ users[who[r]].email # None
    BY <1>3, UpdateWalletEffect DEF WhoInv
  <2>2. \A a \in Account :
          /\ users'[a].email = users[a].email /\ users'[a].password = users[a].password
          /\ users[a].email = None => users'[a] = users[a]
    BY <2>1 DEF UserRow
  <2>3. QED BY <2>1, <2>2 DEF Account
<1>4. CASE UNCHANGED <<users, identities>>
  BY <1>4
<1>5. QED
  BY <1>1, <1>2, <1>3, <1>4, TableWrites

\* A proved credential stays proved.
LEMMA ProvesStable ==
  ASSUME IInv, [Next]_vars, NEW r \in Request, pc[r] # "idle",
         NEW a \in Account, Proves(r, a)
  PROVE  Proves(r, a)'
<1>1. input[r] \in Input /\ input'[r] = input[r] /\ Permanent
  BY RequestFacts, PermanentStep DEF IInv, Permanent
<1>2. CASE input[r].op = "google"
  BY <1>1, <1>2, InputFields DEF Proves, Permanent
<1>3. CASE input[r].op \in {"register", "login"}
  <2>1. users[a].email # None
    BY <1>1, <1>3, InputFields, ConstantsAssumption DEF Proves
  <2>2. QED BY <1>1, <1>3, <2>1 DEF Proves, Permanent
<1>4. QED BY <1>2, <1>3 DEF Proves

LEMMA SessionStep ==
  ASSUME IInv, [Next]_vars
  PROVE  SessionInv'
<1> SUFFICES ASSUME NEW r \in Request, sessions'[r].state # "none"
             PROVE  Proves(r, sessions[r].user)' 
  BY DEF SessionInv
<1>1. CASE sessions[r].state # "none"
  <2>1. sessions'[r].user = sessions[r].user /\ pc[r] # "idle" /\ sessions[r].user \in Account
    BY <1>1, PermanentStep DEF Permanent, IInv, FreshInv, NoSession, SessionInv, Proves,
      TypeOK, SessionRow
  <2>2. Proves(r, sessions[r].user)
    BY <1>1 DEF IInv, SessionInv
  <2>3. PICK a \in Account : a = sessions[r].user
    BY <2>1
  <2>4. Proves(r, a)'
    BY <2>1, <2>2, <2>3, ProvesStable
  <2>5. QED BY <2>1, <2>3, <2>4 DEF Proves
<1>2. CASE sessions[r].state = "none"
  <2>1. CreateSession(r)
    BY <1>2 DEF Next, Step, vars, tables, IInv, TypeOK, Live, SessionRow,
      Arrive, RegisterBegin, RegisterInsert, LoginRead, LoginVerify, GoogleFind,
      GoogleCheckEmail, GoogleInsertUser, GoogleInsertIdentity, GoogleCommit, CreateSession,
      Authenticate, Revoke, UpdateWallet, Fail, Expire
  <2>2. Proves(r, who[r]) /\ sessions'[r].user = who[r] /\ UNCHANGED <<users, identities, input>>
    BY <2>1 DEF CreateSession, IInv, WhoInv, TypeOK
  <2>3. QED BY <2>2 DEF Proves
<1>3. QED BY <1>1, <1>2

\* A step of one request does not touch another request.
LEMMA OthersStay ==
  ASSUME TypeOK, NEW r \in Request, NEW q \in Request \ {r}, Arrive(r) \/ Step(r) \/ Fail(r)
  PROVE  pc'[q] = pc[q] /\ who'[q] = who[q] /\ reply'[q] = reply[q] /\ input'[q] = input[q]
<1> USE DEF TypeOK, tables, Goto, Answer
<1>1. CASE UpdateWallet(r)
  BY <1>1, UpdateWalletEffect
<1>2. CASE \/ RegisterBegin(r) \/ RegisterInsert(r) \/ LoginRead(r) \/ LoginVerify(r)
           \/ GoogleFind(r) \/ GoogleCheckEmail(r) \/ GoogleInsertUser(r)
           \/ GoogleInsertIdentity(r) \/ GoogleCommit(r)
  BY <1>2 DEF RegisterBegin, RegisterInsert, LoginRead, LoginVerify, GoogleFind,
    GoogleCheckEmail, GoogleInsertUser, GoogleInsertIdentity, GoogleCommit
<1>3. CASE CreateSession(r) \/ Authenticate(r) \/ Revoke(r) \/ Arrive(r) \/ Fail(r)
  BY <1>3 DEF CreateSession, Authenticate, Revoke, Arrive, Fail
<1>4. QED BY <1>1, <1>2, <1>3 DEF Step

LEMMA WhoStep ==
  ASSUME IInv, [Next]_vars
  PROVE  WhoInv'
<1> USE DEF IInv, TypeOK
<1> SUFFICES ASSUME NEW q \in Request
             PROVE  /\ pc'[q] = "verify" /\ who'[q] # None =>
                         users'[who'[q]].email = input'[q].email /\ users'[who'[q]].password # None
                    /\ pc'[q] = "session" => Proves(q, who[q])'
                    /\ pc'[q] = "update_wallet" => who'[q] # None /\ users'[who'[q]].email # None
  BY DEF WhoInv
<1> DEFINE Moves == \/ LoginRead(q) \/ LoginVerify(q) \/ GoogleFind(q) \/ GoogleCommit(q)
                    \/ RegisterInsert(q) \/ Authenticate(q)
<1>1. CASE ~ Moves
  <2>1. pc'[q] \in {"verify", "session", "update_wallet"} => pc'[q] = pc[q] /\ who'[q] = who[q]
    <3>1. CASE \E r \in Request \ {q} : Arrive(r) \/ Step(r) \/ Fail(r)
      BY <3>1, OthersStay
    <3>2. CASE UNCHANGED vars \/ \E t \in Request : Expire(t)
      BY <3>2 DEF vars, Expire
    <3>3. CASE Arrive(q)
      <4>1. PICK i \in Input : pc' = [pc EXCEPT ![q] = FirstPhase(i.op)]
        BY <3>3 DEF Arrive
      <4>2. QED BY <4>1 DEF FirstPhase
    <3>4. CASE UpdateWallet(q)
      BY <3>4, UpdateWalletEffect
    <3>5. CASE \/ RegisterBegin(q) \/ GoogleCheckEmail(q) \/ GoogleInsertUser(q)
               \/ GoogleInsertIdentity(q) \/ CreateSession(q) \/ Revoke(q) \/ Fail(q)
      BY <3>5 DEF RegisterBegin, GoogleCheckEmail, GoogleInsertUser, GoogleInsertIdentity,
        CreateSession, Revoke, Fail, Goto, Answer
    <3>6. QED BY <1>1, <3>1, <3>2, <3>3, <3>4, <3>5 DEF Next, Step
  <2>2. CASE pc'[q] = "session"
    BY <2>1, <2>2, ProvesStable DEF WhoInv, Proves
  <2>3. CASE pc'[q] \in {"verify", "update_wallet"} /\ who[q] # None
    <3>1. who[q] \in Account /\ users[who[q]].email # None /\ input'[q] = input[q]
      <4>1. input[q] \in Input /\ input[q].op \in PhaseOps(pc[q])
        BY <2>1, <2>3, RequestFacts
      <4>2. pc[q] = "verify" => input[q].email # None
        BY <4>1, InputFields, ConstantsAssumption DEF PhaseOps
      <4>3. QED BY <2>1, <2>3, <4>2, PermanentStep DEF WhoInv, Permanent
    <3>2. users'[who[q]].email = users[who[q]].email /\ users'[who[q]].password = users[who[q]].password
      BY <3>1, PermanentStep DEF Permanent
    <3>3. QED BY <2>1, <2>3, <3>1, <3>2 DEF WhoInv
  <2>4. QED BY <2>1, <2>2, <2>3 DEF WhoInv
<1>2. CASE LoginRead(q)
  <2>1. Credentials(input[q].email) = {} \/
          (CHOOSE a \in Credentials(input[q].email) : TRUE) \in Credentials(input[q].email)
    OBVIOUS
  <2>2. QED BY <1>2, <2>1 DEF LoginRead, Credentials, Goto, tables
<1>3. CASE LoginVerify(q)
  BY <1>3 DEF LoginVerify, Verified, WhoInv, Proves, PhaseInv, PhaseOps, Goto, Answer, tables
<1>4. CASE GoogleFind(q)
  BY <1>4 DEF GoogleFind, Proves, PhaseInv, PhaseOps, Goto, tables
<1>5. CASE GoogleCommit(q)
  <2>1. who'[q] = q /\ q # None /\ pc'[q] \in {"session", "done"}
    BY <1>5, ConstantsAssumption DEF GoogleCommit, Goto, Answer, Account
  <2>2. identities'[input[q].subject] = q /\ input' = input /\ input[q].op = "google"
    BY <1>5, CommitEffect
  <2>3. QED BY <2>1, <2>2 DEF Proves
<1>6. CASE RegisterInsert(q)
  <2>1. CASE EmailTaken(input[q].email)
    BY <1>6, <2>1 DEF RegisterInsert, Answer
  <2>2. CASE ~ EmailTaken(input[q].email)
    <3>1. /\ who' = [who EXCEPT ![q] = q] /\ pc'[q] \in {"session", "done"} /\ input' = input
          /\ users' = [users EXCEPT ![q] = EmailRow(input[q])]
      BY <1>6, <2>2 DEF RegisterInsert, Goto, Answer
    <3>2. input[q].op = "register" /\ q # None
      BY <1>6, RegisterEffect, ConstantsAssumption DEF Account
    <3>3. QED BY <3>1, <3>2 DEF Proves, EmailRow, Account
  <2>3. QED BY <2>1, <2>2
<1>7. CASE Authenticate(q)
  <2>1. input[q] \in Input /\ input[q].op \in {"me", "bind"}
    BY <1>7, RequestFacts DEF Authenticate, PhaseOps
  <2>2. input[q].token \in Request
    BY <2>1, InputFields
  <2>3. QED
    BY <1>7, <2>2 DEF Authenticate, Authenticated, Live, SessionInv, Proves, Goto, Answer, tables
<1>8. QED BY <1>1, <1>2, <1>3, <1>4, <1>5, <1>6, <1>7

LEMMA TokenStep ==
  ASSUME IInv, [Next]_vars
  PROVE  TokenInv'
<1> USE DEF IInv, TypeOK
<1> SUFFICES ASSUME NEW q \in Request, input'[q] # None, input'[q].op \in {"me", "logout", "bind"}
             PROVE  /\ sessions'[input'[q].token].state # "none"
                    /\ input'[q].late => ~ (Live(input[q].token))'
  BY DEF TokenInv, Live
<1>1. CASE pc[q] # "idle"
  <2>1. input'[q] = input[q] /\ input[q] \in Input /\ Permanent
    BY <1>1, PermanentStep, RequestFacts DEF Permanent
  <2>2. input[q].token \in Request /\ input[q] # None
    BY <2>1, InputFields
  <2>3. QED BY <2>1, <2>2 DEF Permanent, TokenInv, Live
<1>2. CASE pc[q] = "idle" /\ Arrive(q)
  BY <1>2, InputFields DEF Arrive, Admissible, Live, tables
<1>3. CASE pc[q] = "idle" /\ ~ Arrive(q)
  <2>1. input'[q] = input[q]
    BY <1>3, OthersStay DEF Next, Step, vars, Expire, RegisterBegin, RegisterInsert, LoginRead,
      LoginVerify, GoogleFind, GoogleCheckEmail, GoogleInsertUser, GoogleInsertIdentity,
      GoogleCommit, CreateSession, Authenticate, Revoke, UpdateWallet, Fail
  <2>2. QED BY <1>3, <2>1 DEF PhaseInv
<1>4. QED BY <1>1, <1>2, <1>3

LEMMA ReplyStep ==
  ASSUME IInv, [Next]_vars
  PROVE  ReplyInv'
<1> USE DEF IInv, TypeOK, PhaseInv, PhaseOps, Goto, Answer, tables
<1> SUFFICES ASSUME NEW q \in Request
             PROVE  /\ reply'[q] = "signed_in" => input'[q].op \in {"register", "login", "google"}
                    /\ reply'[q] = "email_exists" => input'[q].op \in {"register", "google"}
                    /\ reply'[q] \in {"bound", "wallet_in_use", "wallet_mismatch"} =>
                         input'[q].op = "bind" /\ who'[q] # None
                    /\ reply'[q] = "logged_out" => input'[q].op = "logout"
  BY DEF ReplyInv
<1>1. CASE \E r \in Request \ {q} : Arrive(r) \/ Step(r) \/ Fail(r)
  BY <1>1, OthersStay DEF ReplyInv
<1>2. CASE UNCHANGED vars \/ \E t \in Request : Expire(t)
  BY <1>2 DEF vars, Expire, ReplyInv
<1>3. CASE Arrive(q)
  BY <1>3 DEF Arrive
<1>4. CASE UpdateWallet(q)
  BY <1>4, UpdateWalletEffect DEF WhoInv
<1>5. CASE \/ RegisterBegin(q) \/ RegisterInsert(q) \/ LoginRead(q) \/ LoginVerify(q)
           \/ GoogleFind(q) \/ GoogleCheckEmail(q) \/ GoogleInsertUser(q)
           \/ GoogleInsertIdentity(q) \/ GoogleCommit(q)
  BY <1>5 DEF RegisterBegin, RegisterInsert, LoginRead, LoginVerify, GoogleFind,
    GoogleCheckEmail, GoogleInsertUser, GoogleInsertIdentity, GoogleCommit
<1>6. CASE CreateSession(q) \/ Authenticate(q) \/ Revoke(q) \/ Fail(q)
  BY <1>6 DEF CreateSession, Authenticate, Revoke, Fail
<1>7. QED BY <1>1, <1>2, <1>3, <1>4, <1>5, <1>6 DEF Next, Step

LEMMA PendingStep ==
  ASSUME IInv, [Next]_vars
  PROVE  PendingInv'
<1> USE DEF IInv, TypeOK, Goto, Answer, tables
<1> SUFFICES ASSUME NEW q \in Request, pc'[q] = "commit"
             PROVE  /\ identities'[input'[q].subject] = None
                    /\ \A r \in Request \ {q} :
                         pc'[r] = "commit" => input'[r].subject # input'[q].subject
  BY DEF PendingInv
<1> DEFINE Keeps(r) == pc[r] = "commit" /\ input'[r] = input[r]
           Enters(r) == /\ GoogleInsertIdentity(r) /\ input' = input
                        /\ identities[input[r].subject] = None
                        /\ ~ SubjectPending(input[r].subject)
                        /\ \A s \in Request \ {r} : pc'[s] = pc[s]
\* A request is about to commit because it was, or because it has just inserted.
<1>1. ASSUME NEW r \in Request, pc'[r] = "commit" PROVE Keeps(r) \/ Enters(r)
  <2>1. CASE \E s \in Request \ {r} : Arrive(s) \/ Step(s) \/ Fail(s)
    BY <1>1, <2>1, OthersStay
  <2>2. CASE UNCHANGED vars \/ \E t \in Request : Expire(t)
    BY <1>1, <2>2 DEF vars, Expire
  <2>3. CASE Arrive(r)
    <3>1. PICK i \in Input : pc' = [pc EXCEPT ![r] = FirstPhase(i.op)]
      BY <2>3 DEF Arrive
    <3>2. QED BY <1>1, <3>1 DEF FirstPhase
  <2>4. CASE UpdateWallet(r)
    BY <1>1, <2>4, UpdateWalletEffect
  <2>5. CASE GoogleInsertIdentity(r)
    BY <1>1, <2>5 DEF GoogleInsertIdentity
  <2>6. CASE \/ RegisterBegin(r) \/ RegisterInsert(r) \/ LoginRead(r) \/ LoginVerify(r)
             \/ GoogleFind(r) \/ GoogleCheckEmail(r) \/ GoogleInsertUser(r) \/ GoogleCommit(r)
             \/ CreateSession(r) \/ Authenticate(r) \/ Revoke(r) \/ Fail(r)
    BY <1>1, <2>6 DEF RegisterBegin, RegisterInsert, LoginRead, LoginVerify, GoogleFind,
      GoogleCheckEmail, GoogleInsertUser, GoogleCommit, CreateSession, Authenticate, Revoke, Fail
  <2>7. QED BY <2>1, <2>2, <2>3, <2>4, <2>5, <2>6 DEF Next, Step
<1>2. identities'[input'[q].subject] = None
  <2>1. identities[input[q].subject] = None /\ input'[q] = input[q]
    BY <1>1 DEF PendingInv
  <2>2. CASE UNCHANGED identities
    BY <2>1, <2>2
  <2>3. CASE \E r \in Request : GoogleCommit(r)
    <3>1. PICK r \in Request : GoogleCommit(r)
      BY <2>3
    <3>2. r # q /\ pc[r] = "commit" /\ identities' = [identities EXCEPT ![input[r].subject] = r]
      BY <3>1 DEF GoogleCommit
    <3>3. ~ GoogleInsertIdentity(q)
      BY <3>1, <3>2 DEF GoogleInsertIdentity, GoogleCommit
    <3>4. pc[q] = "commit"
      BY <1>1, <3>3
    <3>5. input[r].subject # input[q].subject
      BY <3>2, <3>4 DEF PendingInv
    <3>6. QED BY <2>1, <3>2, <3>5
  <2>4. QED
    BY <2>2, <2>3, TableWrites, RegisterEffect, UpdateWalletEffect
<1>3. ASSUME NEW r \in Request \ {q}, pc'[r] = "commit"
      PROVE  input'[r].subject # input'[q].subject
  BY <1>1, <1>3 DEF PendingInv, SubjectPending
<1>4. QED BY <1>2, <1>3

LEMMA EndedStep ==
  ASSUME IInv, [Next]_vars
  PROVE  EndedSessionsRefused'
<1> USE DEF IInv, TypeOK, Goto, Answer, tables
<1> SUFFICES ASSUME NEW q \in Request,
                    pc'[q] = "update_wallet" \/ reply'[q] \in {"user", "bound", "logged_out"}
             PROVE  ~ input'[q].late
  BY DEF EndedSessionsRefused
<1>1. CASE \E r \in Request \ {q} : Arrive(r) \/ Step(r) \/ Fail(r)
  BY <1>1, OthersStay DEF EndedSessionsRefused
<1>2. CASE UNCHANGED vars \/ \E t \in Request : Expire(t)
  BY <1>2 DEF vars, Expire, EndedSessionsRefused
<1>3. CASE Arrive(q)
  <2>1. PICK i \in Input : pc' = [pc EXCEPT ![q] = FirstPhase(i.op)]
    BY <1>3 DEF Arrive
  <2>2. QED BY <1>3, <2>1 DEF Arrive, FirstPhase, PhaseInv
<1>4. CASE UpdateWallet(q)
  BY <1>4, UpdateWalletEffect DEF EndedSessionsRefused
<1>5. CASE Authenticate(q) \/ Revoke(q)
  <2>1. input[q] # None /\ input[q].op \in {"me", "logout", "bind"}
    BY <1>5 DEF Authenticate, Revoke, PhaseInv, PhaseOps
  <2>2. pc'[q] = "update_wallet" \/ reply'[q] \in {"user", "bound", "logged_out"} =>
          Live(input[q].token)
    BY <1>5 DEF Authenticate, Revoke, Authenticated
  <2>3. QED BY <1>5, <2>1, <2>2 DEF TokenInv, Authenticate, Revoke
<1>6. CASE \/ RegisterBegin(q) \/ RegisterInsert(q) \/ LoginRead(q) \/ LoginVerify(q)
           \/ GoogleFind(q) \/ GoogleCheckEmail(q) \/ GoogleInsertUser(q)
           \/ GoogleInsertIdentity(q) \/ GoogleCommit(q) \/ CreateSession(q) \/ Fail(q)
  BY <1>6 DEF RegisterBegin, RegisterInsert, LoginRead, LoginVerify, GoogleFind,
    GoogleCheckEmail, GoogleInsertUser, GoogleInsertIdentity, GoogleCommit, CreateSession, Fail,
    PhaseInv
<1>7. QED BY <1>1, <1>2, <1>3, <1>4, <1>5, <1>6 DEF Next, Step

LEMMA ReachableStep ==
  ASSUME IInv, [Next]_vars
  PROVE  EveryAccountReachable'
<1> USE DEF IInv, TypeOK
<1> SUFFICES ASSUME NEW a \in Account, users'[a].email # None
             PROVE  users'[a].password # None \/ \E s \in Subject : identities'[s] = a
  BY DEF EveryAccountReachable
<1>1. CASE users[a].email # None
  <2>1. users'[a].password = users[a].password
        /\ \A s \in Subject : identities[s] # None => identities'[s] = identities[s]
    BY <1>1, PermanentStep DEF Permanent
  <2>2. a # None
    BY ConstantsAssumption
  <2>3. QED BY <1>1, <2>1, <2>2 DEF EveryAccountReachable
<1>2. CASE users[a].email = None
  <2>1. ASSUME NEW r \in Request, RegisterInsert(r)
        PROVE users'[a].password # None \/ \E s \in Subject : identities'[s] = a
    BY <1>2, <2>1, RegisterEffect, ConstantsAssumption
  <2>2. ASSUME NEW r \in Request, GoogleCommit(r)
        PROVE users'[a].password # None \/ \E s \in Subject : identities'[s] = a
    BY <1>2, <2>2, CommitEffect
  <2>3. ASSUME NEW r \in Request, UpdateWallet(r)
        PROVE FALSE
    <3>1. users' = users \/ users' = [users EXCEPT ![who[r]].wallet = input[r].wallet]
      BY <2>3, UpdateWalletEffect
    <3>2. QED BY <1>2, <3>1 DEF UserRow
  <2>4. QED BY <1>2, <2>1, <2>2, <2>3, TableWrites
<1>3. QED BY <1>1, <1>2

LEMMA CredentialStep ==
  ASSUME IInv, [Next]_vars
  PROVE  SessionsMatchCredentials'
BY SessionStep, RowStep DEF SessionsMatchCredentials, SessionInv, RowInv, Proves

\* Keys that are taken stay taken.
LEMMA TakenStays ==
  ASSUME IInv, [Next]_vars
  PROVE  /\ \A e \in Email : EmailTaken(e) => EmailTaken(e)'
         /\ \A w \in Wallet, a \in Account : WalletTaken(w, a) => WalletTaken(w, a)'
BY PermanentStep, ConstantsAssumption DEF Permanent, EmailTaken, WalletTaken

LEMMA RepliesStep ==
  ASSUME IInv, [Next]_vars
  PROVE  RepliesStayTrue'
<1> USE DEF IInv, TypeOK, Goto, Answer, tables
<1> DEFINE True(q) ==
      /\ reply[q] = "signed_in" => sessions[q].user = who[q] /\ sessions[q].state # "none"
      /\ reply[q] = "email_exists" => EmailTaken(input[q].email)
      /\ reply[q] = "bound" => users[who[q]].wallet = input[q].wallet
      /\ reply[q] = "wallet_in_use" => WalletTaken(input[q].wallet, who[q])
      /\ reply[q] = "wallet_mismatch" => users[who[q]].wallet \notin {None, input[q].wallet}
      /\ reply[q] = "logged_out" => sessions[input[q].token].state = "revoked"
<1> SUFFICES ASSUME NEW q \in Request
             PROVE  True(q)'
  BY DEF RepliesStayTrue
\* An answer given before: what it says is about things that stay.
<1>1. CASE pc[q] = "done"
  <2>1. /\ input[q] \in Input /\ input'[q] = input[q] /\ who'[q] = who[q]
        /\ reply'[q] = reply[q] /\ Permanent /\ True(q)
    BY <1>1, RequestFacts, PermanentStep DEF Permanent, RepliesStayTrue
  <2>2. CASE reply[q] = "email_exists"
    BY <2>1, <2>2, InputFields, TakenStays DEF ReplyInv
  <2>3. CASE reply[q] \in {"bound", "wallet_in_use", "wallet_mismatch"}
    <3>1. who[q] \in Account /\ input[q].wallet \in Wallet /\ input[q].wallet # None
      BY <2>1, <2>3, InputFields, ConstantsAssumption DEF ReplyInv
    <3>2. users[who[q]].wallet # None => users'[who[q]].wallet = users[who[q]].wallet
      BY <2>1, <3>1 DEF Permanent
    <3>3. reply[q] = "wallet_in_use" => WalletTaken(input[q].wallet, who[q])'
      BY <2>1, <3>1, TakenStays DEF WalletTaken
    <3>4. QED BY <2>1, <2>3, <3>1, <3>2, <3>3
  <2>4. CASE reply[q] = "logged_out"
    <3>1. input[q].token \in Request /\ sessions[input[q].token].state = "revoked"
      BY <2>1, <2>4, InputFields DEF ReplyInv
    <3>2. sessions'[input[q].token] = sessions[input[q].token]
      BY <2>1, <3>1 DEF Permanent, Live
    <3>3. QED BY <2>1, <2>4, <3>1, <3>2
  <2>5. CASE reply[q] = "signed_in"
    BY <2>1, <2>5 DEF Permanent
  <2>6. QED BY <2>1, <2>2, <2>3, <2>4, <2>5
\* An answer given now.
<1>2. CASE pc[q] # "done" /\ reply'[q] = "none"
  BY <1>2
<1>3. CASE pc[q] # "done" /\ reply'[q] # "none"
  <2>1. reply[q] = "none"
    BY <1>3 DEF PhaseInv
  <2>2. CASE RegisterInsert(q) \/ GoogleCheckEmail(q)
    BY <2>1, <2>2 DEF RegisterInsert, GoogleCheckEmail, EmailTaken
  <2>3. CASE CreateSession(q)
    BY <2>1, <2>3 DEF CreateSession
  <2>4. CASE UpdateWallet(q)
    <3>1. who[q] \in Account /\ input[q].wallet \in Wallet
      BY <2>4, UpdateWalletEffect, RequestFacts, InputFields DEF PhaseOps, WhoInv
    <3>2. QED BY <2>1, <2>4, <3>1, UpdateWalletEffect DEF Bindable, WalletTaken, UserRow
  <2>5. CASE Revoke(q)
    <3>1. input[q].token \in Request
      BY <2>5, RequestFacts, InputFields DEF Revoke, PhaseOps
    <3>2. QED BY <2>1, <2>5, <3>1 DEF Revoke, SessionRow
  <2>6. CASE \/ RegisterBegin(q) \/ LoginRead(q) \/ LoginVerify(q) \/ GoogleFind(q)
             \/ GoogleInsertUser(q) \/ GoogleInsertIdentity(q) \/ GoogleCommit(q)
             \/ Authenticate(q) \/ Arrive(q) \/ Fail(q)
    BY <2>1, <2>6 DEF RegisterBegin, LoginRead, LoginVerify, GoogleFind, GoogleInsertUser,
      GoogleInsertIdentity, GoogleCommit, Authenticate, Arrive, Fail
  <2>7. CASE \E r \in Request \ {q} : Arrive(r) \/ Step(r) \/ Fail(r)
    BY <1>3, <2>1, <2>7, OthersStay
  <2>8. CASE UNCHANGED vars \/ \E t \in Request : Expire(t)
    BY <1>3, <2>1, <2>8 DEF vars, Expire
  <2>9. QED
    BY <2>2, <2>3, <2>4, <2>5, <2>6, <2>7, <2>8 DEF Next, Step
<1>4. QED BY <1>1, <1>2, <1>3

\* The four parts of UniqueKeys.
UniqueColumns ==
  \A a, b \in Account : a # b =>
    /\ users[a].email = users[b].email => users[a].email = None
    /\ users[a].wallet = users[b].wallet => users[a].wallet = None
PendingFree ==
  \A q \in Request : pc[q] \in {"insert_identity", "commit"} => ~ EmailTaken(input[q].email)
PendingApart ==
  \A q, r \in Request : {pc[q], pc[r]} \subseteq {"insert_identity", "commit"} /\ q # r =>
    input[q].email # input[r].email
UniqueSubjects ==
  \A s, t \in Subject : identities[s] = identities[t] => s = t \/ identities[s] = None

LEMMA UniqueParts ==
  UniqueKeys <=> UniqueColumns /\ PendingFree /\ PendingApart /\ UniqueSubjects
BY DEF UniqueKeys, UniqueColumns, PendingFree, PendingApart, UniqueSubjects

LEMMA ColumnsStep ==
  ASSUME IInv, [Next]_vars
  PROVE  UniqueColumns' /\ UniqueSubjects'
<1> USE DEF IInv, TypeOK
<1>1. UniqueColumns /\ UniqueSubjects
  BY UniqueParts
<1>2. ASSUME NEW r \in Request, RegisterInsert(r) PROVE UniqueColumns' /\ UniqueSubjects'
  <2>1. /\ identities' = identities
        /\ \/ users' = users
           \/ /\ \A b \in Account : users[b].email # input[r].email
              /\ users' = [users EXCEPT ![r] =
                   [email |-> input[r].email, password |-> input[r].password, wallet |-> None]]
    BY <1>2, RegisterEffect DEF EmailTaken
  <2>2. QED BY <1>1, <2>1 DEF UniqueColumns, UniqueSubjects, Account
<1>3. ASSUME NEW r \in Request, GoogleCommit(r) PROVE UniqueColumns' /\ UniqueSubjects'
  <2>1. /\ users' = [users EXCEPT ![r] =
              [email |-> input[r].email, password |-> None, wallet |-> None]]
        /\ identities' = [identities EXCEPT ![input[r].subject] = r]
        /\ \A b \in Account : users[b].email # input[r].email
        /\ users[r].email = None
    BY <1>3, CommitEffect DEF EmailTaken, NoUser
  <2>2. \A s \in Subject : identities[s] # r
    BY <2>1, ConstantsAssumption DEF RowInv, Account
  <2>3. QED BY <1>1, <2>1, <2>2 DEF UniqueColumns, UniqueSubjects, Account
<1>4. ASSUME NEW r \in Request, UpdateWallet(r) PROVE UniqueColumns' /\ UniqueSubjects'
  <2>1. /\ identities' = identities
        /\ who[r] \in Account
        /\ \/ users' = users
           \/ /\ \A b \in Account \ {who[r]} : users[b].wallet # input[r].wallet
              /\ users' = [users EXCEPT ![who[r]].wallet = input[r].wallet]
    BY <1>4, UpdateWalletEffect DEF WhoInv, WalletTaken
  <2>2. CASE users' = users
    BY <1>1, <2>1, <2>2 DEF UniqueColumns, UniqueSubjects
  <2>3. CASE users' # users
    <3>1. /\ \A a \in Account : users'[a].email = users[a].email
          /\ \A a \in Account : users'[a].wallet =
               IF a = who[r] THEN input[r].wallet ELSE users[a].wallet
      BY <2>1, <2>3 DEF UserRow
    <3>2. \A b \in Account \ {who[r]} : users[b].wallet # input[r].wallet
      BY <2>1, <2>3
    <3>3. QED BY <1>1, <2>1, <3>1, <3>2 DEF UniqueColumns, UniqueSubjects
  <2>4. QED BY <2>2, <2>3
<1>5. CASE UNCHANGED <<users, identities>>
  BY <1>1, <1>5 DEF UniqueColumns, UniqueSubjects
<1>6. QED BY <1>2, <1>3, <1>4, <1>5, TableWrites

Inserting == {"insert_identity", "commit"}

\* A request whose user row is pending had it pending before, or has just found its
\* address neither stored nor pending.
LEMMA PendingEntry ==
  ASSUME IInv, [Next]_vars, NEW q \in Request, pc'[q] \in Inserting
  PROVE  /\ input'[q] = input[q] /\ input[q].email \in Email
         /\ \/ pc[q] \in Inserting
            \/ /\ ~ EmailTaken(input[q].email) /\ ~ EmailPending(input[q].email)
               /\ UNCHANGED <<users, input>>
               /\ \A r \in Request \ {q} : pc'[r] = pc[r]
<1> USE DEF IInv, TypeOK, Goto, Answer, tables, Inserting
<1>1. CASE pc[q] \in Inserting
  <2>1. input[q] \in Input /\ input[q].op = "google" /\ input'[q] = input[q]
    BY <1>1, RequestFacts, PermanentStep DEF PhaseOps, Permanent
  <2>2. QED BY <1>1, <2>1, InputFields
<1>2. CASE pc[q] \notin Inserting
  <2>1. ~ \E r \in Request \ {q} : Arrive(r) \/ Step(r) \/ Fail(r)
    BY <1>2, OthersStay
  <2>2. ~ (UNCHANGED vars \/ \E t \in Request : Expire(t))
    BY <1>2 DEF vars, Expire
  <2>3. ~ Arrive(q)
    <3>1. ASSUME Arrive(q) PROVE FALSE
      <4>1. PICK i \in Input : pc' = [pc EXCEPT ![q] = FirstPhase(i.op)]
        BY <3>1 DEF Arrive
      <4>2. QED BY <4>1 DEF FirstPhase
    <3>2. QED BY <3>1
  <2>4. ~ UpdateWallet(q)
    BY UpdateWalletEffect
  <2>5. ~ \/ RegisterBegin(q) \/ RegisterInsert(q) \/ LoginRead(q) \/ LoginVerify(q)
          \/ GoogleFind(q) \/ GoogleCheckEmail(q) \/ GoogleInsertIdentity(q) \/ GoogleCommit(q)
          \/ CreateSession(q) \/ Authenticate(q) \/ Revoke(q) \/ Fail(q)
    BY <1>2 DEF RegisterBegin, RegisterInsert, LoginRead, LoginVerify, GoogleFind,
      GoogleCheckEmail, GoogleInsertIdentity, GoogleCommit, CreateSession, Authenticate, Revoke, Fail
  <2>6. GoogleInsertUser(q)
    BY <2>1, <2>2, <2>3, <2>4, <2>5 DEF Next, Step
  <2>7. input[q] \in Input /\ input[q].op = "google"
    BY <2>6, RequestFacts DEF GoogleInsertUser, PhaseOps
  <2>8. QED BY <2>6, <2>7, InputFields DEF GoogleInsertUser
<1>3. QED BY <1>1, <1>2

LEMMA PendingFreeStep ==
  ASSUME IInv, [Next]_vars
  PROVE  PendingFree' /\ PendingApart'
<1> USE DEF IInv, TypeOK, Inserting
<1>0. PendingFree /\ PendingApart
  BY UniqueParts
<1>1. ASSUME NEW q \in Request, pc'[q] \in Inserting PROVE ~ EmailTaken(input[q].email)'
  <2>1. /\ input'[q] = input[q] /\ input[q].email \in Email /\ ~ EmailTaken(input[q].email)
    BY <1>0, <1>1, PendingEntry DEF PendingFree
  <2>2. ASSUME NEW r \in Request, RegisterInsert(r) PROVE ~ EmailTaken(input[q].email)'
    <3>1. pc[q] \in Inserting /\ ~ EmailPending(input[r].email)
      <4>1. pc[r] = "inserting" /\ ~ EmailPending(input[r].email) /\ UNCHANGED identities
        BY <2>2 DEF RegisterInsert
      <4>2. r # q
        BY <1>1, <2>2, <4>1 DEF RegisterInsert, Goto, Answer
      <4>3. pc'[r] # pc[r]
        BY <2>2, <4>1 DEF RegisterInsert, Goto, Answer
      <4>4. QED BY <1>1, <4>1, <4>2, <4>3, PendingEntry
    <3>2. input[r].email # input[q].email
      BY <3>1 DEF EmailPending
    <3>3. QED BY <2>1, <2>2, <3>2, RegisterEffect DEF EmailTaken, Account
  <2>3. ASSUME NEW r \in Request, GoogleCommit(r) PROVE ~ EmailTaken(input[q].email)'
    <3>1. pc[r] = "commit" /\ pc'[r] \in {"session", "done"}
      BY <2>3 DEF GoogleCommit, Goto, Answer
    <3>2. r # q /\ pc[q] \in Inserting
      BY <1>1, <3>1, PendingEntry
    <3>3. input[r].email # input[q].email
      BY <1>0, <3>1, <3>2 DEF PendingApart
    <3>4. QED BY <2>1, <2>3, <3>3, CommitEffect DEF EmailTaken, Account
  <2>4. ASSUME NEW r \in Request, UpdateWallet(r) PROVE ~ EmailTaken(input[q].email)'
    <3>1. users' = users \/ users' = [users EXCEPT ![who[r]].wallet = input[r].wallet]
      BY <2>4, UpdateWalletEffect
    <3>2. \A a \in Account : users'[a].email = users[a].email
      BY <3>1 DEF UserRow
    <3>3. QED BY <2>1, <3>2 DEF EmailTaken
  <2>5. QED BY <2>1, <2>2, <2>3, <2>4, TableWrites DEF EmailTaken
<1>2. PendingApart'
  <2>1. SUFFICES ASSUME NEW q \in Request, NEW r \in Request, q # r,
                        pc'[q] \in Inserting, pc'[r] \in Inserting
                 PROVE  input'[q].email # input'[r].email
    BY DEF PendingApart
  <2>2. CASE pc[q] \in Inserting /\ pc[r] \in Inserting
    BY <1>0, <2>1, <2>2, PendingEntry DEF PendingApart
  <2>3. CASE pc[q] \notin Inserting
    BY <2>1, <2>3, PendingEntry DEF EmailPending
  <2>4. CASE pc[r] \notin Inserting
    BY <2>1, <2>4, PendingEntry DEF EmailPending
  <2>5. QED BY <2>2, <2>3, <2>4
<1>3. QED BY <1>1, <1>2 DEF PendingFree

LEMMA UniqueStep ==
  ASSUME IInv, [Next]_vars
  PROVE  UniqueKeys'
<1>1. (UniqueKeys <=> UniqueColumns /\ PendingFree /\ PendingApart /\ UniqueSubjects)'
  BY DEF UniqueKeys, UniqueColumns, PendingFree, PendingApart, UniqueSubjects
<1>2. QED BY <1>1, ColumnsStep, PendingFreeStep

-----------------------------------------------------------------------------
(* The theorems *)

LEMMA InvariantInit == Init => IInv
<1> SUFFICES ASSUME Init PROVE IInv
  OBVIOUS
<1>1. TypeOK
  BY TypeInit
<1>2. PhaseInv /\ WhoInv /\ TokenInv /\ PendingInv /\ ReplyInv
  BY DEF Init, PhaseInv, WhoInv, TokenInv, PendingInv, ReplyInv, PhaseOps
<1>3. \A a \in Account : users[a].email = None /\ users[a].password = None
                        /\ (users[a].wallet # None => users[a].wallet = a)
  BY DEF Init, NoUser
<1>4. FreshInv
  BY ConstantsAssumption DEF Init, FreshInv, Account
<1>5. RowInv
  BY <1>3, ConstantsAssumption DEF Init, RowInv, Account, NoUser
<1>6. SessionInv /\ EveryAccountReachable /\ SessionsMatchCredentials
  BY <1>3 DEF Init, SessionInv, EveryAccountReachable, SessionsMatchCredentials, NoSession
<1>7. UniqueKeys
  BY <1>3, ConstantsAssumption DEF Init, UniqueKeys, EmailTaken, Account
<1>8. RepliesStayTrue /\ EndedSessionsRefused
  BY DEF Init, RepliesStayTrue, EndedSessionsRefused
<1>9. QED BY <1>1, <1>2, <1>4, <1>5, <1>6, <1>7, <1>8 DEF IInv

LEMMA InvariantStep == IInv /\ [Next]_vars => IInv'
<1> SUFFICES ASSUME IInv, [Next]_vars PROVE IInv'
  OBVIOUS
<1>1. TypeOK'
  BY TypeStep DEF IInv
<1>2. QED
  BY <1>1, PhaseStep, FreshStep, RowStep, WhoStep, SessionStep, TokenStep, PendingStep,
    ReplyStep, UniqueStep, ReachableStep, CredentialStep, RepliesStep, EndedStep DEF IInv

LEMMA Invariance == Spec => []IInv
BY InvariantInit, InvariantStep, PTL DEF Spec

\* Type correctness: every table and every request is what its column and phase
\* types say, whatever the handlers do.
THEOREM TypeCorrect == Spec => []TypeOK
BY Invariance, PTL DEF IInv

\* No address and no wallet ever belongs to two accounts, and of two requests that
\* insert the same address or subject at once, one waits.
THEOREM KeysUnique == Spec => []UniqueKeys
BY Invariance, PTL DEF IInv

\* No crash, failure or interleaving leaves an address stored without a credential.
THEOREM AccountsReachable == Spec => []EveryAccountReachable
BY Invariance, PTL DEF IInv

\* A session is only ever issued for the account whose credential was proved, and a
\* Google sign-in never leads into an account with a password.
THEOREM NoTakeOver == Spec => []SessionsMatchCredentials
BY Invariance, PTL DEF IInv

\* No later request falsifies an answer that a client already has.
THEOREM RepliesHold == Spec => []RepliesStayTrue
BY Invariance, PTL DEF IInv

\* A token whose session was revoked or has expired serves no later request.
THEOREM EndedRefused == Spec => []EndedSessionsRefused
BY Invariance, PTL DEF IInv

\* No step overwrites a set column, moves an identity or a session to another
\* account, revives an ended session or takes an answer back.
THEOREM Permanence == Spec => [][Permanent]_vars
<1>1. IInv /\ [Next]_vars => Permanent
  BY PermanentStep
<1>2. QED BY <1>1, Invariance, PTL DEF Spec

=============================================================================
