-------------------------- MODULE AccountsRefinement --------------------------
(***************************************************************************)
(* Proof that the account store implements the registry of accounts: a     *)
(* step of a handler maps to the creation of a complete account, to the    *)
(* binding of a wallet, to the start or the end of a session, or to        *)
(* nothing.                                                                *)
(***************************************************************************)
EXTENDS AccountsProofs

\* A step that leaves the three tables alone is invisible in the registry.
LEMMA TablesStutter ==
  ASSUME UNCHANGED tables
  PROVE  UNCHANGED Registry!vars
BY DEF tables, Registry!vars, CredentialsOf

LEMMA RegisterCreates ==
  ASSUME IInv, NEW r \in Request, RegisterInsert(r)
  PROVE  UNCHANGED tables \/ Registry!Next
<1> DEFINE e == input[r].email
           c == <<e, input[r].password>>
<1>1. CASE EmailTaken(e)
  BY <1>1 DEF RegisterInsert, tables
<1>2. CASE ~ EmailTaken(e)
  <2>1. /\ users' = [users EXCEPT ![r] = EmailRow(input[r])]
        /\ UNCHANGED <<identities, sessions>>
    BY <1>2 DEF RegisterInsert
  <2>2. e \in Email /\ input[r].password \in Password /\ c \in Email \X Password
    BY RequestFacts, InputFields DEF RegisterInsert, PhaseOps, IInv
  <2>3. users[r] = NoUser /\ r \in Account
    BY DEF RegisterInsert, IInv, FreshInv, Account
  <2>4. \A s \in Subject : identities[s] # r
    BY <2>3, ConstantsAssumption DEF IInv, RowInv, NoUser, Account
  <2>5. e # None /\ input[r].password # None
    BY <2>2, ConstantsAssumption
  <2>6. CredentialsOf(r) = {}
    BY <2>3, <2>4, ConstantsAssumption DEF CredentialsOf, NoUser
  <2>7. \A b \in Account : users[b].email # e /\ c \notin CredentialsOf(b)
    <3>1. \A b \in Account : users[b].email # e
      BY <1>2 DEF EmailTaken
    <3>2. c[1] = e /\ c \notin Subject
      BY <2>2, CredentialAssumption
    <3>3. QED BY <3>1, <3>2 DEF CredentialsOf
  <2>8. users'[r] = EmailRow(input[r]) /\ \A b \in Account \ {r} : users'[b] = users[b]
    BY <2>1, <2>3 DEF IInv, TypeOK
  <2>9. CredentialsOf(r)' = {c}
    <3>1. {s \in Subject : identities'[s] = r} = {}
      BY <2>1, <2>4
    <3>2. {d \in Email \X Password : users'[r].email = d[1] /\ users'[r].password = d[2]} = {c}
      BY <2>8, <2>2 DEF EmailRow
    <3>3. QED BY <3>1, <3>2 DEF CredentialsOf
  <2>10. \A b \in Account \ {r} : CredentialsOf(b)' = CredentialsOf(b)
    BY <2>1, <2>8 DEF CredentialsOf
  <2>11. [b \in Account |-> CredentialsOf(b)]' =
           [[b \in Account |-> CredentialsOf(b)] EXCEPT ![r] = {c}]
    BY <2>9, <2>10
  <2>12. /\ \A b \in Account : users'[b].email = IF b = r THEN e ELSE users[b].email
         /\ \A b \in Account : users'[b].wallet = users[b].wallet
    BY <2>8, <2>3 DEF EmailRow, NoUser
  <2>13. [b \in Account |-> users[b].email]' = [[b \in Account |-> users[b].email] EXCEPT ![r] = e]
    BY <2>12
  <2>14. QED
    <3>1. c \in Credential
      BY <2>2 DEF Credential
    <3>2. users[r].email = None
      BY <2>3 DEF NoUser
    <3>3. PICK addr \in Email, cred \in Credential : addr = e /\ cred = c
      BY <2>2, <3>1
    <3>4. Registry!Create(r, addr, cred)
      BY <2>1, <2>3, <2>6, <2>7, <2>11, <2>12, <2>13, <3>2, <3>3 DEF Registry!Create
    <3>5. QED BY <2>3, <3>4 DEF Registry!Next
<1>3. QED BY <1>1, <1>2

LEMMA CommitCreates ==
  ASSUME IInv, NEW r \in Request, GoogleCommit(r)
  PROVE  Registry!Next
<1> DEFINE e == input[r].email
           c == input[r].subject
<1>1. /\ users' = [users EXCEPT ![r] = [NoUser EXCEPT !.email = e]]
      /\ identities' = [identities EXCEPT ![c] = r]
      /\ UNCHANGED sessions
      /\ pc[r] = "commit"
  BY DEF GoogleCommit
<1>2. e \in Email /\ c \in Subject
  BY <1>1, RequestFacts, InputFields DEF PhaseOps, IInv
<1>3. users[r] = NoUser /\ r \in Account /\ identities[c] = None
  BY <1>1 DEF IInv, FreshInv, PendingInv, Account
<1>4. \A s \in Subject : identities[s] # r
  BY <1>3, ConstantsAssumption DEF IInv, RowInv, NoUser, Account
<1>5. CredentialsOf(r) = {}
  BY <1>3, <1>4, ConstantsAssumption DEF CredentialsOf, NoUser
<1>6. \A b \in Account : users[b].email # e /\ c \notin CredentialsOf(b)
  <2>1. \A b \in Account : users[b].email # e
    BY <1>1 DEF IInv, UniqueKeys, EmailTaken
  <2>2. c \notin Email \X Password
    BY <1>2, CredentialAssumption
  <2>3. \A b \in Account : identities[c] # b
    BY <1>3, ConstantsAssumption
  <2>4. QED BY <2>1, <2>2, <2>3 DEF CredentialsOf
<1>7. /\ users'[r] = [email |-> e, password |-> None, wallet |-> None]
      /\ \A b \in Account \ {r} : users'[b] = users[b]
  BY <1>1, <1>3 DEF IInv, TypeOK, NoUser
<1>8. \A s \in Subject : identities'[s] = IF s = c THEN r ELSE identities[s]
  BY <1>1, <1>2 DEF IInv, TypeOK
<1>9. CredentialsOf(r)' = {c}
  <2>1. {s \in Subject : identities'[s] = r} = {c}
    BY <1>2, <1>4, <1>8
  <2>2. {d \in Email \X Password : users'[r].email = d[1] /\ users'[r].password = d[2]} = {}
    BY <1>7, ConstantsAssumption
  <2>3. QED BY <2>1, <2>2 DEF CredentialsOf
<1>10. ASSUME NEW b \in Account \ {r} PROVE CredentialsOf(b)' = CredentialsOf(b)
  <2>1. {s \in Subject : identities'[s] = b} = {s \in Subject : identities[s] = b}
    BY <1>3, <1>8, ConstantsAssumption
  <2>2. users'[b] = users[b]
    BY <1>7
  <2>3. QED BY <2>1, <2>2 DEF CredentialsOf
<1>11. [b \in Account |-> CredentialsOf(b)]' =
         [[b \in Account |-> CredentialsOf(b)] EXCEPT ![r] = {c}]
  BY <1>9, <1>10
<1>12. /\ \A b \in Account : users'[b].email = IF b = r THEN e ELSE users[b].email
       /\ \A b \in Account : users'[b].wallet = users[b].wallet
  BY <1>7, <1>3 DEF NoUser
<1>13. [b \in Account |-> users[b].email]' = [[b \in Account |-> users[b].email] EXCEPT ![r] = e]
  BY <1>12
<1>14. QED
  <2>1. c \in Credential
    BY <1>2 DEF Credential
  <2>2. users[r].email = None
    BY <1>3 DEF NoUser
  <2>3. PICK addr \in Email, cred \in Credential : addr = e /\ cred = c
    BY <1>2, <2>1
  <2>4. Registry!Create(r, addr, cred)
    BY <1>1, <1>3, <1>5, <1>6, <1>11, <1>12, <1>13, <2>2, <2>3 DEF Registry!Create
  <2>5. QED BY <1>3, <2>4 DEF Registry!Next

LEMMA UpdateBinds ==
  ASSUME IInv, NEW r \in Request, UpdateWallet(r)
  PROVE  UNCHANGED tables \/ Registry!Next
<1> DEFINE a == who[r]
           w == input[r].wallet
<1>1. pc[r] = "update_wallet" /\ UNCHANGED <<identities, sessions>>
  BY UpdateWalletEffect
<1>2. w \in Wallet /\ a \in Account /\ users[a].email # None
  BY <1>1, RequestFacts, InputFields DEF PhaseOps, IInv, WhoInv, TypeOK
<1>3. CASE users' = users
  BY <1>1, <1>3 DEF tables
<1>4. CASE users[a].wallet = w /\ users' = [users EXCEPT ![a].wallet = w]
  <2>1. users[a] \in UserRow
    BY <1>2 DEF IInv, TypeOK
  <2>2. [users[a] EXCEPT !.wallet = w] = users[a]
    BY <1>4, <2>1 DEF UserRow
  <2>3. users' = users
    BY <1>4, <2>2, <1>2 DEF IInv, TypeOK
  <2>4. QED BY <1>1, <2>3 DEF tables
<1>5. CASE /\ users[a].wallet = None
           /\ ~ WalletTaken(w, a)
           /\ users' = [users EXCEPT ![a].wallet = w]
  <2>1. \A b \in Account : users[b].wallet # w
    BY <1>2, <1>5, ConstantsAssumption DEF WalletTaken
  <2>2. \A b \in Account :
          /\ users'[b].email = users[b].email /\ users'[b].password = users[b].password
          /\ users'[b].wallet = IF b = a THEN w ELSE users[b].wallet
    BY <1>2, <1>5 DEF IInv, TypeOK, UserRow
  <2>3. [b \in Account |-> users[b].wallet]' = [[b \in Account |-> users[b].wallet] EXCEPT ![a] = w]
    BY <2>2
  <2>4. \A b \in Account : CredentialsOf(b)' = CredentialsOf(b)
    BY <1>1, <2>2 DEF CredentialsOf
  <2>5. PICK acc \in Account, key \in Wallet : acc = a /\ key = w
    BY <1>2
  <2>6. Registry!Bind(acc, key)
    BY <1>1, <1>2, <1>5, <2>1, <2>2, <2>3, <2>4, <2>5 DEF Registry!Bind
  <2>7. QED BY <2>6 DEF Registry!Next
<1>6. QED BY <1>3, <1>4, <1>5, UpdateWalletEffect DEF Bindable

LEMMA SessionOpens ==
  ASSUME IInv, NEW r \in Request, CreateSession(r)
  PROVE  Registry!Next
<1>1. /\ pc[r] = "session"
      /\ sessions' = [sessions EXCEPT ![r] = [user |-> who[r], state |-> "live"]]
      /\ UNCHANGED <<users, identities>>
  BY DEF CreateSession
<1>2. sessions[r] = NoSession
  BY <1>1 DEF IInv, FreshInv
<1>3. Proves(r, who[r]) /\ who[r] \in Account
  BY <1>1 DEF IInv, WhoInv, TypeOK, Proves
<1>4. CredentialsOf(who[r]) # {}
  <2>1. input[r] \in Input
    BY <1>1, RequestFacts DEF IInv
  <2>2. CASE input[r].op = "google"
    <3>1. input[r].subject \in Subject /\ identities[input[r].subject] = who[r]
      BY <2>1, <2>2, <1>3, InputFields DEF Proves
    <3>2. QED BY <3>1 DEF CredentialsOf
  <2>3. CASE input[r].op # "google"
    <3>1. /\ <<input[r].email, input[r].password>> \in Email \X Password
          /\ users[who[r]].email = input[r].email /\ users[who[r]].password = input[r].password
      BY <2>1, <2>3, <1>3, InputFields DEF Proves
    <3>2. QED BY <3>1 DEF CredentialsOf
  <2>4. QED BY <2>2, <2>3
<1>5. \A a \in Account : CredentialsOf(a)' = CredentialsOf(a)
  BY <1>1 DEF CredentialsOf
<1>6. sessions[r].state = "none"
  BY <1>2 DEF NoSession
<1>7. PICK acc \in Account : acc = who[r]
  BY <1>3
<1>8. Registry!Open(r, acc)
  BY <1>1, <1>4, <1>5, <1>6, <1>7 DEF Registry!Open
<1>9. QED BY <1>8 DEF Registry!Next

LEMMA SessionEnds ==
  ASSUME IInv, NEW t \in Request, Live(t), NEW x \in {"revoked", "expired"},
         sessions' = [sessions EXCEPT ![t].state = x],
         UNCHANGED <<users, identities>>
  PROVE  Registry!Next
BY DEF Live, Registry!Next, Registry!End, CredentialsOf

-----------------------------------------------------------------------------

LEMMA RegistryInit == Init => Registry!Init
<1> SUFFICES ASSUME Init PROVE Registry!Init
  OBVIOUS
<1>1. \A a \in Account :
        /\ users[a].email = None
        /\ users[a].wallet = IF a \in LegacyWallet THEN a ELSE None
  BY DEF Init, NoUser
<1>2. \A a \in Account : CredentialsOf(a) = {}
  BY <1>1, ConstantsAssumption DEF Init, CredentialsOf
<1>3. QED BY <1>1, <1>2 DEF Init, Registry!Init, NoSession

LEMMA RegistryStep == IInv /\ [Next]_vars => [Registry!Next]_(Registry!vars)
<1> SUFFICES ASSUME IInv, [Next]_vars PROVE Registry!Next \/ UNCHANGED tables
  BY TablesStutter
<1>1. ASSUME NEW r \in Request, Revoke(r) PROVE Registry!Next \/ UNCHANGED tables
  <2>1. input[r].token \in Request
    BY <1>1, RequestFacts, InputFields DEF Revoke, PhaseOps, IInv
  <2>2. QED BY <1>1, <2>1, SessionEnds DEF Revoke, tables
<1>2. ASSUME NEW t \in Request, Expire(t) PROVE Registry!Next
  BY <1>2, SessionEnds DEF Expire
<1>3. ASSUME NEW r \in Request,
             \/ Arrive(r) \/ RegisterBegin(r) \/ LoginRead(r) \/ LoginVerify(r) \/ GoogleFind(r)
             \/ GoogleCheckEmail(r) \/ GoogleInsertUser(r) \/ GoogleInsertIdentity(r)
             \/ Authenticate(r) \/ Fail(r)
      PROVE UNCHANGED tables
  BY <1>3 DEF Arrive, RegisterBegin, LoginRead, LoginVerify, GoogleFind, GoogleCheckEmail,
    GoogleInsertUser, GoogleInsertIdentity, Authenticate, Fail, tables
<1>4. CASE UNCHANGED vars
  BY <1>4 DEF vars, tables
<1>5. QED
  BY <1>1, <1>2, <1>3, <1>4, RegisterCreates, CommitCreates, UpdateBinds, SessionOpens
  DEF Next, Step

\* The handlers, with their transactions, races and failures, implement the registry
\* of accounts: accounts appear complete, keys and credentials stay with their
\* account, and a session is opened once and ends for good.
THEOREM Refinement == Spec => ImplementsRegistry
BY RegistryInit, RegistryStep, Invariance, PTL DEF Spec, ImplementsRegistry, Registry!Spec

=============================================================================
