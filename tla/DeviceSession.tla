---------------------------- MODULE DeviceSession ----------------------------
(***************************************************************************)
(* Signing in on one device: AuthBloc, the auth repository, the session    *)
(* and wallet-key entries of secure storage, and the account store behind  *)
(* the API, which is used here through what it promises (AccountRegistry). *)
(*                                                                         *)
(* A task is one run of an event handler of AuthBloc.  The bloc's default  *)
(* transformer runs handlers concurrently, so a handler is cut at every    *)
(* await.  An HTTP call is two steps, because the server may act and the   *)
(* answer be lost or late.  The app may be killed and launched again at    *)
(* any moment; secure storage and the server keep what they have.          *)
(*                                                                         *)
(* Bearer tokens and generated wallet keys are random, so both are named   *)
(* after the task that obtains them; a key also names its address.         *)
(***************************************************************************)
EXTENDS FiniteSets

CONSTANTS
  Task,          \* runs of event handlers; their number bounds a behaviour
  User,          \* accounts
  ForeignWallet, \* wallets whose keys are on the account's other devices
  None           \* null

ASSUME TaskAssumption ==
  /\ Task \cap ForeignWallet = {}
  /\ None \notin Task \cup User \cup ForeignWallet

VARIABLES
  wallet,   \* server: the wallet bound to each account
  session,  \* server: owner and state of each session
  token,    \* secure storage: tickerless_session_token
  identity, \* secure storage: tickerless_session_identity
  keys,     \* secure storage: tickerless_solana_wallet_<user>
  state,    \* AuthBloc.state
  kind,     \* the handler each task runs
  pc,       \* where each task is
  sess,     \* the session each task works with
  key       \* the wallet key each task works with

server == <<wallet, session>>
storage == <<token, identity, keys>>
tasks == <<kind, pc, sess, key>>
vars == <<server, storage, state, tasks>>

Server == INSTANCE AccountRegistry WITH
  Account <- User, Session <- Task, Email <- User, Credential <- User,
  Wallet <- Task \cup ForeignWallet, LegacyWallet <- {},
  address <- [u \in User |-> u], credentials <- [u \in User |-> {u}]

-----------------------------------------------------------------------------
(* Types *)

AuthSession == [token : Task, user : User]

ASSUME SessionAssumption == None \notin AuthSession

AuthState == [mode : {"signedOut", "guest", "authenticated"},
              status : {"restoring", "idle", "inProgress", "failure"},
              session : AuthSession \cup {None},
              wallet : Task \cup {None}]

SignedOut(status) ==
  [mode |-> "signedOut", status |-> status, session |-> None, wallet |-> None]

Running == {"exchange", "cache_token", "cache_identity", "read_identity", "read_token", "me",
            "ensure_read", "ensure_write", "bind", "linked", "unlinked",
            "delete_token", "delete_identity"}
Phase == Running \cup {"unused", "done", "wiped", "dead"}

TypeOK ==
  /\ wallet \in [User -> Task \cup ForeignWallet \cup {None}]
  /\ session \in [Task -> [user : User \cup {None},
                           state : {"none", "live", "revoked", "expired"}]]
  /\ token \in Task \cup {None}
  /\ identity \in AuthSession \cup {None}
  /\ keys \in [User -> Task \cup {None}]
  /\ state \in AuthState
  /\ kind \in [Task -> {"none", "restore", "sign_in", "sign_out"}]
  /\ pc \in [Task -> Phase]
  /\ sess \in [Task -> AuthSession \cup {None}]
  /\ key \in [Task -> Task \cup {None}]

-----------------------------------------------------------------------------
(* Helpers *)

Goto(t, phase) == pc' = [pc EXCEPT ![t] = phase]

Work(t, s) == sess' = [sess EXCEPT ![t] = s]

Live(s) == session[s].state = "live"

\* Secure storage throws, the network fails or a call exceeds requestTimeout.  What
\* the handler does then depends on where it is.
Recovery(t) ==
  CASE pc[t] \in {"read_identity", "read_token", "me"} -> "delete_token"
    [] pc[t] = "bind" -> "unlinked"
    [] OTHER -> "done"

\* Mutant: the catch of _authenticate is missing.
SignInStaysBusy(t) ==
  IF Recovery(t) # "done" \/ kind[t] = "sign_in" THEN state ELSE SignedOut("idle")

\* What is emitted then: a failed sign-in keeps whatever the state shows.
Emitted(t) ==
  IF Recovery(t) # "done" THEN state
  ELSE IF kind[t] = "sign_in" THEN [state EXCEPT !.status = "failure"]
  ELSE SignedOut("idle")

Throw(t) ==
  /\ Goto(t, Recovery(t))
  /\ state' = Emitted(t)

Authenticated(t) ==
  [mode |-> "authenticated", status |-> "idle", session |-> sess[t], wallet |-> key[t]]

-----------------------------------------------------------------------------
(* Launch, crash and launch again: memory is lost *)

Start(t, handler, phase) ==
  /\ pc[t] = "unused"
  /\ kind' = [kind EXCEPT ![t] = handler]
  /\ Goto(t, phase)

Launch(t) ==
  /\ pc[t] = "unused"
  /\ kind' = [kind EXCEPT ![t] = "restore"]
  /\ pc' = [x \in Task |-> CASE x = t           -> "read_identity"
                             [] pc[x] \in Running -> "dead"
                             [] OTHER             -> pc[x]]
  /\ state' = SignedOut("restoring")
  /\ UNCHANGED <<server, storage, sess, key>>

-----------------------------------------------------------------------------
(* _onRestoreRequested and AuthRepositoryImpl.restoreSession *)

\* Mutant: the token comes from its own entry rather than from the identity.
ReadIdentityWithToken(t) ==
  /\ pc[t] = "read_identity"
  /\ IF identity # None
     THEN /\ Work(t, IF token = None THEN identity ELSE [identity EXCEPT !.token = token])
          /\ Goto(t, "ensure_read")
     ELSE Goto(t, "read_token") /\ UNCHANGED sess
  /\ UNCHANGED <<server, storage, state, kind, key>>

ReadIdentity(t) ==
  /\ pc[t] = "read_identity"
  /\ IF identity # None
     THEN Work(t, identity) /\ Goto(t, "ensure_read")
     ELSE Goto(t, "read_token") /\ UNCHANGED sess
  /\ UNCHANGED <<server, storage, state, kind, key>>

ReadToken(t) ==
  /\ pc[t] = "read_token"
  /\ IF token = None
     THEN Goto(t, "done") /\ state' = SignedOut("idle") /\ UNCHANGED sess
     ELSE /\ Work(t, [token |-> token, user |-> session[token].user])
          /\ Goto(t, "me")
          /\ UNCHANGED state
  /\ UNCHANGED <<server, storage, kind, key>>

\* GET /v1/auth/me tells whose session it is, or refuses it.
Me(t) ==
  /\ pc[t] = "me"
  /\ Goto(t, IF Live(sess[t].token) THEN "ensure_read" ELSE "delete_token")
  /\ UNCHANGED <<server, storage, state, kind, sess, key>>

-----------------------------------------------------------------------------
(* _onEmailSubmitted, _onGoogleRequested: _authenticate *)

\* A sign-in can be asked for at the door and from the sheet that guests see; the
\* keyboard submits the e-mail form even while another sign-in is in progress.
SignInRequested(t) ==
  /\ Start(t, "sign_in", "exchange")
  /\ state.status # "restoring"
  /\ state.mode # "authenticated"
  /\ state' = [state EXCEPT !.status = "inProgress"]
  /\ UNCHANGED <<server, storage, sess, key>>

\* The API issues a session; its answer arrives, or the call times out.
Exchange(t) ==
  /\ pc[t] = "exchange"
  /\ \E u \in User :
       /\ Server!Open(t, u)
       /\ \/ Work(t, [token |-> t, user |-> u]) /\ Goto(t, "cache_token") /\ UNCHANGED state
          \/ Throw(t) /\ UNCHANGED sess
  /\ UNCHANGED <<storage, kind, key>>

CacheToken(t) ==
  /\ pc[t] = "cache_token"
  /\ token' = sess[t].token
  /\ Goto(t, "cache_identity")
  /\ UNCHANGED <<server, identity, keys, state, kind, sess, key>>

\* Mutant: the identity entry gets the bare token.
CacheBareIdentity(t) ==
  /\ pc[t] = "cache_identity"
  /\ identity' = sess[t].token
  /\ Goto(t, "ensure_read")
  /\ UNCHANGED <<server, token, keys, state, kind, sess, key>>

CacheIdentity(t) ==
  /\ pc[t] = "cache_identity"
  /\ identity' = sess[t]
  /\ Goto(t, "ensure_read")
  /\ UNCHANGED <<server, token, keys, state, kind, sess, key>>

-----------------------------------------------------------------------------
(* ensureWallet and bindWallet, for restores and sign-ins alike *)

\* Mutant: one wallet entry for the device instead of one for each account.
EnsureReadShared(t) ==
  LET found == {keys[u] : u \in User} \ {None} IN
  /\ pc[t] = "ensure_read"
  /\ IF found # {}
     THEN key' = [key EXCEPT ![t] = CHOOSE k \in found : TRUE] /\ Goto(t, "bind")
     ELSE key' = [key EXCEPT ![t] = t] /\ Goto(t, "ensure_write")
  /\ UNCHANGED <<server, storage, state, kind, sess>>

\* ensurePrivateKey reads, and generates a key if there is none.
EnsureRead(t) ==
  LET found == keys[sess[t].user] IN
  /\ pc[t] = "ensure_read"
  /\ IF found # None
     THEN key' = [key EXCEPT ![t] = found] /\ Goto(t, "bind")
     ELSE key' = [key EXCEPT ![t] = t] /\ Goto(t, "ensure_write")
  /\ UNCHANGED <<server, storage, state, kind, sess>>

\* The read may be old by now: the write replaces whatever is there.
EnsureWrite(t) ==
  /\ pc[t] = "ensure_write"
  /\ keys' = [keys EXCEPT ![sess[t].user] = key[t]]
  /\ Goto(t, "bind")
  /\ UNCHANGED <<server, token, identity, state, kind, sess, key>>

\* POST /v1/auth/wallet: binding the wallet the account already has succeeds again;
\* a dead session, another wallet of the account or another owner is refused.  The
\* answer to a binding that was done may be lost.
Bind(t) ==
  LET u == sess[t].user IN
  /\ pc[t] = "bind"
  /\ Live(sess[t].token)
  /\ \/ wallet[u] = key[t] /\ UNCHANGED server
     \/ Server!Bind(u, key[t])
  /\ Goto(t, "linked") \/ Goto(t, "unlinked")
  /\ UNCHANGED <<storage, state, kind, sess, key>>

\* Mutant: a sign-in swallows the failed binding as a restore does.
FinishAlways(t) ==
  /\ pc[t] \in {"linked", "unlinked"}
  /\ Goto(t, "done")
  /\ state' = Authenticated(t)
  /\ UNCHANGED <<server, storage, kind, sess, key>>

\* The last await returns: a restore is done whether the wallet is bound or not.
Finish(t) ==
  /\ pc[t] \in {"linked", "unlinked"}
  /\ Goto(t, "done")
  /\ state' = IF kind[t] = "restore" \/ pc[t] = "linked"
              THEN Authenticated(t)
              ELSE [state EXCEPT !.status = "failure"]
  /\ UNCHANGED <<server, storage, kind, sess, key>>

-----------------------------------------------------------------------------
(* _onSignOutRequested, and clearToken, which a failed restore also runs *)

SignOutRequested(t) ==
  /\ Start(t, "sign_out", "delete_token")
  /\ state.mode = "authenticated"
  /\ Work(t, state.session)
  /\ UNCHANGED <<server, storage, state, key>>

\* Mutant: clearToken forgets the identity entry.
DeleteTokenOnly(t) ==
  /\ pc[t] = "delete_token"
  /\ token' = None
  /\ Goto(t, "wiped")
  /\ state' = SignedOut("idle")
  /\ UNCHANGED <<server, identity, keys, kind, sess, key>>

DeleteToken(t) ==
  /\ pc[t] = "delete_token"
  /\ token' = None
  /\ Goto(t, "delete_identity")
  /\ UNCHANGED <<server, identity, keys, state, kind, sess, key>>

\* Mutant: a restore that cleaned up forgets to emit.
DeleteIdentitySilently(t) ==
  /\ pc[t] = "delete_identity"
  /\ identity' = None
  /\ Goto(t, "wiped")
  /\ state' = IF kind[t] = "restore" THEN state ELSE SignedOut("idle")
  /\ UNCHANGED <<server, token, keys, kind, sess, key>>

DeleteIdentity(t) ==
  /\ pc[t] = "delete_identity"
  /\ identity' = None
  /\ Goto(t, "wiped")
  /\ state' = SignedOut("idle")
  /\ UNCHANGED <<server, token, keys, kind, sess, key>>

-----------------------------------------------------------------------------
(* The rest of the bloc, failures, and the outside world *)

\* "Continue as guest" on the onboarding screen.
GuestRequested ==
  /\ state.mode = "signedOut"
  /\ state.status # "restoring"
  /\ state' = [SignedOut("idle") EXCEPT !.mode = "guest"]
  /\ UNCHANGED <<server, storage, tasks>>

\* Clears a failure once the screen has shown it.
ErrorDismissed ==
  /\ state.status = "failure"
  /\ state' = [state EXCEPT !.status = "idle"]
  /\ UNCHANGED <<server, storage, tasks>>

\* An await of the handler throws, and what it waited for did not happen.
Fail(t) ==
  /\ pc[t] \in Running \ {"linked", "unlinked"}
  /\ Throw(t)
  /\ UNCHANGED <<server, storage, kind, sess, key>>

\* Sessions expire (the app never calls /v1/auth/logout); another device binds its wallet.
SessionExpires(s) ==
  /\ Server!End(s)
  /\ session'[s].state = "expired"
  /\ UNCHANGED <<storage, state, tasks>>

OtherDeviceBinds(u, w) == Server!Bind(u, w) /\ UNCHANGED <<storage, state, tasks>>

Step(t) ==
  \/ ReadIdentity(t) \/ ReadToken(t) \/ Me(t)
  \/ Exchange(t) \/ CacheToken(t) \/ CacheIdentity(t)
  \/ EnsureRead(t) \/ EnsureWrite(t) \/ Bind(t) \/ Finish(t)
  \/ DeleteToken(t) \/ DeleteIdentity(t)
  \/ Fail(t)

Requested(t) == Launch(t) \/ SignInRequested(t) \/ SignOutRequested(t)

Init ==
  /\ wallet = [u \in User |-> None]
  /\ session = [t \in Task |-> [user |-> None, state |-> "none"]]
  /\ token = None /\ identity = None /\ keys = [u \in User |-> None]
  /\ state = SignedOut("restoring")
  /\ \E t \in Task :
       /\ kind = [x \in Task |-> IF x = t THEN "restore" ELSE "none"]
       /\ pc = [x \in Task |-> IF x = t THEN "read_identity" ELSE "unused"]
  /\ sess = [t \in Task |-> None]
  /\ key = [t \in Task |-> None]

Next ==
  \/ \E t \in Task : Requested(t) \/ Step(t)
  \/ GuestRequested \/ ErrorDismissed
  \/ \E s \in Task : SessionExpires(s)
  \/ \E u \in User, w \in ForeignWallet : OtherDeviceBinds(u, w)

\* Dart's event loop resumes every handler whose await is over; storage calls return
\* and HTTP calls end by requestTimeout, with a result or with an exception.
Spec == Init /\ [][Next]_vars /\ \A t \in Task : WF_vars(Step(t))

-----------------------------------------------------------------------------
(* Properties *)

\* The token and the account in secure storage, in a handler and on the screens
\* belong together: each is a session the API issued for that account, however the
\* writes of concurrent sign-ins and of a killed app were interleaved.
SessionsCoherent ==
  /\ token # None => session[token].state # "none"
  /\ \A s \in {identity, state.session} \cup {sess[t] : t \in Task} :
       s # None => session[s.token].state # "none" /\ session[s.token].user = s.user

\* "Every screen behind the gate assumes an address exists": the screens show an
\* account exactly when they show a wallet, and the key of that wallet was generated
\* for that account, never for another one that signed in on the device.
WalletOfAccount ==
  /\ state.mode = "authenticated" <=> state.session # None
  /\ state.session = None <=> state.wallet = None
  /\ state.wallet # None => sess[state.wallet].user = state.session.user
  /\ \A u \in User : keys[u] # None => sess[keys[u]].user = u

Restored(s) == \E t \in Task : kind[t] = "restore" /\ pc[t] = "done" /\ sess[t] = s

\* A sign-in is not finished until its wallet is bound: an account that was signed in
\* to since the app was launched has, at the server, the wallet that is shown.
SignInBindsWallet ==
  state.mode = "authenticated" /\ ~ Restored(state.session) =>
    wallet[state.session.user] = state.wallet

\* Once the local wipe of a sign-out has succeeded, the session it ended is neither
\* shown again nor restored by a later launch, whichever handlers were still running.
SignedOutStaysOut ==
  \A t \in Task : kind[t] = "sign_out" /\ pc[t] = "wiped" =>
    sess[t] \notin {state.session, identity}

\* "A corrupt or legacy session should never strand app startup": the app leaves the
\* startup screen, whatever storage and network do.
LaunchCompletes == state.status = "restoring" ~> state.status # "restoring"

\* The sign-in buttons come back: no failure leaves the bloc in progress for ever.
SignInSettles == state.status = "inProgress" ~> state.status # "inProgress"

-----------------------------------------------------------------------------
(* What comments and the README say, and the code does not do *)

\* "Trading remains unavailable until the backend confirms this wallet binding": only
\* an account with a bound wallet is authenticated, which is what canPurchase asks.
TradingNeedsBinding ==
  state.mode = "authenticated" => wallet[state.session.user] = state.wallet

\* Authentication creates "a stable, locally secured Solana wallet": the account's
\* wallet, once bound from this device, is the one whose key the device keeps.
BoundWalletKeyKept ==
  \A u \in User : wallet[u] \in Task => keys[u] = wallet[u]

=============================================================================
