------------------------- MODULE DeviceSessionProofs -------------------------
(***************************************************************************)
(* Proofs about DeviceSession, for any number of handler runs, accounts    *)
(* and launches of the app.                                                *)
(*                                                                         *)
(* That a session ended by a sign-out stays away is not inductive: another *)
(* handler may still hold it, or an entry of storage bring it back.  What  *)
(* excludes this is that a restore runs alone (AloneInv), that a session   *)
(* is shown only when the sign-in that got it is over (ShownInv), and that *)
(* the wipe takes it from both entries in turn (WipeInv).                  *)
(***************************************************************************)
EXTENDS DeviceSession, TLAPS

Over == {"done", "wiped", "dead"}
Working == {"me", "cache_token", "cache_identity", "ensure_read", "ensure_write", "bind",
            "linked", "unlinked"}

\* Which handler can be where.
KindInv == \A t \in Task :
  /\ pc[t] = "unused" => kind[t] = "none"
  /\ pc[t] \in {"exchange", "cache_token", "cache_identity"} => kind[t] = "sign_in"
  /\ pc[t] \in {"read_identity", "read_token", "me"} => kind[t] = "restore"
  /\ pc[t] \in {"ensure_read", "ensure_write", "bind", "linked", "unlinked"} =>
       kind[t] \in {"restore", "sign_in"}
  /\ pc[t] \in {"delete_token", "delete_identity"} => kind[t] \in {"restore", "sign_out"}

\* A handler has a session, and then a key, from some point on.
CarryInv == \A t \in Task :
  /\ pc[t] \in {"unused", "read_identity", "read_token", "exchange"} => sess[t] = None
  /\ pc[t] \in Working \/ kind[t] = "sign_out" => sess[t] # None
  /\ pc[t] \in {"ensure_write", "bind", "linked", "unlinked"} => key[t] # None
  /\ key[t] # None => sess[t] # None

\* A session is issued for an account, to the sign-in it is named after.
IssuedInv == \A t \in Task :
  /\ session[t].state # "none" =>
       session[t].user \in User /\ kind[t] = "sign_in" /\ pc[t] \notin {"unused", "exchange"}
  /\ kind[t] = "sign_in" /\ sess[t] # None => sess[t].token = t

\* k was generated for u.
KeyOf(k, u) == k \in Task /\ sess[k] # None /\ sess[k].user = u

\* A key in storage, in a handler or on the screens is one of its account.
KeyInv ==
  /\ \A u \in User : keys[u] # None => KeyOf(keys[u], u)
  /\ \A t \in Task : key[t] # None => KeyOf(key[t], sess[t].user)
  /\ state.wallet # None => KeyOf(state.wallet, state.session.user)

ScreenInv ==
  /\ state.mode = "authenticated" <=> state.session # None
  /\ state.session = None <=> state.wallet = None

\* While a restore runs nothing else does, and the startup screen is shown.
AloneInv == \A t \in Task : kind[t] = "restore" /\ pc[t] \in Running =>
  /\ state = SignedOut("restoring")
  /\ \A x \in Task : pc[x] \in Running => x = t

\* A session that has been shown is one whose sign-in is over.
ShownInv ==
  /\ state.session # None => pc[state.session.token] \in Over
  /\ \A t \in Task : kind[t] = "sign_out" => pc[sess[t].token] \in Over

\* Nothing that could be shown later is of the session that a sign-out has wiped.
WipeInv == \A t \in Task : kind[t] = "sign_out" =>
  /\ pc[t] \in {"delete_identity", "wiped"} => token # sess[t].token
  /\ pc[t] = "wiped" =>
       /\ identity # None => identity.token # sess[t].token
       /\ state.session # None => state.session.token # sess[t].token
       /\ \A x \in Task : kind[x] = "restore" /\ pc[x] \in Running /\ sess[x] # None =>
            sess[x].token # sess[t].token

\* What the server bound for a handler stays bound.
LinkedInv == \A t \in Task : pc[t] = "linked" => wallet[sess[t].user] = key[t]

IInv ==
  /\ TypeOK
  /\ KindInv
  /\ CarryInv
  /\ IssuedInv
  /\ SessionsCoherent
  /\ KeyInv
  /\ ScreenInv
  /\ AloneInv
  /\ ShownInv
  /\ WipeInv
  /\ LinkedInv
  /\ SignInBindsWallet

-----------------------------------------------------------------------------
\* None is nothing that it stands in for.
LEMMA NoneApart ==
  None \notin Task /\ None \notin User /\ None \notin AuthSession /\ None \notin ForeignWallet
BY TaskAssumption, SessionAssumption

-----------------------------------------------------------------------------
(* Each action keeps the invariant *)

\* A launch leaves every other handler dead and shows nobody.
LEMMA LaunchKeeps == ASSUME IInv, NEW t \in Task, Launch(t) PROVE IInv'
<1>. USE DEF IInv, Launch, SignedOut, server, storage
<1>1. TypeOK' BY DEF TypeOK, AuthState, Phase, Running
<1>2. KindInv' BY DEF KindInv, TypeOK
<1>3. CarryInv' BY DEF CarryInv, Working
<1>4. IssuedInv' BY DEF IssuedInv
<1>5. SessionsCoherent' BY DEF SessionsCoherent
<1>6. KeyInv' BY DEF KeyInv, KeyOf
<1>7. ScreenInv' BY DEF ScreenInv
<1>8. AloneInv' BY DEF AloneInv, Running
<1>9. ShownInv' BY DEF ShownInv, TypeOK, CarryInv, Over, AuthSession
<1>10. WipeInv' BY DEF WipeInv, CarryInv
<1>11. LinkedInv' BY DEF LinkedInv, Running
<1>12. SignInBindsWallet' BY DEF SignInBindsWallet
<1>. QED BY <1>1, <1>2, <1>3, <1>4, <1>5, <1>6, <1>7, <1>8, <1>9, <1>10, <1>11, <1>12 DEF IInv

\* A sign-in starts without a session, while no restore runs.
LEMMA SignInRequestedKeeps == ASSUME IInv, NEW t \in Task, SignInRequested(t) PROVE IInv'
<1>. USE DEF IInv, SignInRequested, Start, Goto, server, storage
<1>1. TypeOK' BY DEF TypeOK, AuthState, Phase, Running
<1>2. KindInv' BY DEF KindInv, TypeOK
<1>3. CarryInv' BY DEF CarryInv, Working
<1>4. IssuedInv' BY DEF IssuedInv, CarryInv
<1>5. SessionsCoherent' BY DEF SessionsCoherent
<1>6. KeyInv' BY DEF KeyInv, KeyOf
<1>7. ScreenInv' BY DEF ScreenInv
<1>8. AloneInv' BY DEF AloneInv, TypeOK, SignedOut
<1>9. ShownInv' BY DEF ShownInv, CarryInv, IssuedInv, SessionsCoherent
<1>10. WipeInv' BY DEF WipeInv, TypeOK
<1>11. LinkedInv' BY DEF LinkedInv
<1>12. SignInBindsWallet' BY DEF SignInBindsWallet
<1>. QED BY <1>1, <1>2, <1>3, <1>4, <1>5, <1>6, <1>7, <1>8, <1>9, <1>10, <1>11, <1>12 DEF IInv

\* A sign-out takes the session that is shown, whose sign-in is over.
LEMMA SignOutRequestedKeeps == ASSUME IInv, NEW t \in Task, SignOutRequested(t) PROVE IInv'
<1>. USE DEF IInv, SignOutRequested, Start, Goto, Work, server, storage
<1>1. TypeOK' BY DEF TypeOK, AuthState, Phase, Running
<1>2. KindInv' BY DEF KindInv, TypeOK
<1>3. CarryInv' BY DEF CarryInv, TypeOK, ScreenInv
<1>4. IssuedInv' BY DEF IssuedInv, TypeOK
<1>5. SessionsCoherent' BY DEF SessionsCoherent
<1>6. KeyInv' BY DEF KeyInv, CarryInv, KeyOf
<1>7. ScreenInv' BY DEF ScreenInv
<1>8. AloneInv' BY DEF AloneInv, TypeOK, SignedOut
<1>9. ShownInv' BY DEF ShownInv, TypeOK, CarryInv, IssuedInv, SessionsCoherent, ScreenInv
<1>10. WipeInv' BY DEF WipeInv, TypeOK
<1>11. LinkedInv' BY DEF LinkedInv
<1>12. SignInBindsWallet' BY DEF SignInBindsWallet, Restored
<1>. QED BY <1>1, <1>2, <1>3, <1>4, <1>5, <1>6, <1>7, <1>8, <1>9, <1>10, <1>11, <1>12 DEF IInv

\* The identity entry is a session that the API issued; nothing else runs.
LEMMA ReadIdentityKeeps == ASSUME IInv, NEW t \in Task, ReadIdentity(t) PROVE IInv'
<1>1. /\ sess[t] = None /\ key[t] = None /\ kind[t] = "restore" /\ pc[t] = "read_identity"
  BY DEF IInv, CarryInv, KindInv, ReadIdentity
<1>2. /\ \E phase \in {"ensure_read", "read_token"} : pc' = [pc EXCEPT ![t] = phase]
      /\ \E s \in AuthSession \cup {None} : sess' = [sess EXCEPT ![t] = s]
  <2>1. CASE identity = None
    BY <1>1, <2>1 DEF ReadIdentity, Goto, IInv, TypeOK
  <2>2. CASE identity # None
    BY <1>1, <2>2 DEF ReadIdentity, Goto, Work, IInv, TypeOK
  <2>3. QED BY <2>1, <2>2
<1>3. UNCHANGED <<server, storage, state, kind, key>>
  BY DEF ReadIdentity
<1>4. TypeOK'
  BY <1>2, <1>3 DEF IInv, TypeOK, Phase, Running, server, storage
<1>5. KindInv' BY DEF IInv, KindInv, TypeOK, ReadIdentity, Goto
<1>6. CarryInv' BY DEF IInv, CarryInv, TypeOK, Working, ReadIdentity, Goto, Work
<1>7. IssuedInv' BY DEF IInv, IssuedInv, TypeOK, KindInv, ReadIdentity, Goto, Work, server
<1>8. SessionsCoherent'
  BY DEF IInv, SessionsCoherent, TypeOK, ReadIdentity, Work, server, storage
<1>9. KeyInv'
  BY <1>1, <1>2, <1>3, NoneApart DEF IInv, KeyInv, KeyOf, TypeOK, ScreenInv, AuthState, storage
<1>10. ScreenInv' BY DEF IInv, ScreenInv, ReadIdentity
<1>11. AloneInv' BY DEF IInv, AloneInv, TypeOK, Running, ReadIdentity, Goto
<1>12. ShownInv'
  <2>1. \A x \in Task : kind[x] = "sign_out" => sess'[x] = sess[x]
    BY <1>1, <1>2 DEF IInv, TypeOK
  <2>2. \A x \in Task : pc[x] \in Over => pc'[x] = pc[x]
    BY <1>1, <1>2 DEF IInv, TypeOK, Over
  <2>3. \A x \in Task : kind[x] = "sign_out" => sess[x].token \in Task
    BY NoneApart DEF IInv, CarryInv, TypeOK, AuthSession
  <2>4. state.session # None => state.session.token \in Task
    BY DEF IInv, TypeOK, AuthState, AuthSession
  <2>5. QED BY <1>3, <2>1, <2>2, <2>3, <2>4 DEF IInv, ShownInv
<1>13. WipeInv'
  <2>1. \A x \in Task \ {t} : sess'[x] = sess[x] /\ pc'[x] = pc[x]
    BY <1>2 DEF IInv, TypeOK
  <2>2. sess'[t] \in {identity, None}
    BY <1>1 DEF ReadIdentity, Work, IInv, TypeOK
  <2>3. \A x \in Task : kind[x] = "sign_out" => x # t
    BY <1>1
  <2>. QED BY <1>1, <1>3, <2>1, <2>2, <2>3 DEF IInv, WipeInv, storage
<1>14. LinkedInv' BY DEF IInv, LinkedInv, TypeOK, ReadIdentity, Goto, Work, server
<1>15. SignInBindsWallet'
  BY DEF IInv, SignInBindsWallet, TypeOK, Restored, ReadIdentity, Goto, Work, server
<1>. QED BY <1>4, <1>5, <1>6, <1>7, <1>8, <1>9, <1>10, <1>11, <1>12, <1>13, <1>14,
          <1>15 DEF IInv

\* The token entry leads to the account the session was issued for.
LEMMA ReadTokenKeeps == ASSUME IInv, NEW t \in Task, ReadToken(t) PROVE IInv'
<1>1. sess[t] = None /\ key[t] = None /\ kind[t] = "restore" /\ pc[t] = "read_token"
  BY DEF IInv, CarryInv, KindInv, ReadToken
<1>2. UNCHANGED <<server, storage, kind, key>>
  BY DEF ReadToken
<1>3. \/ /\ pc' = [pc EXCEPT ![t] = "done"] /\ state' = SignedOut("idle") /\ UNCHANGED sess
      \/ \E s \in AuthSession : /\ sess' = [sess EXCEPT ![t] = s]
                                /\ pc' = [pc EXCEPT ![t] = "me"]
                                /\ UNCHANGED state
  <2>1. CASE token = None
    BY <2>1 DEF ReadToken, Goto
  <2>2. CASE token # None
    <3>1. token \in Task /\ session[token].user \in User
      BY <2>2 DEF IInv, TypeOK, SessionsCoherent, IssuedInv
    <3>2. QED BY <2>2, <3>1 DEF ReadToken, Goto, Work, AuthSession
  <2>3. QED BY <2>1, <2>2
<1>4. TypeOK'
  BY <1>2, <1>3 DEF IInv, TypeOK, Phase, Running, server, storage, SignedOut, AuthState
<1>5. KindInv' BY DEF IInv, KindInv, TypeOK, ReadToken, Goto
<1>6. CarryInv'
  <2>1. CASE UNCHANGED sess /\ pc' = [pc EXCEPT ![t] = "done"]
    BY <1>1, <1>2, <2>1 DEF IInv, CarryInv, TypeOK, Working
  <2>2. ASSUME NEW s \in AuthSession, sess' = [sess EXCEPT ![t] = s],
               pc' = [pc EXCEPT ![t] = "me"]
        PROVE  CarryInv'
    <3>1. sess'[t] # None /\ pc'[t] = "me"
      BY <2>2, NoneApart DEF IInv, TypeOK
    <3>2. \A x \in Task \ {t} : sess'[x] = sess[x] /\ pc'[x] = pc[x]
      BY <2>2 DEF IInv, TypeOK
    <3>3. key' = key /\ kind' = kind /\ CarryInv
      BY <1>2 DEF IInv
    <3>4. QED BY <1>1, <3>1, <3>2, <3>3 DEF CarryInv, Working
  <2>3. QED BY <1>3, <2>1, <2>2
<1>7. IssuedInv' BY DEF IInv, IssuedInv, TypeOK, KindInv, ReadToken, Goto, Work, server
<1>8. SessionsCoherent'
  BY DEF IInv, SessionsCoherent, TypeOK, ReadToken, Work, SignedOut, server, storage
<1>9. KeyInv'
  <2>1. \A x \in Task : sess[x] # None => sess'[x] = sess[x]
    BY <1>1, <1>3 DEF IInv, TypeOK
  <2>2. state' = state \/ state'.wallet = None
    BY <1>3 DEF SignedOut
  <2>3. \A x \in Task : key[x] # None => sess'[x] = sess[x]
    BY <2>1 DEF IInv, CarryInv
  <2>4. QED BY <1>2, <2>1, <2>2, <2>3 DEF IInv, KeyInv, KeyOf, storage
<1>10. ScreenInv' BY DEF IInv, ScreenInv, ReadToken, SignedOut
<1>11. AloneInv' BY DEF IInv, AloneInv, TypeOK, Running, ReadToken, Goto
<1>12. ShownInv'
  <2>1. \A x \in Task : kind[x] = "sign_out" => sess'[x] = sess[x]
    BY <1>1, <1>3 DEF IInv, TypeOK
  <2>2. \A x \in Task : pc[x] \in Over => pc'[x] = pc[x]
    BY <1>1, <1>3 DEF IInv, TypeOK, Over
  <2>3. \A x \in Task : kind[x] = "sign_out" => sess[x].token \in Task
    BY NoneApart DEF IInv, CarryInv, TypeOK, AuthSession
  <2>4. state.session # None => state.session.token \in Task
    BY DEF IInv, TypeOK, AuthState, AuthSession
  <2>6. state'.session # None => state' = state
    BY <1>3 DEF SignedOut
  <2>5. QED BY <1>2, <2>1, <2>2, <2>3, <2>4, <2>6 DEF IInv, ShownInv
<1>13. WipeInv'
  BY DEF IInv, WipeInv, TypeOK, Running, AuthSession, ReadToken, Goto, Work, SignedOut, storage
<1>14. LinkedInv' BY DEF IInv, LinkedInv, TypeOK, ReadToken, Goto, Work, server
<1>15. SignInBindsWallet'
  BY DEF IInv, SignInBindsWallet, TypeOK, CarryInv, LinkedInv, Restored, ReadToken, Goto, Work,
         SignedOut, server
<1>. QED BY <1>4, <1>5, <1>6, <1>7, <1>8, <1>9, <1>10, <1>11, <1>12, <1>13, <1>14,
          <1>15 DEF IInv

\* An answer of the server changes nothing but where the restore is.
LEMMA MeKeeps == ASSUME IInv, NEW t \in Task, Me(t) PROVE IInv'
<1>. USE DEF IInv, Me, Goto, Live, server, storage
<1>1. TypeOK' BY DEF TypeOK, Phase, Running
<1>2. KindInv' BY DEF KindInv
<1>3. CarryInv' BY DEF CarryInv, Working
<1>4. IssuedInv' BY DEF IssuedInv
<1>5. SessionsCoherent' BY DEF SessionsCoherent
<1>6. KeyInv' BY DEF KeyInv, KeyOf
<1>7. ScreenInv' BY DEF ScreenInv
<1>8. AloneInv' BY DEF AloneInv, Running
<1>9. ShownInv' BY DEF ShownInv, KindInv, CarryInv, IssuedInv, SessionsCoherent
<1>10. WipeInv' BY DEF WipeInv, Running
<1>11. LinkedInv' BY DEF LinkedInv
<1>12. SignInBindsWallet' BY DEF SignInBindsWallet, Restored
<1>. QED BY <1>1, <1>2, <1>3, <1>4, <1>5, <1>6, <1>7, <1>8, <1>9, <1>10, <1>11, <1>12 DEF IInv

\* A new session is named after its sign-in, so nobody else has it.
LEMMA ExchangeKeeps == ASSUME IInv, NEW t \in Task, Exchange(t) PROVE IInv'
<1>1. /\ sess[t] = None /\ key[t] = None /\ kind[t] = "sign_in"
      /\ pc[t] = "exchange" /\ Recovery(t) = "done"
  BY DEF IInv, CarryInv, KindInv, Exchange, Recovery
<1>2. UNCHANGED <<wallet, storage, kind, key>>
  BY DEF Exchange, Server!Open
<1>3. PICK u \in User :
        /\ session[t].state = "none"
        /\ session' = [session EXCEPT ![t] = [user |-> u, state |-> "live"]]
        /\ \/ /\ sess' = [sess EXCEPT ![t] = [token |-> t, user |-> u]]
              /\ pc' = [pc EXCEPT ![t] = "cache_token"]
              /\ UNCHANGED state
           \/ /\ pc' = [pc EXCEPT ![t] = "done"]
              /\ state' = [state EXCEPT !.status = "failure"]
              /\ UNCHANGED sess
  BY <1>1 DEF Exchange, Server!Open, Goto, Work, Throw, Emitted
<1>4. TypeOK'
  <2>1. state' \in AuthState
    BY <1>3 DEF IInv, TypeOK, AuthState
  <2>2. sess' \in [Task -> AuthSession \cup {None}]
    BY <1>3 DEF IInv, TypeOK, AuthSession
  <2>3. QED BY <1>2, <1>3, <2>1, <2>2 DEF IInv, TypeOK, Phase, Running, storage
<1>5. KindInv' BY DEF IInv, KindInv, TypeOK, Exchange, Goto, Throw, Recovery
<1>6. CarryInv'
  BY NoneApart DEF IInv, CarryInv, TypeOK, Working, AuthSession, Exchange, Goto, Work, Throw,
         Recovery
<1>7. IssuedInv'
  BY DEF IInv, IssuedInv, TypeOK, KindInv, Exchange, Goto, Work, Throw, Recovery, Server!Open
<1>8. SessionsCoherent'
  <2>1. \A x \in Task : session[x].state # "none" => session'[x] = session[x]
    BY <1>3 DEF IInv, TypeOK
  <2>2. session'[t] = [user |-> u, state |-> "live"]
    BY <1>3 DEF IInv, TypeOK
  <2>3. state'.session = state.session
    BY <1>3 DEF IInv, TypeOK, AuthState
  <2>4. \A x \in Task : sess'[x] \in {sess[x], [token |-> t, user |-> u]} 
    BY <1>3 DEF IInv, TypeOK
  <2>5. \A a \in AuthSession : a.token \in Task
    BY DEF AuthSession
  <2>6. token' = token /\ identity' = identity
    BY <1>2 DEF storage
  <2>7. /\ token \in Task \cup {None} /\ identity \in AuthSession \cup {None}
        /\ state.session \in AuthSession \cup {None}
        /\ \A x \in Task : sess[x] \in AuthSession \cup {None}
    BY DEF IInv, TypeOK, AuthState
  <2>8. SessionsCoherent
    BY DEF IInv
  <2>. QED BY <2>1, <2>2, <2>3, <2>4, <2>5, <2>6, <2>7, <2>8 DEF SessionsCoherent
<1>9. KeyInv'
  <2>1. \A x \in Task : sess[x] # None => sess'[x] = sess[x]
    BY <1>1, <1>3 DEF IInv, TypeOK
  <2>2. state'.session = state.session /\ state'.wallet = state.wallet
    BY <1>3 DEF IInv, TypeOK, AuthState
  <2>3. \A x \in Task : key[x] # None => sess'[x] = sess[x]
    BY <2>1 DEF IInv, CarryInv
  <2>. QED BY <1>2, <2>1, <2>2, <2>3 DEF IInv, KeyInv, KeyOf, storage
<1>10. ScreenInv' BY DEF IInv, ScreenInv, TypeOK, AuthState, Exchange, Throw, Emitted, SignedOut
<1>11. AloneInv' BY DEF IInv, AloneInv, TypeOK, KindInv, Running, Exchange, Goto, Throw
<1>12. ShownInv'
  <2>1. \A x \in Task : kind[x] = "sign_out" => sess'[x] = sess[x]
    BY <1>1, <1>3 DEF IInv, TypeOK
  <2>2. \A x \in Task : pc[x] \in Over => pc'[x] = pc[x]
    BY <1>1, <1>3 DEF IInv, TypeOK, Over
  <2>3. \A x \in Task : kind[x] = "sign_out" => sess[x].token \in Task
    BY NoneApart DEF IInv, CarryInv, TypeOK, AuthSession
  <2>4. state'.session = state.session
    BY <1>3 DEF IInv, TypeOK, AuthState
  <2>5. state.session # None => state.session.token \in Task
    BY DEF IInv, TypeOK, AuthState, AuthSession
  <2>. QED BY <1>2, <2>1, <2>2, <2>3, <2>4, <2>5 DEF IInv, ShownInv
<1>13. WipeInv'
  <2>1. \A x \in Task : kind[x] = "sign_out" \/ kind[x] = "restore" => x # t
    BY <1>1
  <2>2. \A x \in Task \ {t} : sess'[x] = sess[x] /\ pc'[x] = pc[x]
    BY <1>3 DEF IInv, TypeOK
  <2>3. state'.session = state.session
    BY <1>3 DEF IInv, TypeOK, AuthState
  <2>. QED BY <1>2, <2>1, <2>2, <2>3 DEF IInv, WipeInv, storage
<1>14. LinkedInv'
  BY DEF IInv, LinkedInv, TypeOK, Exchange, Goto, Work, Throw, Recovery, Server!Open
<1>15. SignInBindsWallet'
  <2>1. \A x \in Task : kind[x] = "restore" => sess'[x] = sess[x] /\ pc'[x] = pc[x]
    BY <1>1, <1>3 DEF IInv, TypeOK
  <2>2. /\ state'.mode = state.mode /\ state'.session = state.session
        /\ state'.wallet = state.wallet
    BY <1>3 DEF IInv, TypeOK, AuthState
  <2>. QED BY <1>2, <2>1, <2>2 DEF IInv, SignInBindsWallet, Restored
<1>. QED BY <1>4, <1>5, <1>6, <1>7, <1>8, <1>9, <1>10, <1>11, <1>12, <1>13, <1>14,
          <1>15 DEF IInv

\* The token written is that of a running sign-in, which no sign-out has wiped.
LEMMA CacheTokenKeeps == ASSUME IInv, NEW t \in Task, CacheToken(t) PROVE IInv'
<1>1. /\ kind[t] = "sign_in" /\ token' = t
      /\ pc[t] \notin Over /\ pc' = [pc EXCEPT ![t] = "cache_identity"]
  BY NoneApart DEF IInv, KindInv, CarryInv, IssuedInv, CacheToken, Working, Goto, Over
<1>2. TypeOK'
  BY DEF IInv, TypeOK, KindInv, CarryInv, IssuedInv, Phase, Running, Working, CacheToken, Goto,
         server
<1>3. KindInv' BY DEF IInv, KindInv, CacheToken, Goto
<1>4. CarryInv' BY DEF IInv, CarryInv, Working, CacheToken, Goto
<1>5. IssuedInv' BY DEF IInv, IssuedInv, CacheToken, Goto, server
<1>6. SessionsCoherent' BY DEF IInv, SessionsCoherent, CarryInv, Working, CacheToken, server
<1>7. KeyInv' BY DEF IInv, KeyInv, KeyOf, CacheToken
<1>8. ScreenInv' BY DEF IInv, ScreenInv, CacheToken
<1>9. AloneInv' BY DEF IInv, AloneInv, Running, CacheToken, Goto
<1>10. ShownInv' BY DEF IInv, ShownInv, Over, CacheToken, Goto
<1>11. WipeInv'
  <2>1. \A x \in Task : kind[x] = "sign_out" => pc[sess[x].token] \in Over
    BY DEF IInv, ShownInv
  <2>2. \A x \in Task : kind[x] = "restore" => x # t
    BY <1>1
  <2>3. UNCHANGED <<identity, state, kind, sess>>
    BY DEF CacheToken
  <2>5. QED BY <1>1, <2>1, <2>2, <2>3 DEF IInv, WipeInv, TypeOK, Running
<1>12. LinkedInv' BY DEF IInv, LinkedInv, CacheToken, Goto, server
<1>13. SignInBindsWallet' BY DEF IInv, SignInBindsWallet, Restored, CacheToken, Goto, server
<1>. QED BY <1>2, <1>3, <1>4, <1>5, <1>6, <1>7, <1>8, <1>9, <1>10, <1>11, <1>12, <1>13 DEF IInv

\* The same for the identity entry.
LEMMA CacheIdentityKeeps == ASSUME IInv, NEW t \in Task, CacheIdentity(t) PROVE IInv'
<1>. USE DEF IInv, CacheIdentity, Goto, server
<1>1. TypeOK' BY DEF TypeOK, Phase, Running
<1>2. KindInv' BY DEF KindInv
<1>3. CarryInv' BY DEF CarryInv, Working
<1>4. IssuedInv' BY DEF IssuedInv
<1>5. SessionsCoherent' BY DEF SessionsCoherent
<1>6. KeyInv' BY DEF KeyInv, KeyOf
<1>7. ScreenInv' BY DEF ScreenInv
<1>8. AloneInv' BY DEF AloneInv, Running
<1>9. ShownInv' BY DEF ShownInv, Over
<1>10. WipeInv' BY DEF WipeInv, KindInv, IssuedInv, ShownInv, Over
<1>11. LinkedInv' BY DEF LinkedInv
<1>12. SignInBindsWallet' BY DEF SignInBindsWallet, Restored
<1>. QED BY <1>1, <1>2, <1>3, <1>4, <1>5, <1>6, <1>7, <1>8, <1>9, <1>10, <1>11, <1>12 DEF IInv

\* The key found is one of the account, and a new one belongs to it.
LEMMA EnsureReadKeeps == ASSUME IInv, NEW t \in Task, EnsureRead(t) PROVE IInv'
<1>1. sess[t] \in AuthSession /\ sess[t].user \in User
  BY DEF IInv, TypeOK, CarryInv, Working, EnsureRead, AuthSession
<1>2. \/ /\ key' = [key EXCEPT ![t] = keys[sess[t].user]] /\ keys[sess[t].user] \in Task
         /\ pc' = [pc EXCEPT ![t] = "bind"]
      \/ key' = [key EXCEPT ![t] = t] /\ pc' = [pc EXCEPT ![t] = "ensure_write"]
  BY <1>1 DEF EnsureRead, Goto, IInv, TypeOK
<1>3. UNCHANGED <<server, storage, state, kind, sess>>
  BY DEF EnsureRead
<1>4. TypeOK'
  <2>1. key \in [Task -> Task \cup {None}] /\ pc \in [Task -> Phase]
    BY DEF IInv, TypeOK
  <2>2. key' \in [Task -> Task \cup {None}]
    BY <1>2, <2>1
  <2>3. pc' \in [Task -> Phase]
    BY <1>2, <2>1 DEF Phase, Running
  <2>. QED BY <1>3, <2>2, <2>3 DEF IInv, TypeOK, server, storage
<1>5. KindInv' BY DEF IInv, KindInv, TypeOK, EnsureRead, Goto
<1>6. CarryInv' BY NoneApart DEF IInv, CarryInv, TypeOK, Working, EnsureRead, Goto
<1>7. IssuedInv' BY DEF IInv, IssuedInv, TypeOK, EnsureRead, Goto, server
<1>8. SessionsCoherent' BY DEF IInv, SessionsCoherent, EnsureRead, server, storage
<1>9. KeyInv'
  BY DEF IInv, KeyInv, TypeOK, CarryInv, KeyOf, Working, AuthState, AuthSession, EnsureRead,
         storage
<1>10. ScreenInv' BY DEF IInv, ScreenInv, EnsureRead
<1>11. AloneInv' BY DEF IInv, AloneInv, TypeOK, Running, EnsureRead, Goto
<1>12. ShownInv'
  BY DEF IInv, ShownInv, TypeOK, KindInv, CarryInv, IssuedInv, SessionsCoherent, AloneInv, Over,
         AuthState, AuthSession, EnsureRead, Goto
<1>13. WipeInv' BY DEF IInv, WipeInv, TypeOK, Running, EnsureRead, Goto, storage
<1>14. LinkedInv' BY DEF IInv, LinkedInv, TypeOK, EnsureRead, Goto, server
<1>15. SignInBindsWallet'
  BY DEF IInv, SignInBindsWallet, TypeOK, Restored, EnsureRead, Goto, server
<1>. QED BY <1>4, <1>5, <1>6, <1>7, <1>8, <1>9, <1>10, <1>11, <1>12, <1>13, <1>14,
          <1>15 DEF IInv

\* The entry replaced is that of the account the key belongs to.
LEMMA EnsureWriteKeeps == ASSUME IInv, NEW t \in Task, EnsureWrite(t) PROVE IInv'
<1>. USE DEF IInv, EnsureWrite, Goto, server
<1>1. TypeOK' BY DEF TypeOK, Phase, Running
<1>2. KindInv' BY DEF KindInv
<1>3. CarryInv' BY DEF CarryInv
<1>4. IssuedInv' BY DEF IssuedInv
<1>5. SessionsCoherent' BY DEF SessionsCoherent
<1>6. KeyInv' BY DEF KeyInv, KeyOf
<1>7. ScreenInv' BY DEF ScreenInv
<1>8. AloneInv' BY DEF AloneInv, Running
<1>9. ShownInv' BY DEF ShownInv, Over
<1>10. WipeInv' BY DEF WipeInv, Running
<1>11. LinkedInv' BY DEF LinkedInv
<1>12. SignInBindsWallet' BY DEF SignInBindsWallet, Restored
<1>. QED BY <1>1, <1>2, <1>3, <1>4, <1>5, <1>6, <1>7, <1>8, <1>9, <1>10, <1>11, <1>12 DEF IInv

\* Only an account without a wallet gets one: nobody else's binding is lost.
LEMMA BindKeeps == ASSUME IInv, NEW t \in Task, Bind(t) PROVE IInv'
<1>1. sess[t] \in AuthSession /\ sess[t].user \in User /\ key[t] \in Task /\ pc[t] = "bind"
  BY DEF IInv, TypeOK, CarryInv, Working, Bind, AuthSession
<1>2. /\ \E phase \in {"linked", "unlinked"} : pc' = [pc EXCEPT ![t] = phase]
      /\ UNCHANGED <<session, storage, state, kind, sess, key>>
  BY DEF Bind, Goto, server, Server!Bind
<1>3. TypeOK'
  <2>1. wallet' = wallet \/ wallet' = [wallet EXCEPT ![sess[t].user] = key[t]]
    BY DEF Bind, Server!Bind, server
  <2>. QED BY <1>1, <1>2, <2>1 DEF IInv, TypeOK, Phase, Running, storage
<1>4. KindInv' BY DEF IInv, KindInv, TypeOK, Bind, Goto
<1>5. CarryInv' BY DEF IInv, CarryInv, TypeOK, Bind, Goto
<1>6. IssuedInv' BY DEF IInv, IssuedInv, TypeOK, Bind, Goto, Server!Bind, server
<1>7. SessionsCoherent' BY DEF IInv, SessionsCoherent, Bind, Server!Bind, server, storage
<1>8. KeyInv' BY DEF IInv, KeyInv, KeyOf, Bind, storage
<1>9. ScreenInv' BY DEF IInv, ScreenInv, Bind
<1>10. AloneInv' BY DEF IInv, AloneInv, TypeOK, Running, Bind, Goto
<1>11. ShownInv'
  <2>2. \A x \in Task : pc[x] \in Over => pc'[x] = pc[x]
    BY <1>1, <1>2 DEF IInv, TypeOK, Over
  <2>3. \A x \in Task : kind[x] = "sign_out" => sess[x].token \in Task
    BY NoneApart DEF IInv, CarryInv, TypeOK, AuthSession
  <2>4. state.session # None => state.session.token \in Task
    BY DEF IInv, TypeOK, AuthState, AuthSession
  <2>5. QED BY <1>2, <2>2, <2>3, <2>4 DEF IInv, ShownInv
<1>12. WipeInv' BY DEF IInv, WipeInv, TypeOK, Running, Bind, Goto, storage
<1>13. LinkedInv'
  BY DEF IInv, LinkedInv, TypeOK, CarryInv, AuthSession, Bind, Goto, Server!Bind, server
<1>14. SignInBindsWallet'
  BY DEF IInv, SignInBindsWallet, TypeOK, ScreenInv, Restored, AuthState, AuthSession, Bind,
         Goto, Server!Bind, server
<1>. QED BY <1>3, <1>4, <1>5, <1>6, <1>7, <1>8, <1>9, <1>10, <1>11, <1>12, <1>13, <1>14 DEF IInv

\* What is shown from now on was bound, or restored.
LEMMA FinishKeeps == ASSUME IInv, NEW t \in Task, Finish(t) PROVE IInv'
<1>1. /\ UNCHANGED <<session, token, identity, sess>>
      /\ state'.session \in {sess[t], state.session}
  BY DEF Finish, Authenticated, IInv, TypeOK, AuthState, server, storage
<1>2. TypeOK'
  BY DEF IInv, TypeOK, AuthState, Phase, Finish, Goto, Authenticated, server, storage
<1>3. KindInv' BY DEF IInv, KindInv, Finish, Goto
<1>4. CarryInv' BY DEF IInv, CarryInv, Finish, Goto
<1>5. IssuedInv' BY DEF IInv, IssuedInv, Finish, Goto, server
<1>6. SessionsCoherent'
  BY <1>1 DEF IInv, SessionsCoherent, TypeOK
<1>7. KeyInv' BY DEF IInv, KeyInv, KeyOf, Finish, Authenticated, storage
<1>8. ScreenInv' BY DEF IInv, ScreenInv, CarryInv, Finish, Authenticated
<1>9. AloneInv' BY DEF IInv, AloneInv, TypeOK, Running, Finish, Goto
<1>10. ShownInv'
  BY DEF IInv, ShownInv, TypeOK, KindInv, IssuedInv, SessionsCoherent, AloneInv, Phase, Over,
         AuthSession, Finish, Goto, Authenticated
<1>11. WipeInv'
  BY DEF IInv, WipeInv, KindInv, IssuedInv, ShownInv, Running, Over, Finish, Goto,
         Authenticated, storage
<1>12. LinkedInv' BY DEF IInv, LinkedInv, Finish, Goto, server
<1>13. SignInBindsWallet'
  BY DEF IInv, SignInBindsWallet, TypeOK, LinkedInv, Restored, Finish, Goto, Authenticated,
         server
<1>. QED BY <1>2, <1>3, <1>4, <1>5, <1>6, <1>7, <1>8, <1>9, <1>10, <1>11, <1>12, <1>13 DEF IInv

\* The first half of the wipe.
LEMMA DeleteTokenKeeps == ASSUME IInv, NEW t \in Task, DeleteToken(t) PROVE IInv'
<1>. USE DEF IInv, DeleteToken, Goto, server
<1>1. TypeOK' BY DEF TypeOK, Phase, Running
<1>2. KindInv' BY DEF KindInv
<1>3. CarryInv' BY DEF CarryInv, Working
<1>4. IssuedInv' BY DEF IssuedInv
<1>5. SessionsCoherent' BY NoneApart DEF SessionsCoherent
<1>6. KeyInv' BY DEF KeyInv, KeyOf
<1>7. ScreenInv' BY DEF ScreenInv
<1>8. AloneInv' BY DEF AloneInv, Running
<1>9. ShownInv' BY DEF ShownInv, KindInv, CarryInv, IssuedInv, SessionsCoherent
<1>10. WipeInv' BY NoneApart DEF WipeInv, TypeOK, CarryInv, Running, AuthSession
<1>11. LinkedInv' BY DEF LinkedInv
<1>12. SignInBindsWallet' BY DEF SignInBindsWallet, Restored
<1>. QED BY <1>1, <1>2, <1>3, <1>4, <1>5, <1>6, <1>7, <1>8, <1>9, <1>10, <1>11, <1>12 DEF IInv

\* The second half: no restore can hold the session, since it would run alone.
LEMMA DeleteIdentityKeeps == ASSUME IInv, NEW t \in Task, DeleteIdentity(t) PROVE IInv'
<1>. USE DEF IInv, DeleteIdentity, Goto, SignedOut, server
<1>1. TypeOK' BY DEF TypeOK, AuthState, Phase
<1>2. KindInv' BY DEF KindInv
<1>3. CarryInv' BY DEF CarryInv, Working
<1>4. IssuedInv' BY DEF IssuedInv
<1>5. SessionsCoherent' BY DEF SessionsCoherent
<1>6. KeyInv' BY DEF KeyInv, KeyOf
<1>7. ScreenInv' BY DEF ScreenInv
<1>8. AloneInv' BY DEF AloneInv, TypeOK, Running
<1>9. ShownInv' BY DEF ShownInv, KindInv, CarryInv, IssuedInv, SessionsCoherent
<1>10. WipeInv' BY DEF WipeInv, AloneInv, Running
<1>11. LinkedInv' BY DEF LinkedInv
<1>12. SignInBindsWallet' BY DEF SignInBindsWallet
<1>. QED BY <1>1, <1>2, <1>3, <1>4, <1>5, <1>6, <1>7, <1>8, <1>9, <1>10, <1>11, <1>12 DEF IInv

\* An exception moves one handler and never shows an account.
LEMMA FailKeeps == ASSUME IInv, NEW t \in Task, Fail(t) PROVE IInv'
<1>. USE DEF IInv, Fail, Throw, Goto, Recovery, Emitted, SignedOut, server, storage
<1>1. TypeOK' BY DEF TypeOK, AuthState, Phase, Running
<1>2. KindInv' BY DEF KindInv
<1>3. CarryInv' BY DEF CarryInv, Working
<1>4. IssuedInv' BY DEF IssuedInv
<1>5. SessionsCoherent' BY DEF SessionsCoherent
<1>6. KeyInv' BY DEF KeyInv, KeyOf
<1>7. ScreenInv' BY DEF ScreenInv
<1>8. AloneInv' BY DEF AloneInv, TypeOK, Running
<1>9. ShownInv' BY DEF ShownInv, Running, Over
<1>10. WipeInv' BY DEF WipeInv
<1>11. LinkedInv' BY DEF LinkedInv
<1>12. SignInBindsWallet' BY DEF SignInBindsWallet, Restored, Running
<1>. QED BY <1>1, <1>2, <1>3, <1>4, <1>5, <1>6, <1>7, <1>8, <1>9, <1>10, <1>11, <1>12 DEF IInv

\* A guest has no account.
LEMMA GuestRequestedKeeps == ASSUME IInv, GuestRequested PROVE IInv'
<1>. USE DEF IInv, GuestRequested, SignedOut, server, storage, tasks
<1>1. TypeOK' BY DEF TypeOK, AuthState
<1>2. KindInv' BY DEF KindInv
<1>3. CarryInv' BY DEF CarryInv
<1>4. IssuedInv' BY DEF IssuedInv
<1>5. SessionsCoherent' BY DEF SessionsCoherent
<1>6. KeyInv' BY DEF KeyInv, KeyOf
<1>7. ScreenInv' BY DEF ScreenInv
<1>8. AloneInv' BY DEF AloneInv
<1>9. ShownInv' BY DEF ShownInv
<1>10. WipeInv' BY DEF WipeInv
<1>11. LinkedInv' BY DEF LinkedInv
<1>12. SignInBindsWallet' BY DEF SignInBindsWallet
<1>. QED BY <1>1, <1>2, <1>3, <1>4, <1>5, <1>6, <1>7, <1>8, <1>9, <1>10, <1>11, <1>12 DEF IInv

\* Only the status changes.
LEMMA ErrorDismissedKeeps == ASSUME IInv, ErrorDismissed PROVE IInv'
<1>. USE DEF IInv, ErrorDismissed, server, storage, tasks
<1>1. TypeOK' BY DEF TypeOK, AuthState
<1>2. KindInv' BY DEF KindInv
<1>3. CarryInv' BY DEF CarryInv
<1>4. IssuedInv' BY DEF IssuedInv
<1>5. SessionsCoherent' BY DEF SessionsCoherent
<1>6. KeyInv' BY DEF KeyInv, KeyOf
<1>7. ScreenInv' BY DEF ScreenInv
<1>8. AloneInv' BY DEF AloneInv, SignedOut
<1>9. ShownInv' BY DEF ShownInv
<1>10. WipeInv' BY DEF WipeInv
<1>11. LinkedInv' BY DEF LinkedInv
<1>12. SignInBindsWallet' BY DEF SignInBindsWallet, Restored
<1>. QED BY <1>1, <1>2, <1>3, <1>4, <1>5, <1>6, <1>7, <1>8, <1>9, <1>10, <1>11, <1>12 DEF IInv

\* An expired session is still one that was issued.
LEMMA SessionExpiresKeeps == ASSUME IInv, NEW s \in Task, SessionExpires(s) PROVE IInv'
<1>. USE DEF IInv, SessionExpires, Server!End, storage, tasks
<1>1. TypeOK' BY DEF TypeOK
<1>2. KindInv' BY DEF KindInv
<1>3. CarryInv' BY DEF CarryInv
<1>4. IssuedInv' BY DEF IssuedInv
<1>5. SessionsCoherent' BY NoneApart DEF SessionsCoherent
<1>6. KeyInv' BY DEF KeyInv, KeyOf
<1>7. ScreenInv' BY DEF ScreenInv
<1>8. AloneInv' BY DEF AloneInv
<1>9. ShownInv' BY DEF ShownInv
<1>10. WipeInv' BY DEF WipeInv
<1>11. LinkedInv' BY DEF LinkedInv
<1>12. SignInBindsWallet' BY DEF SignInBindsWallet, Restored
<1>. QED BY <1>1, <1>2, <1>3, <1>4, <1>5, <1>6, <1>7, <1>8, <1>9, <1>10, <1>11, <1>12 DEF IInv

\* Another device binds only where no wallet was bound.
LEMMA OtherDeviceBindsKeeps ==
  ASSUME IInv, NEW u \in User, NEW w \in ForeignWallet, OtherDeviceBinds(u, w)
  PROVE  IInv'
<1>. USE DEF IInv, OtherDeviceBinds, Server!Bind, storage, tasks
<1>1. TypeOK' BY DEF TypeOK
<1>2. KindInv' BY DEF KindInv
<1>3. CarryInv' BY DEF CarryInv
<1>4. IssuedInv' BY DEF IssuedInv
<1>5. SessionsCoherent' BY DEF SessionsCoherent
<1>6. KeyInv' BY DEF KeyInv, KeyOf
<1>7. ScreenInv' BY DEF ScreenInv
<1>8. AloneInv' BY DEF AloneInv
<1>9. ShownInv' BY DEF ShownInv
<1>10. WipeInv' BY DEF WipeInv
<1>11. LinkedInv' BY DEF LinkedInv, CarryInv
<1>12. SignInBindsWallet' BY DEF SignInBindsWallet, ScreenInv, Restored
<1>. QED BY <1>1, <1>2, <1>3, <1>4, <1>5, <1>6, <1>7, <1>8, <1>9, <1>10, <1>11, <1>12 DEF IInv

LEMMA StutterKeeps == ASSUME IInv, UNCHANGED vars PROVE IInv'
<1>. USE DEF IInv, vars, server, storage, tasks
<1>1. TypeOK' BY DEF TypeOK
<1>2. KindInv' /\ CarryInv' /\ IssuedInv' BY DEF KindInv, CarryInv, IssuedInv
<1>3. SessionsCoherent' /\ KeyInv' /\ ScreenInv'
  BY DEF SessionsCoherent, KeyInv, KeyOf, ScreenInv
<1>4. AloneInv' /\ ShownInv' /\ WipeInv' BY DEF AloneInv, ShownInv, WipeInv
<1>5. LinkedInv' /\ SignInBindsWallet' BY DEF LinkedInv, SignInBindsWallet, Restored
<1>. QED BY <1>1, <1>2, <1>3, <1>4, <1>5 DEF IInv

-----------------------------------------------------------------------------
(* The theorems *)

LEMMA InvariantInit == Init => IInv
<1>. SUFFICES ASSUME Init PROVE IInv
  OBVIOUS
<1>1. PICK t \in Task :
        /\ kind = [x \in Task |-> IF x = t THEN "restore" ELSE "none"]
        /\ pc = [x \in Task |-> IF x = t THEN "read_identity" ELSE "unused"]
  BY DEF Init
<1>2. /\ state = SignedOut("restoring")
      /\ sess = [x \in Task |-> None] /\ key = [x \in Task |-> None]
  BY DEF Init
<1>3. TypeOK
  BY <1>1, <1>2 DEF Init, TypeOK, SignedOut, AuthState, Phase, Running
<1>4. KindInv /\ CarryInv
  BY <1>1, <1>2 DEF KindInv, CarryInv, Working
<1>5. IssuedInv /\ SessionsCoherent /\ KeyInv
  BY <1>1, <1>2 DEF Init, IssuedInv, SessionsCoherent, KeyInv, SignedOut
<1>6. ScreenInv /\ AloneInv /\ SignInBindsWallet
  BY <1>1, <1>2 DEF ScreenInv, AloneInv, SignInBindsWallet, SignedOut, Running
<1>7. ShownInv /\ WipeInv /\ LinkedInv
  BY <1>1, <1>2 DEF ShownInv, WipeInv, LinkedInv, SignedOut
<1>. QED BY <1>3, <1>4, <1>5, <1>6, <1>7 DEF IInv

LEMMA InvariantStep == IInv /\ [Next]_vars => IInv'
<1>. SUFFICES ASSUME IInv, [Next]_vars PROVE IInv'
  OBVIOUS
<1>1. ASSUME NEW t \in Task, Requested(t) PROVE IInv'
  BY <1>1, LaunchKeeps, SignInRequestedKeeps, SignOutRequestedKeeps DEF Requested
<1>2. ASSUME NEW t \in Task, Step(t) PROVE IInv'
  BY <1>2, ReadIdentityKeeps, ReadTokenKeeps, MeKeeps, ExchangeKeeps, CacheTokenKeeps,
    CacheIdentityKeeps, EnsureReadKeeps, EnsureWriteKeeps, BindKeeps, FinishKeeps,
    DeleteTokenKeeps, DeleteIdentityKeeps, FailKeeps DEF Step
<1>. QED
  BY <1>1, <1>2, GuestRequestedKeeps, ErrorDismissedKeeps, SessionExpiresKeeps,
    OtherDeviceBindsKeeps, StutterKeeps DEF Next

LEMMA Invariance == Spec => []IInv
BY InvariantInit, InvariantStep, PTL DEF Spec

\* Type correctness: storage, server, screens and handlers hold what they are meant to.
THEOREM TypeCorrect == Spec => []TypeOK
BY Invariance, PTL DEF IInv

\* The token and the account that storage, a handler or the screens hold together
\* are those of one session the API issued, however the writes of concurrent
\* sign-ins and of a killed app were interleaved.
THEOREM SessionsBelongTogether == Spec => []SessionsCoherent
BY Invariance, PTL DEF IInv

\* Behind the gate there is always a wallet, and its key is one generated for the
\* account that is shown.
THEOREM WalletsOfAccounts == Spec => []WalletOfAccount
<1>1. IInv => WalletOfAccount
  BY DEF IInv, ScreenInv, KeyInv, KeyOf, WalletOfAccount
<1>. QED BY <1>1, Invariance, PTL

\* An account that was signed in to since the launch has the wallet shown bound to
\* it at the server, whatever other devices of the account do meanwhile.
THEOREM SignInsBind == Spec => []SignInBindsWallet
BY Invariance, PTL DEF IInv

\* A session that a sign-out wiped is neither shown again nor left in storage for a
\* later launch, whichever handlers were still running.
THEOREM SignedOutForGood == Spec => []SignedOutStaysOut
<1>1. IInv => SignedOutStaysOut
  <2>1. SUFFICES ASSUME IInv, NEW t \in Task, kind[t] = "sign_out", pc[t] = "wiped"
                 PROVE  sess[t] \notin {state.session, identity}
    BY DEF SignedOutStaysOut
  <2>2. sess[t] # None
    BY <2>1 DEF IInv, CarryInv
  <2>3. /\ identity # None => identity.token # sess[t].token
        /\ state.session # None => state.session.token # sess[t].token
    BY <2>1 DEF IInv, WipeInv
  <2>. QED BY <2>2, <2>3
<1>. QED BY <1>1, Invariance, PTL

=============================================================================
