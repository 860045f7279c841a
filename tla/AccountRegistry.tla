--------------------------- MODULE AccountRegistry ---------------------------
(***************************************************************************)
(* What the account store of the Tickerless API promises: a registry in    *)
(* which an account appears complete, with its address and its one         *)
(* credential; the address, the credential and the wallet of an account    *)
(* are nobody else's and never change once set; and a session is opened    *)
(* once, for an account that has a credential, and ends for good.  No      *)
(* request, transaction, connection or failure is visible here.            *)
(***************************************************************************)
CONSTANTS Account, Session, Email, Credential, Wallet, LegacyWallet, None

VARIABLES
  address,     \* the e-mail address of each account, None if it has none
  credentials, \* the credentials that sign in to each account
  wallet,      \* the wallet bound to each account
  session      \* the owner and the state of each session

vars == <<address, credentials, wallet, session>>

Init ==
  /\ address = [a \in Account |-> None]
  /\ credentials = [a \in Account |-> {}]
  /\ wallet = [a \in Account |-> IF a \in LegacyWallet THEN a ELSE None]
  /\ session = [s \in Session |-> [user |-> None, state |-> "none"]]

Create(a, e, c) ==
  /\ address[a] = None
  /\ credentials[a] = {}
  /\ \A b \in Account : address[b] # e /\ c \notin credentials[b]
  /\ address' = [address EXCEPT ![a] = e]
  /\ credentials' = [credentials EXCEPT ![a] = {c}]
  /\ UNCHANGED <<wallet, session>>

Bind(a, w) ==
  /\ address[a] # None
  /\ wallet[a] = None
  /\ \A b \in Account : wallet[b] # w
  /\ wallet' = [wallet EXCEPT ![a] = w]
  /\ UNCHANGED <<address, credentials, session>>

Open(s, a) ==
  /\ credentials[a] # {}
  /\ session[s].state = "none"
  /\ session' = [session EXCEPT ![s] = [user |-> a, state |-> "live"]]
  /\ UNCHANGED <<address, credentials, wallet>>

End(s) ==
  /\ session[s].state = "live"
  /\ \E x \in {"revoked", "expired"} : session' = [session EXCEPT ![s].state = x]
  /\ UNCHANGED <<address, credentials, wallet>>

Next ==
  \/ \E a \in Account, e \in Email, c \in Credential : Create(a, e, c)
  \/ \E a \in Account, w \in Wallet : Bind(a, w)
  \/ \E s \in Session, a \in Account : Open(s, a)
  \/ \E s \in Session : End(s)

Spec == Init /\ [][Next]_vars

=============================================================================
