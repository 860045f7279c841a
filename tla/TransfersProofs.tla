--------------------------- MODULE TransfersProofs ---------------------------
(***************************************************************************)
(* Proofs about Transfers, for every set of sends, overlapping calls,      *)
(* recipients and amounts.                                                 *)
(*                                                                         *)
(* What is on the ledger says nothing of what is still on its way there,   *)
(* so the invariant follows a transaction from the call that hands it over *)
(* (StageInv), once (OnceInv), and what a call of snapshot has read until  *)
(* it is shown (CallInv), which rests on there being one call at a time.   *)
(***************************************************************************)
EXTENDS Transfers, TLAPS

\* How far a send has come when a transaction of its own exists.
PaymentStage == {"confirm", "sent", "failed"}
AccountStage == PaymentStage \cup {"account", "transfer"}

Handed(t) ==
  /\ sends[t.by] # None
  /\ t.draft = sends[t.by].draft
  /\ sends[t.by].pc \in IF t.kind = "payment" THEN PaymentStage ELSE AccountStage

Traced == network \cup {ledger[i].tx : i \in DOMAIN ledger}

StageInv == \A t \in Traced : Handed(t)

Same(t, u) == t.kind = "payment" /\ u.kind = "payment" /\ t.by = u.by

\* A send pays once, be it on the ledger or on the way to it.
OnceInv ==
  /\ \A t, u \in network : Same(t, u) => t = u
  /\ \A t \in network : \A i \in DOMAIN ledger : ~ Same(t, ledger[i].tx)
  /\ \A i, j \in DOMAIN ledger : Same(ledger[i].tx, ledger[j].tx) => i = j

\* A sheet is busy with one send at a time, and stays while that send is its own.
SheetInv ==
  /\ \A s \in Send : sends[s] # None =>
       /\ sends[s].open => sheet # None
       /\ sends[s].open => sends[s].pc = "review" \/ (sends[s].pc \in Awaiting /\ sheet.sending)
       /\ sends[s].pc = "review" => sends[s].open
  /\ \A s, t \in Send :
       sends[s] # None /\ sends[s].open /\ sends[t] # None /\ sends[t].open => s = t

\* a balance m is not newer than a balance n
Older(m, n) == m # None /\ n # None => m <= n

\* There is one call at a time, and none but the one that a refresh waits for.
OneCall ==
  /\ ~ mounted => ~ refreshing /\ snapshot = None
  /\ ~ refreshing => \A f \in Fetch : fetches[f] = None
  /\ \A f, g \in Fetch : fetches[f] # None /\ fetches[g] # None => f = g

\* What is shown is not newer than what the call under way has read, nor that
\* than the ledger.
CallInv ==
  /\ snapshot # None =>
       snapshot.SOL <= Len(ledger) /\ Older(snapshot.USDC, Len(ledger))
  /\ \A f \in Fetch : fetches[f] # None =>
       /\ fetches[f].at # "sol" =>
            /\ fetches[f].sol <= Len(ledger)
            /\ snapshot # None => snapshot.SOL <= fetches[f].sol
       /\ fetches[f].at = "answer" =>
            /\ Older(fetches[f].usdc, Len(ledger))
            /\ snapshot # None => Older(snapshot.USDC, fetches[f].usdc)
       /\ fetches[f].at # "answer" => fetches[f].usdc = None

IInv ==
  /\ TypeOK
  /\ StageInv
  /\ OnceInv
  /\ SheetInv
  /\ OneCall
  /\ CallInv
  /\ SentMeansPaid


-----------------------------------------------------------------------------
(* Records *)

LEMMA ProgressFacts ==
  ASSUME TypeOK, NEW s \in Send, sends[s] # None
  PROVE  /\ sends[s] \in Progress
         /\ sends[s].pc \in Awaiting \cup {"review", "sent", "failed"}
         /\ sends[s].asset \in Asset /\ sends[s].draft \in Draft /\ sends[s].open \in BOOLEAN
BY DEF TypeOK, Progress

LEMMA SheetFacts ==
  ASSUME TypeOK, sheet # None
  PROVE  /\ sheet \in Sheet
         /\ sheet.asset \in Asset /\ sheet.draft \in Draft \cup {None} /\ sheet.sending \in BOOLEAN
BY DEF TypeOK, Sheet

Advanced(p, q) ==
  /\ q \in Progress \ {None}
  /\ q.draft = p.draft
  /\ q.pc \in Awaiting \cup {"sent", "failed"}

\* A record with some fields changed is a record still, and not None.
LEMMA ProgressUpdate ==
  ASSUME NEW p \in Progress, NEW c \in Awaiting \cup {"sent", "failed"}
  PROVE  /\ Advanced(p, [p EXCEPT !.pc = c])
         /\ Advanced(p, [p EXCEPT !.pc = c, !.open = FALSE])
         /\ \A a \in Asset : Advanced(p, [p EXCEPT !.asset = a, !.pc = c])
BY NoneAssumption DEF Progress, Advanced

-----------------------------------------------------------------------------
(* Every step of a send *)

LEMMA SendingGoesOn ==
  ASSUME TypeOK, SheetInv, NEW s \in Send, Sending(s)
  PROVE  /\ sends[s] # None /\ sends[s].pc \in Awaiting
         /\ sends' = [sends EXCEPT ![s] = sends'[s]]
         /\ Advanced(sends[s], sends'[s])
<1>1. sends[s] # None /\ sends[s].pc \in Awaiting
  BY DEF Sending, Vibrated, CheckAccount, CreateAccount, AccountReady, Transfer, Sent, Failed,
    AtStep, Awaiting
<1>2. sends[s] \in Progress
  BY <1>1, ProgressFacts
<1>3. ChosenAsset(s) \in Asset
  BY <1>1, ProgressFacts, SheetFacts DEF ChosenAsset, SheetInv
<1>4. \E q : Update(s, q) /\ Advanced(sends[s], q)
  <2>1. CASE Vibrated(s)
    BY <1>2, <1>3, <2>1, ProgressUpdate DEF Vibrated, Awaiting
  <2>2. ASSUME NEW c \in Awaiting, Goto(s, c) PROVE \E q : Update(s, q) /\ Advanced(sends[s], q)
    <3>1. Advanced(sends[s], [sends[s] EXCEPT !.pc = c])
      BY <1>2, ProgressUpdate
    <3>2. QED BY <2>2, <3>1 DEF Goto
  <2>3. CASE CheckAccount(s)
    BY <2>2, <2>3 DEF CheckAccount, Awaiting
  <2>4. CASE CreateAccount(s) \/ AccountReady(s) \/ Transfer(s)
    BY <2>2, <2>4 DEF CreateAccount, AccountReady, Transfer, Awaiting
  <2>5. CASE Sent(s) \/ Failed(s)
    <3>1. \A c \in {"sent", "failed"} : Advanced(sends[s], [sends[s] EXCEPT !.pc = c, !.open = FALSE])
      BY <1>2, ProgressUpdate
    <3>2. QED BY <2>5, <3>1 DEF Sent, Finish, Failed
  <2>6. QED BY <2>1, <2>3, <2>4, <2>5 DEF Sending
<1>5. QED BY <1>1, <1>4 DEF TypeOK, Update

\* A send that has handed something over does not go back to before that.
LEMMA SendingKeepsStage ==
  ASSUME TypeOK, SheetInv, NEW s \in Send, Sending(s)
  PROVE  /\ sends[s].pc \in PaymentStage => sends'[s].pc \in PaymentStage
         /\ sends[s].pc \in AccountStage => sends'[s].pc \in AccountStage
<1>1. sends[s] \in Progress /\ sends[s].pc \in Awaiting
  BY SendingGoesOn, ProgressFacts
<1>2. ASSUME NEW c, Goto(s, c) PROVE sends'[s].pc = c
  BY <1>1, <1>2 DEF Goto, Update, TypeOK, Progress
<1>3. CASE Sent(s) \/ Failed(s)
  <2>1. \A c : [sends[s] EXCEPT !.pc = c, !.open = FALSE].pc = c
    BY <1>1 DEF Progress
  <2>2. sends'[s].pc \in {"sent", "failed"}
    BY <1>3, <2>1 DEF Sent, Finish, Failed, Update, TypeOK
  <2>3. QED BY <2>2 DEF PaymentStage, AccountStage
<1>4. CASE Vibrated(s) \/ CheckAccount(s) \/ CreateAccount(s)
  BY <1>4 DEF Vibrated, CheckAccount, CreateAccount, AtStep, PaymentStage, AccountStage
<1>5. CASE AccountReady(s) \/ Transfer(s)
  BY <1>2, <1>5 DEF AccountReady, Transfer, AtStep, PaymentStage, AccountStage
<1>6. QED BY <1>3, <1>4, <1>5 DEF Sending

\* What the user does to a send that was confirmed: its sheet may go away.
LEMMA UserKeepsSends ==
  ASSUME TypeOK, SheetInv, User
  PROVE  /\ sends' \in [Send -> Progress \cup {None}]
         /\ \A s \in Send : sends[s] # None /\ sends[s].pc # "review" =>
              sends'[s] # None /\ sends'[s].draft = sends[s].draft /\ sends'[s].pc = sends[s].pc
<1>1. CASE Open \/ Edit
  BY <1>1 DEF Open, Edit, TypeOK
<1>2. CASE Dismiss
  <2>1. sheet.asset \in Asset
    BY <1>2, SheetFacts DEF Dismiss, Usable
  <2>2. ASSUME NEW s \in Send, sends[s] # None
        PROVE  /\ sends'[s] \in Progress \ {None}
               /\ sends'[s].draft = sends[s].draft /\ sends'[s].pc = sends[s].pc
    <3>1. sends[s] \in Progress
      BY <2>2, ProgressFacts
    <3>2. \A a \in Asset : LET q == [sends[s] EXCEPT !.open = FALSE, !.asset = a]
                           IN q \in Progress \ {None} /\ q.draft = sends[s].draft /\ q.pc = sends[s].pc
      BY <3>1, NoneAssumption DEF Progress
    <3>3. CASE sends[s].open
      BY <1>2, <2>1, <2>2, <3>1, <3>2, <3>3, ProgressFacts DEF Dismiss
    <3>4. CASE ~ sends[s].open
      BY <1>2, <2>2, <3>1, <3>4 DEF Dismiss
    <3>5. QED BY <3>3, <3>4
  <2>3. \A s \in Send : sends[s] = None => sends'[s] = None
    BY <1>2 DEF Dismiss
  <2>4. DOMAIN sends' = Send /\ sends' = [s \in Send |-> sends'[s]]
    BY <1>2 DEF Dismiss
  <2>5. QED BY <2>2, <2>3, <2>4
<1>3. CASE \E s \in Send : Review(s) \/ GoBack(s) \/ Confirm(s)
  <2>1. PICK s \in Send : Review(s) \/ GoBack(s) \/ Confirm(s)
    BY <1>3
  <2>2. \E q \in Progress \cup {None} : sends' = [sends EXCEPT ![s] = q]
    <3>1. CASE Review(s)
      BY <2>1, <3>1, SheetFacts DEF Review, Usable, Update, Progress
    <3>2. CASE GoBack(s)
      BY <3>2 DEF GoBack, Update
    <3>3. CASE Confirm(s)
      <4>1. sends[s] \in Progress
        BY <3>3, ProgressFacts DEF Confirm, AtStep
      <4>2. Advanced(sends[s], [sends[s] EXCEPT !.pc = "haptic"])
        BY <4>1, ProgressUpdate DEF Awaiting
      <4>3. QED BY <3>3, <4>2 DEF Confirm, Goto, Update, Advanced
    <3>4. QED BY <2>1, <3>1, <3>2, <3>3
  <2>3. sends[s] = None \/ sends[s].pc = "review"
    BY <2>1 DEF Review, GoBack, Confirm, AtStep
  <2>4. QED BY <2>2, <2>3 DEF TypeOK
<1>4. QED BY <1>1, <1>2, <1>3 DEF User

\* A send is reported as sent by its own step Sent, and by no other.
LEMMA SendingReports ==
  ASSUME TypeOK, SheetInv, NEW s \in Send, Sending(s), sends'[s].pc = "sent"
  PROVE  InLedger("payment", s)
<1>1. sends[s] \in Progress
  BY SendingGoesOn, ProgressFacts
<1>2. ASSUME NEW c, c # "sent", Goto(s, c) PROVE FALSE
  BY <1>1, <1>2 DEF Goto, Update, TypeOK, Progress
<1>3. ~ Vibrated(s)
  <2>1. \A a, c : [sends[s] EXCEPT !.asset = a, !.pc = c].pc = c
    BY <1>1 DEF Progress
  <2>2. \A a, c : Update(s, [sends[s] EXCEPT !.asset = a, !.pc = c]) => sends'[s].pc = c
    BY <2>1 DEF Update, TypeOK
  <2>3. QED BY <2>2 DEF Vibrated
<1>4. ~ Failed(s)
  <2>1. [sends[s] EXCEPT !.pc = "failed", !.open = FALSE].pc = "failed"
    BY <1>1 DEF Progress
  <2>2. QED BY <2>1 DEF Failed, Update, TypeOK
<1>5. QED BY <1>2, <1>3, <1>4
  DEF Sending, CheckAccount, CreateAccount, AccountReady, Transfer, Sent

LEMMA UserReports ==
  ASSUME TypeOK, SheetInv, User, NEW s \in Send, sends'[s] # None, sends'[s].pc = "sent"
  PROVE  sends[s] # None /\ sends[s].pc = "sent"
<1>1. CASE sends[s] # None /\ sends[s].pc # "review"
  BY <1>1, UserKeepsSends
<1>2. CASE sends[s] = None \/ sends[s].pc = "review"
  <2>1. CASE Open \/ Edit
    BY <2>1 DEF Open, Edit
  <2>2. ~ Dismiss
    BY <1>2 DEF Dismiss, Usable, Reviewing
  <2>3. ASSUME NEW t \in Send, Review(t) \/ GoBack(t) \/ Confirm(t) PROVE sends[s] # None /\ s # t
    <3>1. \A p : p.pc # "sent" \/ p = None => ~ Update(s, p)
      BY DEF Update, TypeOK
    <3>2. sends[s] # None => [sends[s] EXCEPT !.pc = "haptic"].pc = "haptic"
      BY ProgressFacts DEF Progress
    <3>3. s # t
      BY <2>3, <3>1, <3>2 DEF Review, GoBack, Confirm, AtStep, Goto
    <3>4. QED BY <2>3, <3>3 DEF Review, GoBack, Confirm, Goto, Update, TypeOK
  <2>4. ASSUME NEW t \in Send, t # s, Review(t) \/ GoBack(t) \/ Confirm(t)
        PROVE  sends'[s] = sends[s]
    BY <2>4 DEF Review, GoBack, Confirm, Goto, Update, TypeOK
  <2>5. QED BY <2>1, <2>2, <2>3, <2>4 DEF User
<1>3. QED BY <1>1, <1>2

\* What no step undoes: a confirmed send keeps its draft and what it has reached.
SendsKept ==
  /\ sends' \in [Send -> Progress \cup {None}]
  /\ \A s \in Send : sends[s] # None /\ sends[s].pc # "review" =>
       /\ sends'[s] # None
       /\ sends'[s].draft = sends[s].draft
       /\ sends[s].pc \in PaymentStage => sends'[s].pc \in PaymentStage
       /\ sends[s].pc \in AccountStage => sends'[s].pc \in AccountStage

LEMMA SendsStep ==
  ASSUME TypeOK, SheetInv, [Next]_vars
  PROVE  SendsKept
<1>1. CASE UNCHANGED sends
  BY <1>1 DEF TypeOK, SendsKept
<1>2. CASE User
  BY <1>2, UserKeepsSends DEF SendsKept
<1>3. ASSUME NEW s \in Send, Sending(s) PROVE SendsKept
  BY <1>3, SendingGoesOn, SendingKeepsStage DEF SendsKept, Advanced, TypeOK
<1>4. QED BY <1>1, <1>2, <1>3 DEF Next, Chain, Screen, vars

-----------------------------------------------------------------------------
(* Types *)

LEMMA ShownIsNat ==
  ASSUME TypeOK, CallInv, snapshot # None, NEW a \in Asset
  PROVE  Shown(a) \in Nat
<1>1. snapshot \in Snapshot /\ snapshot[a] \in Nat \cup {None}
  BY DEF TypeOK, Snapshot, Asset
<1>2. snapshot[a] # None => snapshot[a] \in 0..Len(ledger)
  BY <1>1, NoneAssumption DEF CallInv, Older, Asset, Snapshot, TypeOK
<1>3. ASSUME NEW n \in 1..Len(ledger) PROVE ledger[n].left[a] \in Nat
  <2>1. ledger[n] \in Entry
    BY <1>3 DEF TypeOK
  <2>2. ledger[n].left \in [Asset -> Nat]
    BY <2>1 DEF Entry
  <2>3. QED BY <2>2
<1>4. QED BY <1>1, <1>2, <1>3, BoundsAssumption DEF Shown, Balance, TypeOK

LEMMA SheetTyped ==
  ASSUME TypeOK, SheetInv, CallInv, [Next]_vars
  PROVE  sheet' \in Sheet \cup {None}
<1>1. CASE UNCHANGED sheet
  BY <1>1 DEF TypeOK
<1>2. CASE Open
  <2>1. [a \in Asset |-> Shown(a)] \in [Asset -> Nat]
    BY <1>2, ShownIsNat DEF Open
  <2>2. QED BY <1>2, <2>1 DEF Open, Sheet, Asset
<1>3. CASE Edit
  BY <1>3, SheetFacts DEF Edit, Usable, Sheet
<1>4. CASE Dismiss
  BY <1>4 DEF Dismiss
<1>5. ASSUME NEW s \in Send, Confirm(s) PROVE sheet' \in Sheet \cup {None}
  BY <1>5, SheetFacts, ProgressFacts DEF Confirm, AtStep, SheetInv, Sheet
<1>6. ASSUME NEW s \in Send, Sent(s) PROVE sheet' \in Sheet \cup {None}
  BY <1>6 DEF Sent, Finish, TypeOK
<1>7. ASSUME NEW s \in Send, Failed(s) PROVE sheet' \in Sheet \cup {None}
  BY <1>7, SheetFacts, ProgressFacts DEF Failed, SheetInv, Sheet, TypeOK
<1>8. QED BY <1>1, <1>2, <1>3, <1>4, <1>5, <1>6, <1>7
  DEF Next, Chain, Screen, User, Review, GoBack, Sending, Vibrated, CheckAccount, CreateAccount,
    AccountReady, Transfer, vars

LEMMA ChainTyped ==
  ASSUME TypeOK, SheetInv, [Next]_vars
  PROVE  /\ ledger' \in Seq(Entry) /\ network' \subseteq Transaction /\ accounts' \subseteq Recipient
<1>1. CASE UNCHANGED chain
  BY <1>1 DEF TypeOK, chain
<1>2. CASE Chain
  <2>1. PICK t \in network : Land(t)
    BY <1>2 DEF Chain
  <2>2. [tx |-> t, left |-> Left(t)] \in Entry /\ t.draft.to \in Recipient
    BY <2>1 DEF Land, Entry, TypeOK, Transaction, Draft
  <2>3. QED BY <2>1, <2>2 DEF Land, TypeOK
<1>3. ASSUME NEW s \in Send, CreateAccount(s) \/ Transfer(s)
      PROVE  /\ ledger' = ledger /\ network' \subseteq Transaction /\ accounts' = accounts
  <2>1. sends[s].draft \in Draft /\ sends[s].asset \in Asset
    BY <1>3, ProgressFacts DEF CreateAccount, Transfer, AtStep
  <2>2. QED BY <1>3, <2>1 DEF CreateAccount, Transfer, Broadcast, Transaction, TypeOK
<1>4. QED BY <1>1, <1>2, <1>3
  DEF Next, Screen, User, Sending, CheckAccount, AccountReady, Sent, Failed, vars, TypeOK

LEMMA ScreenTyped ==
  ASSUME TypeOK, [Next]_vars
  PROVE  /\ mounted' \in BOOLEAN /\ snapshot' \in Snapshot \cup {None} /\ refreshing' \in BOOLEAN
         /\ fetches' \in [Fetch -> Call \cup {None}]
<1> DEFINE Typed == /\ mounted \in BOOLEAN /\ snapshot \in Snapshot \cup {None}
                    /\ refreshing \in BOOLEAN /\ fetches \in [Fetch -> Call \cup {None}]
<1>1. CASE UNCHANGED screen
  BY <1>1 DEF TypeOK, screen
<1>2. ASSUME NEW f \in Fetch, Begin(f) PROVE fetches' \in [Fetch -> Call \cup {None}]
  BY <1>2 DEF Begin, Call, TypeOK
<1>3. CASE Refresh \/ Enter
  BY <1>2, <1>3 DEF Refresh, Enter, TypeOK
<1>4. CASE Leave
  BY <1>4 DEF Leave
<1>5. ASSUME NEW f \in Fetch, ReadSol(f) \/ ReadToken(f) \/ MissToken(f) PROVE Typed'
  <2>1. fetches[f] \in Call /\ Len(ledger) \in Nat
    BY <1>5 DEF ReadSol, ReadToken, MissToken, At, TypeOK
  <2>2. /\ [fetches[f] EXCEPT !.at = "token", !.sol = Len(ledger)] \in Call
        /\ [fetches[f] EXCEPT !.at = "answer", !.usdc = Len(ledger)] \in Call
        /\ [fetches[f] EXCEPT !.at = "answer"] \in Call
    BY <2>1 DEF Call
  <2>3. QED BY <1>5, <2>2 DEF ReadSol, ReadToken, MissToken, TypeOK
<1>6. ASSUME NEW f \in Fetch, Deliver(f) \/ FetchFails(f) PROVE Typed'
  <2>1. fetches[f] \in Call
    BY <1>6 DEF Deliver, FetchFails, At, TypeOK
  <2>2. [USDC |-> fetches[f].usdc, SOL |-> fetches[f].sol] \in Snapshot
    BY <2>1 DEF Call, Snapshot
  <2>3. QED BY <1>6, <2>2 DEF Deliver, FetchFails, TypeOK
<1>7. QED BY <1>1, <1>3, <1>4, <1>5, <1>6
  DEF Next, Chain, Screen, User, Sending, CheckAccount, CreateAccount, AccountReady, Transfer,
    Sent, Finish, Failed, vars

LEMMA TypeStep ==
  ASSUME TypeOK, SheetInv, CallInv, [Next]_vars
  PROVE  TypeOK'
BY SendsStep, SheetTyped, ChainTyped, ScreenTyped DEF TypeOK, SendsKept

-----------------------------------------------------------------------------
(* Transactions *)

\* The steps that move transactions.
Landing(t) ==
  /\ t \in network
  /\ network' = network \ {t}
  /\ \E x : ledger' = Append(ledger, [tx |-> t, left |-> x])
  /\ UNCHANGED sends

Handing(s, t) ==
  /\ network' = network \cup {t}
  /\ UNCHANGED ledger
  /\ t.by = s
  /\ t.draft = sends[s].draft
  /\ \/ t.kind = "payment" /\ sends[s].pc = "transfer" /\ sends'[s].pc = "confirm"
     \/ t.kind = "account" /\ sends[s].pc = "create" /\ sends'[s].pc = "account"

LEMMA NetworkStep ==
  ASSUME TypeOK, SheetInv, [Next]_vars
  PROVE  \/ UNCHANGED <<ledger, network>>
         \/ \E t \in network : Landing(t)
         \/ \E s \in Send, t \in Transaction : Handing(s, t) /\ Sending(s)
<1>1. CASE Chain
  BY <1>1 DEF Chain, Land, Landing
<1>2. ASSUME NEW s \in Send, CreateAccount(s) \/ Transfer(s)
      PROVE  \E t \in Transaction : Handing(s, t) /\ Sending(s)
  <2>1. sends[s] \in Progress
    BY <1>2, ProgressFacts DEF CreateAccount, Transfer, AtStep
  <2>2. \A k \in {"payment", "account"} :
          [kind |-> k, by |-> s, asset |-> sends[s].asset, draft |-> sends[s].draft] \in Transaction
    BY <2>1 DEF Transaction, Progress
  <2>3. \A c : [sends[s] EXCEPT !.pc = c].pc = c
    BY <2>1 DEF Progress
  <2>4. \A c : Goto(s, c) => sends'[s].pc = c
    BY <2>3 DEF Goto, Update, TypeOK
  <2>5. CASE CreateAccount(s)
    BY <2>2, <2>4, <2>5 DEF CreateAccount, Broadcast, AtStep, Handing, Sending
  <2>6. CASE Transfer(s)
    BY <2>2, <2>4, <2>6 DEF Transfer, Broadcast, AtStep, Handing, Sending
  <2>7. QED BY <1>2, <2>5, <2>6
<1>3. QED BY <1>1, <1>2
  DEF Next, Screen, User, Sending, CheckAccount, AccountReady, Sent, Failed, vars, chain

LEMMA HandedStays ==
  ASSUME TypeOK, SheetInv, [Next]_vars, NEW t \in Transaction, Handed(t)
  PROVE  Handed(t)'
<1>1. t.by \in Send /\ sends[t.by] # None /\ sends[t.by].pc # "review"
  BY DEF Handed, Transaction, PaymentStage, AccountStage
<1>2. QED BY <1>1, SendsStep DEF SendsKept, Handed

LEMMA TracedTyped ==
  ASSUME TypeOK
  PROVE  Traced \subseteq Transaction
<1>1. \A i \in DOMAIN ledger : ledger[i] \in Entry
  BY DEF TypeOK
<1>2. QED BY <1>1 DEF Entry, Traced, TypeOK

\* What a landing leaves on the ledger.
LEMMA Landed ==
  ASSUME TypeOK, NEW t \in network, Landing(t)
  PROVE  /\ Len(ledger') = Len(ledger) + 1
         /\ ledger'[Len(ledger) + 1].tx = t
         /\ \A i \in DOMAIN ledger : i \in DOMAIN ledger' /\ ledger'[i] = ledger[i]
         /\ \A i \in DOMAIN ledger' : i \in DOMAIN ledger \/ i = Len(ledger) + 1
<1>1. PICK x : ledger' = Append(ledger, [tx |-> t, left |-> x])
  BY DEF Landing
<1>2. QED BY <1>1 DEF TypeOK

LEMMA StageStep ==
  ASSUME TypeOK, SheetInv, StageInv, [Next]_vars
  PROVE  StageInv'
<1>1. \A t \in Transaction : Handed(t) => Handed(t)'
  BY HandedStays
<1>2. \A t \in Traced : Handed(t)'
  BY <1>1, TracedTyped DEF StageInv
<1>3. CASE UNCHANGED <<ledger, network>>
  <2>1. Traced' = Traced
    BY <1>3 DEF Traced
  <2>2. QED BY <1>2, <2>1 DEF StageInv
<1>4. ASSUME NEW t \in network, Landing(t) PROVE StageInv'
  <2>1. Traced' \subseteq Traced
    BY <1>4, Landed DEF Traced, Landing
  <2>2. QED BY <1>2, <2>1 DEF StageInv
<1>5. ASSUME NEW s \in Send, NEW t \in Transaction, Handing(s, t), Sending(s) PROVE StageInv'
  <2>1. Handed(t)'
    BY <1>5, SendingGoesOn DEF Handing, Handed, Advanced, PaymentStage, AccountStage
  <2>2. Traced' = Traced \cup {t}
    BY <1>5 DEF Traced, Handing
  <2>3. QED BY <1>2, <2>1, <2>2 DEF StageInv
<1>6. QED BY <1>3, <1>4, <1>5, NetworkStep

LEMMA OnceStep ==
  ASSUME TypeOK, SheetInv, StageInv, OnceInv, [Next]_vars
  PROVE  OnceInv'
<1>1. CASE UNCHANGED <<ledger, network>>
  BY <1>1 DEF OnceInv
<1>2. ASSUME NEW t \in network, Landing(t) PROVE OnceInv'
  <2>1. network' = network \ {t}
    BY <1>2 DEF Landing
  <2>2. \A u, v \in network' : Same(u, v) => u = v
    BY <2>1 DEF OnceInv
  <2>3. \A u \in network' : \A i \in DOMAIN ledger' : ~ Same(u, ledger'[i].tx)
    BY <1>2, <2>1, Landed DEF OnceInv
  <2>4. \A i, j \in DOMAIN ledger' : Same(ledger'[i].tx, ledger'[j].tx) => i = j
    <3>1. \A i \in DOMAIN ledger : ~ Same(t, ledger[i].tx) /\ ~ Same(ledger[i].tx, t)
      BY DEF OnceInv, Same
    <3>2. QED BY <1>2, <3>1, Landed DEF OnceInv
  <2>5. QED BY <2>2, <2>3, <2>4 DEF OnceInv
<1>3. ASSUME NEW s \in Send, NEW t \in Transaction, Handing(s, t) PROVE OnceInv'
  <2>1. \A u \in Traced : ~ Same(t, u) /\ ~ Same(u, t)
    BY <1>3 DEF StageInv, Handed, Handing, Same, PaymentStage
  <2>2. network' = network \cup {t} /\ ledger' = ledger
    BY <1>3 DEF Handing
  <2>3. network \subseteq Traced /\ \A i \in DOMAIN ledger : ledger[i].tx \in Traced
    BY DEF Traced
  <2>4. QED BY <2>1, <2>2, <2>3 DEF OnceInv
<1>4. QED BY <1>1, <1>2, <1>3, NetworkStep

-----------------------------------------------------------------------------
(* The sheet *)

\* What SheetInv says of one send p, when the sheet is h.
Fits(p, h) == p # None =>
  /\ p.open => h # None
  /\ p.open => p.pc = "review" \/ (p.pc \in Awaiting /\ h.sending)
  /\ p.pc = "review" => p.open

Opened(p) == p # None /\ p.open

LEMMA SheetParts ==
  SheetInv <=> /\ \A s \in Send : Fits(sends[s], sheet)
               /\ \A s, t \in Send : Opened(sends[s]) /\ Opened(sends[t]) => s = t
BY DEF SheetInv, Fits, Opened

Alone(s) == \A t \in Send : t # s => ~ Opened(sends[t])

\* A step of one send that disturbs no other.
LEMMA OneSend ==
  ASSUME TypeOK, SheetInv, NEW s \in Send, NEW p, Update(s, p), Fits(p, sheet'),
         Opened(p) => Alone(s), sheet' = sheet \/ Alone(s)
  PROVE  SheetInv'
<1>1. sends'[s] = p /\ \A t \in Send : t # s => sends'[t] = sends[t]
  BY DEF Update, TypeOK
<1>2. \A t \in Send : t # s => Fits(sends'[t], sheet')
  BY <1>1, SheetParts DEF Alone, Fits, Opened
<1>3. \A t, u \in Send : Opened(sends'[t]) /\ Opened(sends'[u]) => t = u
  BY <1>1, SheetParts DEF Alone
<1>4. (\A t \in Send : Fits(sends[t], sheet))'
  BY <1>1, <1>2
<1>5. (\A t, u \in Send : Opened(sends[t]) /\ Opened(sends[u]) => t = u)'
  BY <1>3 DEF Opened
<1>6. QED BY <1>4, <1>5 DEF SheetInv, Fits, Opened

LEMMA UserSheet ==
  ASSUME TypeOK, SheetInv, User
  PROVE  SheetInv'
<1>1. CASE Open
  BY <1>1 DEF Open, SheetInv
<1>2. CASE Edit
  <2>1. sheet # None /\ sheet \in Sheet
    BY <1>2, SheetFacts DEF Edit, Usable
  <2>2. sheet' \in Sheet /\ sheet'.sending = sheet.sending
    BY <1>2, <2>1 DEF Edit, Sheet
  <2>3. QED BY <1>2, <2>1, <2>2, NoneAssumption DEF Edit, SheetInv
<1>3. CASE Dismiss
  <2>1. ASSUME NEW s \in Send, sends'[s] # None
        PROVE  ~ sends'[s].open /\ sends'[s].pc # "review"
    <3>1. sends[s] # None /\ sends[s] \in Progress
      BY <1>3, <2>1, ProgressFacts DEF Dismiss
    <3>2. \A a : LET q == [sends[s] EXCEPT !.open = FALSE, !.asset = a]
                 IN ~ q.open /\ q.pc = sends[s].pc
      BY <3>1 DEF Progress
    <3>3. sends[s].pc # "review"
      BY <1>3, <3>1 DEF Dismiss, Usable, Reviewing
    <3>4. CASE sends[s].open
      BY <1>3, <3>1, <3>2, <3>3, <3>4 DEF Dismiss
    <3>5. CASE ~ sends[s].open
      BY <1>3, <3>1, <3>3, <3>5, ProgressFacts DEF Dismiss
    <3>6. QED BY <3>4, <3>5
  <2>2. QED BY <2>1 DEF SheetInv
<1>4. ASSUME NEW s \in Send, Review(s) PROVE SheetInv'
  <2>1. Alone(s)
    BY <1>4 DEF Review, Usable, Reviewing, SheetInv, Alone, Opened
  <2>2. QED BY <1>4, <2>1, OneSend DEF Review, Usable, Fits
<1>5. ASSUME NEW s \in Send, GoBack(s) PROVE SheetInv'
  <2>1. Alone(s)
    BY <1>5 DEF GoBack, AtStep, SheetInv, Alone, Opened
  <2>2. QED BY <1>5, <2>1, OneSend DEF GoBack, Fits
<1>6. ASSUME NEW s \in Send, Confirm(s) PROVE SheetInv'
  <2>1. Alone(s) /\ sheet # None /\ sends[s] \in Progress /\ sends[s].open
    BY <1>6, ProgressFacts DEF Confirm, AtStep, SheetInv, Alone, Opened
  <2>2. sheet \in Sheet
    BY <2>1, SheetFacts
  <2>3. sheet' # None /\ sheet'.sending
    BY <1>6, <2>2, NoneAssumption DEF Confirm, Sheet
  <2>4. [sends[s] EXCEPT !.pc = "haptic"].pc = "haptic"
    BY <2>1 DEF Progress
  <2>5. Fits([sends[s] EXCEPT !.pc = "haptic"], sheet')
    BY <2>3, <2>4 DEF Fits, Awaiting
  <2>6. QED BY <1>6, <2>1, <2>5, OneSend DEF Confirm, Goto
<1>7. QED BY <1>1, <1>2, <1>3, <1>4, <1>5, <1>6 DEF User

LEMMA SendingSheet ==
  ASSUME TypeOK, SheetInv, NEW s \in Send, Sending(s)
  PROVE  SheetInv'
<1>1. sends[s] # None /\ sends[s] \in Progress /\ sends[s].pc \in Awaiting
  BY SendingGoesOn, ProgressFacts
<1>2. Opened(sends[s]) => Alone(s)
  BY SheetParts DEF Alone
<1>3. ASSUME NEW c \in Awaiting, NEW a \in Asset,
             Goto(s, c) \/ Update(s, [sends[s] EXCEPT !.asset = a, !.pc = c]), sheet' = sheet
      PROVE  SheetInv'
  <2>1. PICK q : /\ Update(s, q)
                 /\ q \in {[sends[s] EXCEPT !.pc = c], [sends[s] EXCEPT !.asset = a, !.pc = c]}
    BY <1>3 DEF Goto
  <2>2. q.pc = c /\ q.open = sends[s].open
    BY <1>1, <2>1 DEF Progress
  <2>3. Fits(q, sheet')
    BY <1>1, <1>3, <2>2 DEF SheetInv, Fits, Awaiting
  <2>4. QED BY <1>1, <1>2, <1>3, <2>1, <2>2, <2>3, OneSend DEF Opened
<1>4. ASSUME NEW c \in {"sent", "failed"}, Update(s, [sends[s] EXCEPT !.pc = c, !.open = FALSE]),
             sheet' = sheet \/ sends[s].open
      PROVE  SheetInv'
  <2>1. LET q == [sends[s] EXCEPT !.pc = c, !.open = FALSE] IN ~ q.open /\ q.pc = c
    BY <1>1 DEF Progress
  <2>2. QED BY <1>1, <1>2, <1>4, <2>1, OneSend DEF Fits, Opened
<1>5. ChosenAsset(s) \in Asset
  BY <1>1, ProgressFacts, SheetFacts DEF ChosenAsset, SheetInv
<1>6. CASE Vibrated(s) \/ CheckAccount(s) \/ CreateAccount(s) \/ AccountReady(s) \/ Transfer(s)
  BY <1>3, <1>5, <1>6 DEF Vibrated, CheckAccount, CreateAccount, AccountReady, Transfer, Awaiting
<1>7. CASE Sent(s) \/ Failed(s)
  BY <1>4, <1>7 DEF Sent, Finish, Failed
<1>8. QED BY <1>6, <1>7 DEF Sending

LEMMA SheetStep ==
  ASSUME TypeOK, SheetInv, [Next]_vars
  PROVE  SheetInv'
<1>1. CASE UNCHANGED <<sheet, sends>>
  BY <1>1 DEF SheetInv
<1>2. QED BY <1>1, UserSheet, SendingSheet DEF Next, Chain, Screen, vars

-----------------------------------------------------------------------------
(* Calls of snapshot *)

Calling(f) == ReadSol(f) \/ ReadToken(f) \/ MissToken(f) \/ Deliver(f) \/ FetchFails(f)

LEMMA ScreenStep ==
  ASSUME [Next]_vars
  PROVE  \/ UNCHANGED screen
         \/ /\ UNCHANGED ledger
            /\ Refresh \/ Enter \/ Leave \/ \E f \in Fetch : Calling(f)
BY DEF Next, Chain, Screen, User, Sending, CheckAccount, CreateAccount, AccountReady, Transfer,
  Sent, Finish, Failed, Calling, chain, screen, vars

LEMMA LedgerGrows ==
  ASSUME TypeOK, SheetInv, [Next]_vars
  PROVE  Len(ledger) \in Nat /\ Len(ledger') \in Nat /\ Len(ledger) <= Len(ledger')
<1>1. Len(ledger) \in Nat
  BY DEF TypeOK
<1>2. CASE UNCHANGED ledger
  BY <1>1, <1>2
<1>3. ASSUME NEW t \in network, Landing(t) PROVE Len(ledger') = Len(ledger) + 1
  BY <1>3, Landed
<1>4. QED BY <1>1, <1>2, <1>3, NetworkStep DEF Handing

\* After a step of call f, what every call is.
LEMMA CallStep ==
  ASSUME TypeOK, NEW f \in Fetch, Calling(f)
  PROVE  /\ fetches[f] # None /\ fetches[f] \in Call
         /\ \A g \in Fetch : g # f => fetches'[g] = fetches[g]
         /\ ReadSol(f) => /\ fetches'[f].at = "token" /\ fetches'[f].sol = Len(ledger)
                          /\ fetches'[f].usdc = fetches[f].usdc
         /\ ReadToken(f) => /\ fetches'[f].at = "answer" /\ fetches'[f].sol = fetches[f].sol
                            /\ fetches'[f].usdc = Len(ledger)
         /\ MissToken(f) => /\ fetches'[f].at = "answer" /\ fetches'[f].sol = fetches[f].sol
                            /\ fetches'[f].usdc = fetches[f].usdc
         /\ Deliver(f) \/ FetchFails(f) => fetches'[f] = None
<1>1. fetches[f] # None
  BY DEF Calling, ReadSol, ReadToken, MissToken, Deliver, FetchFails, At
<1>2. fetches[f] \in Call
  BY <1>1 DEF TypeOK
<1>3. /\ LET c == [fetches[f] EXCEPT !.at = "token", !.sol = Len(ledger)]
         IN c.at = "token" /\ c.sol = Len(ledger) /\ c.usdc = fetches[f].usdc
      /\ LET c == [fetches[f] EXCEPT !.at = "answer", !.usdc = Len(ledger)]
         IN c.at = "answer" /\ c.sol = fetches[f].sol /\ c.usdc = Len(ledger)
      /\ LET c == [fetches[f] EXCEPT !.at = "answer"]
         IN c.at = "answer" /\ c.sol = fetches[f].sol /\ c.usdc = fetches[f].usdc
  BY <1>2 DEF Call
<1>4. QED BY <1>1, <1>2, <1>3
  DEF Calling, ReadSol, ReadToken, MissToken, Deliver, FetchFails, TypeOK

LEMMA OneCallStep ==
  ASSUME TypeOK, OneCall, [Next]_vars
  PROVE  OneCall'
<1>1. CASE UNCHANGED screen
  BY <1>1 DEF OneCall, screen
<1>2. ASSUME Refresh \/ Enter PROVE OneCall'
  <2>1. \A f \in Fetch : fetches[f] = None
    BY <1>2 DEF OneCall, Refresh, Enter
  <2>2. mounted' /\ refreshing'
    BY <1>2 DEF Refresh, Enter
  <2>3. \A f, g \in Fetch : fetches'[f] # None /\ fetches'[g] # None => f = g
    BY <1>2, <2>1 DEF Refresh, Enter, Begin, TypeOK
  <2>4. QED BY <2>2, <2>3 DEF OneCall
<1>3. CASE Leave
  BY <1>3 DEF Leave, OneCall
<1>4. ASSUME NEW f \in Fetch, Calling(f) PROVE OneCall'
  <2>1. mounted /\ refreshing /\ \A g \in Fetch : g # f => fetches'[g] = None
    BY <1>4, CallStep DEF OneCall, TypeOK
  <2>2. mounted'
    BY <1>4, <2>1 DEF Calling, ReadSol, ReadToken, MissToken, Deliver, FetchFails
  <2>3. refreshing' \/ fetches'[f] = None
    BY <1>4, <2>1, CallStep DEF Calling, ReadSol, ReadToken, MissToken
  <2>4. QED BY <2>1, <2>2, <2>3 DEF OneCall
<1>5. QED BY <1>1, <1>2, <1>3, <1>4, ScreenStep

LEMMA CallInvStep ==
  ASSUME TypeOK, SheetInv, OneCall, CallInv, [Next]_vars
  PROVE  CallInv'
<1>1. Len(ledger) \in Nat /\ Len(ledger') \in Nat /\ Len(ledger) <= Len(ledger')
  BY LedgerGrows
<1>2. /\ snapshot # None => snapshot.SOL \in Nat /\ snapshot.USDC \in Nat \cup {None}
      /\ \A f \in Fetch : fetches[f] # None =>
           fetches[f].sol \in Nat /\ fetches[f].usdc \in Nat \cup {None}
  BY DEF TypeOK, Snapshot, Call
<1>3. CASE UNCHANGED screen
  <2>1. snapshot' = snapshot /\ fetches' = fetches
    BY <1>3 DEF screen
  <2>2. \A n \in Nat \cup {None} : Older(n, Len(ledger)) => Older(n, Len(ledger'))
    BY <1>1, NoneAssumption DEF Older
  <2>3. \A n \in Nat : n <= Len(ledger) => n <= Len(ledger')
    BY <1>1
  <2>4. QED BY <1>2, <2>1, <2>2, <2>3 DEF CallInv
<1>4. ASSUME UNCHANGED ledger, Refresh \/ Enter PROVE CallInv'
  <2>1. snapshot' = snapshot
    BY <1>4 DEF Refresh, Enter
  <2>2. \A f \in Fetch : fetches'[f] # None =>
          fetches'[f].at = "sol" /\ fetches'[f].usdc = None
    BY <1>4 DEF OneCall, Refresh, Enter, Begin, TypeOK
  <2>3. QED BY <1>4, <2>1, <2>2 DEF CallInv
<1>5. CASE Leave
  BY <1>5 DEF Leave, CallInv
<1>6. ASSUME UNCHANGED ledger, NEW f \in Fetch, Calling(f) PROVE CallInv'
  <2>1. \A g \in Fetch : g # f => fetches'[g] = None
    BY <1>6, CallStep DEF OneCall
  <2>2. CASE Deliver(f)
    <3>1. fetches'[f] = None /\ fetches[f].at = "answer" /\ fetches[f] # None
      BY <1>6, <2>2, CallStep DEF Deliver, At
    <3>2. snapshot'.SOL = fetches[f].sol /\ snapshot'.USDC = fetches[f].usdc
      BY <2>2 DEF Deliver
    <3>3. QED BY <1>6, <2>1, <3>1, <3>2 DEF CallInv
  <2>3. CASE FetchFails(f)
    BY <1>6, <2>1, <2>3, CallStep DEF FetchFails, CallInv
  <2>4. CASE ReadSol(f)
    <3>1. /\ snapshot' = snapshot /\ fetches'[f].at = "token" /\ fetches[f].at = "sol"
          /\ fetches[f] # None
          /\ fetches'[f].sol = Len(ledger) /\ fetches'[f].usdc = fetches[f].usdc
      BY <1>6, <2>4, CallStep DEF ReadSol, At
    <3>2. QED BY <1>1, <1>6, <2>1, <3>1 DEF CallInv
  <2>5. CASE ReadToken(f)
    <3>1. /\ snapshot' = snapshot /\ fetches'[f].at = "answer" /\ fetches[f].at = "token"
          /\ fetches[f] # None
          /\ fetches'[f].sol = fetches[f].sol /\ fetches'[f].usdc = Len(ledger)
      BY <1>6, <2>5, CallStep DEF ReadToken, At
    <3>2. QED BY <1>1, <1>6, <2>1, <3>1 DEF CallInv, Older
  <2>6. CASE MissToken(f)
    <3>1. /\ snapshot' = snapshot /\ fetches'[f].at = "answer" /\ fetches[f].at = "token"
          /\ fetches[f] # None
          /\ fetches'[f].sol = fetches[f].sol /\ fetches'[f].usdc = fetches[f].usdc
      BY <1>6, <2>6, CallStep DEF MissToken, At
    <3>2. fetches'[f].usdc = None
      BY <3>1 DEF CallInv
    <3>3. QED BY <1>1, <1>6, <2>1, <3>1, <3>2 DEF CallInv, Older
  <2>7. QED BY <1>6, <2>2, <2>3, <2>4, <2>5, <2>6 DEF Calling
<1>7. QED BY <1>3, <1>4, <1>5, <1>6, ScreenStep

-----------------------------------------------------------------------------
(* What was paid *)

LEMMA SentMeansPaidStep ==
  ASSUME TypeOK, SheetInv, SentMeansPaid, [Next]_vars
  PROVE  SentMeansPaid'
<1>1. ASSUME NEW s \in Send, InLedger("payment", s) PROVE InLedger("payment", s)'
  <2>1. PICK i \in DOMAIN ledger : ledger[i].tx.kind = "payment" /\ ledger[i].tx.by = s
    BY <1>1 DEF InLedger
  <2>2. i \in DOMAIN ledger' /\ ledger'[i] = ledger[i]
    BY NetworkStep, Landed DEF Handing
  <2>3. QED BY <2>1, <2>2 DEF InLedger
<1>2. ASSUME NEW s \in Send, AtStep(s, "sent")' PROVE InLedger("payment", s)
  <2>1. CASE sends[s] # None /\ sends[s].pc = "sent"
    BY <2>1 DEF SentMeansPaid, AtStep
  <2>2. CASE UNCHANGED sends
    BY <1>2, <2>2 DEF SentMeansPaid, AtStep
  <2>3. CASE User
    BY <1>2, <2>3, UserReports DEF SentMeansPaid, AtStep
  <2>4. ASSUME NEW t \in Send, Sending(t) PROVE InLedger("payment", s)
    <3>1. CASE s # t
      BY <1>2, <2>4, <3>1, SendingGoesOn DEF SentMeansPaid, AtStep, TypeOK
    <3>2. CASE s = t
      BY <1>2, <2>4, <3>2, SendingReports DEF AtStep
    <3>3. QED BY <3>1, <3>2
  <2>5. QED BY <2>2, <2>3, <2>4 DEF Next, Chain, Screen, vars
<1>3. \A s \in Send : AtStep(s, "sent")' => InLedger("payment", s)'
  BY <1>1, <1>2
<1>4. QED BY <1>3 DEF SentMeansPaid, AtStep, InLedger

LEMMA PaidFromInvariant ==
  ASSUME IInv
  PROVE  PaidAsConfirmed
<1> SUFFICES ASSUME NEW i \in Payments
             PROVE  LET s == ledger[i].tx.by
                    IN /\ sends[s] # None
                       /\ sends[s].pc # "review"
                       /\ ledger[i].tx.draft = sends[s].draft
                       /\ \A j \in Payments : ledger[j].tx.by = s => j = i
  BY DEF PaidAsConfirmed
<1>1. i \in DOMAIN ledger /\ Handed(ledger[i].tx) /\ ledger[i].tx.kind = "payment"
  BY DEF Payments, IInv, StageInv, Traced
<1>2. \A j \in Payments : ledger[j].tx.by = ledger[i].tx.by => j = i
  BY <1>1 DEF Payments, IInv, OnceInv, Same
<1>3. QED BY <1>1, <1>2 DEF Handed, PaymentStage

\* A balance that is shown is replaced by one that is read later.
LEMMA SnapshotStep ==
  ASSUME IInv, [Next]_vars, NEW a \in Asset,
         snapshot # None, snapshot[a] # None, snapshot' # None, snapshot'[a] # None
  PROVE  snapshot'[a] >= snapshot[a]
<1>1. snapshot[a] \in Nat
  BY DEF IInv, TypeOK, Snapshot, Asset
<1>2. CASE UNCHANGED screen
  BY <1>1, <1>2 DEF screen
<1>3. CASE Refresh \/ Enter
  BY <1>1, <1>3 DEF Refresh, Enter
<1>4. ASSUME NEW f \in Fetch, Calling(f) PROVE snapshot'[a] >= snapshot[a]
  <2>1. CASE Deliver(f)
    <3>1. fetches[f] # None /\ fetches[f] \in Call /\ fetches[f].at = "answer"
      BY <2>1 DEF IInv, TypeOK, Deliver, At
    <3>2. /\ snapshot.SOL <= fetches[f].sol
          /\ Older(snapshot.USDC, fetches[f].usdc)
      BY <3>1 DEF IInv, CallInv
    <3>3. fetches[f].sol \in Nat /\ fetches[f].usdc \in Nat \cup {None}
      BY <3>1 DEF Call
    <3>4. snapshot'.SOL = fetches[f].sol /\ snapshot'.USDC = fetches[f].usdc
      BY <2>1 DEF Deliver
    <3>5. CASE a = "SOL"
      BY <1>1, <3>2, <3>3, <3>4, <3>5
    <3>6. CASE a = "USDC"
      BY <1>1, <3>2, <3>3, <3>4, <3>6 DEF Older
    <3>7. QED BY <3>5, <3>6 DEF Asset
  <2>2. CASE ReadSol(f) \/ ReadToken(f) \/ MissToken(f) \/ FetchFails(f)
    BY <1>1, <2>2 DEF ReadSol, ReadToken, MissToken, FetchFails
  <2>3. QED BY <1>4, <2>1, <2>2 DEF Calling
<1>5. QED BY <1>2, <1>3, <1>4, ScreenStep DEF Leave

-----------------------------------------------------------------------------
(* Theorems *)

LEMMA InvariantInit == Init => IInv
<1> SUFFICES ASSUME Init PROVE IInv
  OBVIOUS
<1>1. ledger = <<>> /\ <<>> \in Seq(Entry)
  BY DEF Init
<1>2. TypeOK
  BY <1>1 DEF Init, TypeOK
<1>3. StageInv /\ OnceInv
  BY DEF Init, StageInv, OnceInv, Traced
<1>4. SheetInv /\ OneCall /\ CallInv /\ SentMeansPaid
  BY DEF Init, SheetInv, OneCall, CallInv, SentMeansPaid, AtStep
<1>5. QED BY <1>2, <1>3, <1>4 DEF IInv

LEMMA InvariantStep == IInv /\ [Next]_vars => IInv'
BY TypeStep, StageStep, OnceStep, SheetStep, OneCallStep, CallInvStep, SentMeansPaidStep DEF IInv

LEMMA Invariance == Spec => []IInv
BY InvariantInit, InvariantStep, PTL DEF Spec

\* Every variable keeps its type: no handler runs on a sheet, a send or a call
\* of snapshot that is not there.
THEOREM TypeCorrect == Spec => []TypeOK
<1>1. IInv => TypeOK
  BY DEF IInv
<1>2. QED BY <1>1, Invariance, PTL

\* Every payment out of the wallet was confirmed on a review sheet of its own,
\* with its recipient and its amount, whenever it lands (_reviewAndSend).
THEOREM PaymentsConfirmed == Spec => []PaidAsConfirmed
BY PaidFromInvariant, Invariance, PTL

\* "Sent" is reported only of a payment that is on the ledger (sendNative and
\* sendUsdc, which creates an account first and must not stop there).
THEOREM SuccessPaid == Spec => []SentMeansPaid
<1>1. IInv => SentMeansPaid
  BY DEF IInv
<1>2. QED BY <1>1, Invariance, PTL

\* A balance on the wallet screen is never replaced by an older one, however
\* many refreshes are asked for and whichever of their calls fail (_refresh).
THEOREM BalancesMoveForward == Spec => NeverBackwards
<1>1. IInv /\ [Next]_vars =>
        [\A a \in Asset :
           LET shown(snap) == snap # None /\ snap[a] # None
           IN shown(snapshot) /\ shown(snapshot') => snapshot'[a] >= snapshot[a]]_vars
  BY SnapshotStep
<1>2. QED BY <1>1, Invariance, PTL DEF Spec, NeverBackwards

=============================================================================
