----------------------------- MODULE Transfers -----------------------------
(***************************************************************************)
(* The wallet screen (_LiveWalletState, activity_screen.dart), its send    *)
(* sheet (_SendSheetState) and SolanaDevnetGateway.                        *)
(*                                                                         *)
(* The screen keeps one snapshot of two balances, which a timer, the user  *)
(* and a finished transfer refresh.  The sheet reviews a transfer against  *)
(* the snapshot it was opened with and sends it; a USDC transfer is two    *)
(* transactions when the recipient holds no USDC account.  Handlers are    *)
(* cut at their awaits, and the user acts meanwhile.                       *)
(*                                                                         *)
(* The chain is external: a transaction handed to it lands now, later or   *)
(* never, whatever its sender is told.  The ledger lists what changed the  *)
(* balances of this wallet and what was left; a balance that was read is   *)
(* represented by the length of the ledger it was read from.               *)
(***************************************************************************)
EXTENDS Integers, Sequences

CONSTANTS
  Send,      \* calls of _reviewAndSend that reach the review
  Fetch,     \* calls of snapshot that overlap
  Recipient, \* addresses to pay
  Amount,    \* amounts that are typed
  Funds,     \* how much of each asset the wallet starts with
  None

Asset == {"USDC", "SOL"}

ASSUME BoundsAssumption ==
  /\ Amount \subseteq Nat \ {0}
  /\ Funds \in Nat

VARIABLES
  ledger,    \* chain: what changed this wallet, as confirmed
  network,   \* chain: transactions that may still land
  accounts,  \* chain: recipients with a USDC account
  mounted,   \* _LiveWalletState: whether there is one
  snapshot,  \* _snapshot
  refreshing,\* _refreshing
  fetches,   \* snapshot calls under way
  sheet,     \* _SendSheetState
  sends      \* calls of _reviewAndSend

chain == <<ledger, network, accounts>>
screen == <<mounted, snapshot, refreshing, fetches>>
vars == <<chain, screen, sheet, sends>>

-----------------------------------------------------------------------------

Draft == [to : Recipient, amount : Amount]
Snapshot == [USDC : Nat \cup {None}, SOL : Nat]
Awaiting == {"haptic", "check", "create", "account", "transfer", "confirm"}
Transaction == [kind : {"payment", "account"}, by : Send, asset : Asset, draft : Draft]
Entry == [tx : Transaction, left : [Asset -> Nat]]
Call == [at : {"sol", "token", "answer"}, sol : Nat, usdc : Nat \cup {None}]
Sheet == [balance : [Asset -> Nat], asset : Asset, draft : Draft \cup {None}, sending : BOOLEAN]
Progress == [pc : Awaiting \cup {"review", "sent", "failed"}, asset : Asset,
             draft : Draft, open : BOOLEAN]

ASSUME NoneAssumption ==
  /\ None \notin Nat
  /\ None \notin Draft \cup Snapshot \cup Call \cup Sheet \cup Progress

TypeOK ==
  /\ ledger \in Seq(Entry)
  /\ network \subseteq Transaction
  /\ accounts \subseteq Recipient
  /\ mounted \in BOOLEAN
  /\ snapshot \in Snapshot \cup {None}
  /\ refreshing \in BOOLEAN
  /\ fetches \in [Fetch -> Call \cup {None}]
  /\ sheet \in Sheet \cup {None}
  /\ sends \in [Send -> Progress \cup {None}]

-----------------------------------------------------------------------------
(* The chain *)

Fee == 1

\* What transaction t adds to the balance of asset a.
Change(t, a) ==
  (IF t.kind = "payment" /\ t.asset = a THEN - t.draft.amount ELSE 0)
    - (IF a = "SOL" THEN Fee ELSE 0)

Balance(a, n) == IF n = 0 THEN Funds ELSE ledger[n].left[a]

Left(t) == [a \in Asset |-> Balance(a, Len(ledger)) + Change(t, a)]

InLedger(kind, s) ==
  \E i \in DOMAIN ledger : ledger[i].tx.kind = kind /\ ledger[i].tx.by = s

Broadcast(kind, s, asset) ==
  network' = network \cup
    {[kind |-> kind, by |-> s, asset |-> asset, draft |-> sends[s].draft]}

Land(t) ==
  /\ Left(t) \in [Asset -> Nat]
  /\ t.kind = "account" => t.draft.to \notin accounts
  /\ ledger' = Append(ledger, [tx |-> t, left |-> Left(t)])
  /\ accounts' = IF t.kind = "account" THEN accounts \cup {t.draft.to} ELSE accounts
  /\ network' = network \ {t}

Chain ==
  /\ \E t \in network : Land(t)
  /\ UNCHANGED <<screen, sheet, sends>>

-----------------------------------------------------------------------------
(* The wallet screen *)

Begin(f) ==
  fetches' = [fetches EXCEPT ![f] = [at |-> "sol", sol |-> 0, usdc |-> None]]

\* Mutant: a second refresh starts while one is under way.
RefreshAgain ==
  /\ mounted
  /\ refreshing' = TRUE
  /\ \E f \in Fetch : fetches[f] = None /\ Begin(f)
  /\ UNCHANGED <<mounted, snapshot>>

\* _refresh: by the timer, the user, a return to the app or a finished transfer
Refresh ==
  /\ mounted
  /\ ~ refreshing
  /\ refreshing' = TRUE
  /\ \E f \in Fetch : fetches[f] = None /\ Begin(f)
  /\ UNCHANGED <<mounted, snapshot>>

\* initState refreshes; dispose leaves the calls under way without effect.
Enter ==
  /\ ~ mounted
  /\ mounted' = TRUE
  /\ refreshing' = TRUE
  /\ \E f \in Fetch : Begin(f)
  /\ UNCHANGED snapshot

Leave ==
  /\ mounted
  /\ sheet = None
  /\ mounted' = FALSE
  /\ refreshing' = FALSE
  /\ fetches' = [f \in Fetch |-> None]
  /\ snapshot' = None

At(f, step) == fetches[f] # None /\ fetches[f].at = step

\* Mutant: what goes wrong with the first balance is ignored as well.
ReadSolIfAny(f) ==
  /\ At(f, "sol")
  /\ \E n \in {Len(ledger), None} :
       fetches' = [fetches EXCEPT ![f].at = "token", ![f].sol = n]
  /\ UNCHANGED <<mounted, snapshot, refreshing>>

\* getBalance, then getTokenBalance
ReadSol(f) ==
  /\ At(f, "sol")
  /\ fetches' = [fetches EXCEPT ![f].at = "token", ![f].sol = Len(ledger)]
  /\ UNCHANGED <<mounted, snapshot, refreshing>>

ReadToken(f) ==
  /\ At(f, "token")
  /\ fetches' = [fetches EXCEPT ![f].at = "answer", ![f].usdc = Len(ledger)]
  /\ UNCHANGED <<mounted, snapshot, refreshing>>

\* Whatever goes wrong with the second balance is taken for an empty account.
MissToken(f) ==
  /\ At(f, "token")
  /\ fetches' = [fetches EXCEPT ![f].at = "answer"]
  /\ UNCHANGED <<mounted, snapshot, refreshing>>

Deliver(f) ==
  /\ At(f, "answer")
  /\ snapshot' = [USDC |-> fetches[f].usdc, SOL |-> fetches[f].sol]
  /\ refreshing' = FALSE
  /\ fetches' = [fetches EXCEPT ![f] = None]
  /\ UNCHANGED mounted

\* Mutant: the flag is cleared after a success only.
FetchStays(f) ==
  /\ At(f, "sol")
  /\ fetches' = [fetches EXCEPT ![f] = None]
  /\ UNCHANGED <<mounted, snapshot, refreshing>>

\* The last snapshot stays, with a word about the failure.
FetchFails(f) ==
  /\ At(f, "sol")
  /\ refreshing' = FALSE
  /\ fetches' = [fetches EXCEPT ![f] = None]
  /\ UNCHANGED <<mounted, snapshot>>

Screen ==
  /\ \/ Refresh \/ Enter \/ Leave
     \/ \E f \in Fetch :
          ReadSol(f) \/ ReadToken(f) \/ MissToken(f) \/ Deliver(f) \/ FetchFails(f)
  /\ UNCHANGED <<chain, sheet, sends>>

-----------------------------------------------------------------------------
(* The send sheet *)

\* A transfer can be reviewed only above the sheet, which it covers.
Reviewing == \E s \in Send : sends[s] # None /\ sends[s].pc = "review"

Usable == sheet # None /\ ~ Reviewing

\* A balance that could not be read is shown as zero.
Shown(a) == IF snapshot[a] = None THEN 0 ELSE Balance(a, snapshot[a])

Open ==
  /\ mounted
  /\ sheet = None
  /\ snapshot # None
  /\ sheet' = [balance |-> [a \in Asset |-> Shown(a)], asset |-> "USDC",
               draft |-> None, sending |-> FALSE]
  /\ UNCHANGED sends

\* The fields stay enabled while a transfer is being sent.
Edit ==
  /\ Usable
  /\ \/ \E d \in Draft : sheet' = [sheet EXCEPT !.draft = d]
     \/ \E a \in Asset : sheet' = [sheet EXCEPT !.asset = a]
  /\ UNCHANGED sends

\* Calls under way go on with what the disposed sheet held last.
Dismiss ==
  /\ Usable
  /\ sheet' = None
  /\ sends' = [s \in Send |->
       IF sends[s] # None /\ sends[s].open
       THEN [sends[s] EXCEPT !.open = FALSE,
                             !.asset = IF sends[s].pc = "haptic" THEN sheet.asset ELSE @]
       ELSE sends[s]]

AtStep(s, pc) == sends[s] # None /\ sends[s].pc = pc

Update(s, progress) == sends' = [sends EXCEPT ![s] = progress]

Goto(s, pc) == Update(s, [sends[s] EXCEPT !.pc = pc])

\* _reviewAndSend up to the review sheet
Review(s) ==
  /\ sends[s] = None
  /\ Usable
  /\ ~ sheet.sending
  /\ sheet.draft # None
  /\ sheet.draft.amount <= sheet.balance[sheet.asset]
  /\ sheet.asset = "SOL" => sheet.draft.amount < sheet.balance["SOL"]
  /\ Update(s, [pc |-> "review", asset |-> sheet.asset,
                draft |-> sheet.draft, open |-> TRUE])
  /\ UNCHANGED sheet

GoBack(s) ==
  /\ AtStep(s, "review")
  /\ Update(s, None)
  /\ UNCHANGED sheet

Confirm(s) ==
  /\ AtStep(s, "review")
  /\ Goto(s, "haptic")
  /\ sheet' = [sheet EXCEPT !.sending = TRUE]

\* The asset is read from the sheet again once the vibration has returned.
ChosenAsset(s) == IF sends[s].open THEN sheet.asset ELSE sends[s].asset

Vibrated(s) ==
  /\ AtStep(s, "haptic")
  /\ Update(s, [sends[s] EXCEPT !.asset = ChosenAsset(s),
                                !.pc = IF ChosenAsset(s) = "USDC" THEN "check" ELSE "transfer"])
  /\ UNCHANGED sheet

User ==
  /\ \/ Open \/ Edit \/ Dismiss
     \/ \E s \in Send : Review(s) \/ GoBack(s) \/ Confirm(s)
  /\ UNCHANGED <<chain, screen>>

-----------------------------------------------------------------------------
(* sendNative and sendUsdc *)

CheckAccount(s) ==
  /\ AtStep(s, "check")
  /\ Goto(s, IF sends[s].draft.to \in accounts THEN "transfer" ELSE "create")
  /\ UNCHANGED <<chain, screen, sheet>>

CreateAccount(s) ==
  /\ AtStep(s, "create")
  /\ Broadcast("account", s, sends[s].asset)
  /\ Goto(s, "account")
  /\ UNCHANGED <<ledger, accounts, screen, sheet>>

AccountReady(s) ==
  /\ AtStep(s, "account")
  /\ InLedger("account", s)
  /\ Goto(s, "transfer")
  /\ UNCHANGED <<chain, screen, sheet>>

\* Mutant: the recipient and the amount are read from the fields once more.
TransferAsTyped(s) ==
  /\ AtStep(s, "transfer")
  /\ network' = network \cup
       {[kind |-> "payment", by |-> s, asset |-> sends[s].asset,
         draft |-> IF sends[s].open THEN sheet.draft ELSE sends[s].draft]}
  /\ Goto(s, "confirm")
  /\ UNCHANGED <<ledger, accounts, screen, sheet>>

Transfer(s) ==
  /\ AtStep(s, "transfer")
  /\ Broadcast("payment", s, sends[s].asset)
  /\ Goto(s, "confirm")
  /\ UNCHANGED <<ledger, accounts, screen, sheet>>

\* With its sheet still open, a finished transfer closes it and refreshes.
Finish(s) ==
  /\ Update(s, [sends[s] EXCEPT !.pc = "sent", !.open = FALSE])
  /\ sheet' = IF sends[s].open THEN None ELSE sheet
  /\ \/ sends[s].open /\ Refresh
     \/ ~ (sends[s].open /\ mounted /\ ~ refreshing) /\ UNCHANGED screen

\* Mutant: a transfer that was handed over is taken for a transfer that landed.
SentUnconfirmed(s) ==
  /\ AtStep(s, "confirm")
  /\ Finish(s)
  /\ UNCHANGED chain

Sent(s) ==
  /\ AtStep(s, "confirm")
  /\ InLedger("payment", s)
  /\ Finish(s)
  /\ UNCHANGED chain

\* Mutant: the send button stays disabled after a failure.
FailedQuietly(s) ==
  /\ sends[s] # None
  /\ sends[s].pc \in Awaiting
  /\ Update(s, [sends[s] EXCEPT !.pc = "failed", !.open = FALSE])
  /\ UNCHANGED <<chain, screen, sheet>>

Failed(s) ==
  /\ sends[s] # None
  /\ sends[s].pc \in Awaiting
  /\ Update(s, [sends[s] EXCEPT !.pc = "failed", !.open = FALSE])
  /\ sheet' = IF sends[s].open THEN [sheet EXCEPT !.sending = FALSE] ELSE sheet
  /\ UNCHANGED <<chain, screen>>

Sending(s) ==
  \/ Vibrated(s) /\ UNCHANGED <<chain, screen>>
  \/ CheckAccount(s) \/ CreateAccount(s) \/ AccountReady(s)
  \/ Transfer(s) \/ Sent(s) \/ Failed(s)

-----------------------------------------------------------------------------

Init ==
  /\ ledger = <<>>
  /\ network = {}
  /\ accounts = {}
  /\ mounted = FALSE
  /\ snapshot = None
  /\ refreshing = FALSE
  /\ fetches = [f \in Fetch |-> None]
  /\ sheet = None
  /\ sends = [s \in Send |-> None]

Next == Chain \/ Screen \/ User \/ \E s \in Send : Sending(s)

Spec == Init /\ [][Next]_vars

\* The poll timer fires again and again; an RPC call ends, and does not fail
\* every time; every await of a send ends.  Users and the chain owe nothing.
Fairness ==
  /\ WF_vars(Refresh /\ UNCHANGED <<chain, sheet, sends>>)
  /\ \A f \in Fetch :
       /\ WF_vars(Deliver(f) /\ UNCHANGED <<chain, sheet, sends>>)
       /\ SF_vars(ReadSol(f) /\ UNCHANGED <<chain, sheet, sends>>)
       /\ SF_vars(ReadToken(f) /\ UNCHANGED <<chain, sheet, sends>>)
  /\ \A s \in Send : WF_vars(Sending(s))

FairSpec == Spec /\ Fairness

-----------------------------------------------------------------------------
(* Properties *)

Payments == {i \in DOMAIN ledger : ledger[i].tx.kind = "payment"}

\* Every payment out of the wallet was confirmed on a review sheet of its own,
\* which showed its recipient and its amount, however the fields are edited,
\* the sheet closed or the transfer sent again meanwhile (_reviewAndSend).
PaidAsConfirmed ==
  \A i \in Payments :
    LET s == ledger[i].tx.by
    IN /\ sends[s] # None
       /\ sends[s].pc # "review"
       /\ ledger[i].tx.draft = sends[s].draft
       /\ \A j \in Payments : ledger[j].tx.by = s => j = i

\* A transfer is reported as sent only when its payment is on the ledger: a
\* USDC transfer, not the account that was created for it (sendUsdc, sendNative).
SentMeansPaid ==
  \A s \in Send : AtStep(s, "sent") => InLedger("payment", s)

\* No balance on the screen is replaced by an older one, with a timer, the
\* user and finished transfers asking for new ones (_refresh).
NeverBackwards ==
  [][\A a \in Asset :
       LET shown(snap) == snap # None /\ snap[a] # None
       IN shown(snapshot) /\ shown(snapshot') => snapshot'[a] >= snapshot[a]]_vars

\* A payment is seen in both balances if the wallet stays open, although the
\* refresh after it may be skipped and calls fail (Timer.periodic, _refresh).
PaymentsAreShown ==
  \A s \in Send :
    InLedger("payment", s) ~>
      \/ ~ mounted
      \/ /\ snapshot # None
         /\ \A a \in Asset :
              /\ snapshot[a] # None
              /\ \E i \in 1..snapshot[a] : i \in Payments /\ ledger[i].tx.by = s

\* The send button of a sheet that is not dismissed comes back, or the sheet
\* closes by itself, whatever becomes of the transfer (_reviewAndSend's catch).
SheetComesBack ==
  (sheet # None /\ sheet.sending) ~> (sheet = None \/ ~ sheet.sending)

\* The review sheet's "Confirm every detail before this transaction is
\* submitted": what is sent after the vibration is the asset that the sheet
\* displayed (_reviewAndSend).
AssetAsConfirmed ==
  [][\A s \in Send :
       AtStep(s, "haptic") /\ sends'[s].pc # "haptic" => sends'[s].asset = sends[s].asset]_vars

=============================================================================
