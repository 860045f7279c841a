----------------------------- MODULE LedgerBook -----------------------------
(***************************************************************************)
(* What the ledger of discoveries and purchases promises, with every       *)
(* operation atomic: a purchase is entered once and for good, and enters   *)
(* together with the discovery that led to it, which from then on belongs  *)
(* to the buyer.                                                           *)
(***************************************************************************)
EXTENDS FiniteSets

CONSTANTS
  Discovery,
  Company,
  Hash,      \* transactions of the chain
  Purchase,  \* what was verified of each of them: [wallet, company, amount]
  None

VARIABLES
  discoveries,  \* table discoveries; None stands for no row
  transactions  \* table transactions

Entry(hash, discovery) ==
  [hash |-> hash, wallet |-> Purchase[hash].wallet, company |-> Purchase[hash].company,
   amount |-> Purchase[hash].amount, discovery |-> discovery]

\* Unclaimed or the buyer's own, and of the company that was bought.
Claimable(discovery, hash) ==
  LET row == discoveries[discovery] IN
  /\ row # None
  /\ row.company = Purchase[hash].company
  /\ row.user \in {None, Purchase[hash].wallet}

Unclaimed == [user : {None}, company : Company]

Init ==
  /\ discoveries \in [Discovery -> Unclaimed \cup {None}]
  /\ transactions = {}

Create(discovery) ==
  /\ discoveries[discovery] = None
  /\ \E row \in Unclaimed : discoveries' = [discoveries EXCEPT ![discovery] = row]
  /\ UNCHANGED transactions

Record(hash, discovery) ==
  /\ \A entry \in transactions : entry.hash # hash
  /\ transactions' = transactions \cup {Entry(hash, discovery)}
  /\ \/ discovery = None /\ UNCHANGED discoveries
     \/ /\ discovery # None
        /\ Claimable(discovery, hash)
        /\ discoveries' = [discoveries EXCEPT ![discovery].user = Purchase[hash].wallet]

Next ==
  \/ \E discovery \in Discovery : Create(discovery)
  \/ \E hash \in Hash, discovery \in Discovery \cup {None} : Record(hash, discovery)

Spec == Init /\ [][Next]_<<discoveries, transactions>>

=============================================================================
