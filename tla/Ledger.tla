------------------------------- MODULE Ledger -------------------------------
(***************************************************************************)
(* The ledger of the Tickerless API: the tables discoveries and            *)
(* transactions (migration 0001), the handlers of lib.rs that read and     *)
(* write them, and record_transaction of database.rs.                      *)
(*                                                                         *)
(* As in Accounts a request is cut at its database round trips, PostgreSQL *)
(* runs at READ COMMITTED, and a discovery is named after the request that *)
(* creates it.  A user is its wallet here: Accounts shows that the two,    *)
(* once together, stay so, and a user's row that an account stored before  *)
(* makes no difference to the ledger.                                      *)
(*                                                                         *)
(* The routes of this build never reach record_transaction: the handler    *)
(* submit_transaction refuses every request before it.  It is modelled as  *)
(* the function of the library that it is, called, as by its test, for a   *)
(* purchase that was verified, and maybe for the same one again.           *)
(***************************************************************************)
EXTENDS FiniteSets, Naturals, SequencesExt

CONSTANTS
  Request,
  Discovery,
  Company,
  Hash,       \* transactions of the chain
  Purchase,   \* what was verified of each of them: [wallet, company, amount]
  None,       \* SQL NULL, no row, and "not yet" in a request
  Earlier,    \* the discoveries there are to begin with
  Wallet,
  Malformed,  \* a text that is no Solana public key
  Unlisted,   \* a slug that no company has
  Traded,     \* the companies with an active Solana asset
  Limit,      \* limits that a history is asked for with
  Asked,      \* what requests are considered to ask for
  MaxLimit,   \* 100 in discovery_history
  PoolSize    \* 10 in database::connect

ASSUME LedgerAssumption ==
  /\ Discovery = Earlier \cup Request /\ Earlier \cap Request = {} /\ IsFiniteSet(Earlier)
  /\ Traded \subseteq Company
  /\ Unlisted \notin Company /\ Malformed \notin Wallet
  /\ \A hash \in Hash : /\ Purchase[hash].wallet \in Wallet
                        /\ Purchase[hash].company \in Company
                        /\ Purchase[hash].amount \in Nat \ {0}
  /\ Limit \subseteq Nat /\ MaxLimit \in Nat \ {0} /\ PoolSize \in Nat \ {0}

VARIABLES
  discoveries,  \* table discoveries; None stands for no row
  transactions, \* table transactions
  order,   \* the requests that create discoveries, in the order of created_at
  input,   \* what each request asks for
  since,   \* the transactions there were when a request for the world arrived
  pc,      \* the next round trip of each request
  reply,   \* how each request was answered
  view     \* what each request has read

tables == <<discoveries, transactions, order>>
vars == <<tables, input, since, pc, reply, view>>

-----------------------------------------------------------------------------
(* Rows, requests and their phases *)

DiscoveryRow == [user : Wallet \cup {None}, company : Company]
NewDiscovery(company) == [user |-> None, company |-> company]

TransactionRow == [hash : Hash, wallet : Wallet, company : Company, amount : Nat,
                   discovery : Discovery \cup {None}]

\* None stands for a slug, a source or an explanation that is blank.
CreateInput == [op : {"create"}, company : Company \cup {Unlisted, None}]
RecordInput == [op : {"record"}, hash : Hash, discovery : Discovery \cup {None}]
SubmitInput == [op : {"submit"}, wallet : Wallet \cup {Malformed},
                company : Company \cup {Unlisted}]
WorldInput == [op : {"world"}, wallet : Wallet \cup {Malformed}]
HistoryInput == [op : {"history"}, wallet : Wallet \cup {Malformed}, limit : Limit]
Input == CreateInput \cup RecordInput \cup SubmitInput \cup WorldInput \cup HistoryInput

ASSUME AskedAssumption ==
  /\ Asked \subseteq Input
  /\ None \notin Wallet \cup Discovery \cup DiscoveryRow \cup Input

\* Phases inside a transaction, which keeps its connection.
Holding == {"create", "user", "link", "insert", "commit"}
Working == Holding \cup {"begin_create", "begin", "positions", "contexts", "history"}

Reply == {"none", "created", "recorded", "mismatch", "duplicate", "answered", "error",
          "invalid_discovery", "invalid_wallet", "company_not_found", "asset_unavailable",
          "execution_unavailable"}

TypeOK ==
  /\ discoveries \in [Discovery -> DiscoveryRow \cup {None}]
  /\ transactions \subseteq TransactionRow
  /\ Range(order) \subseteq Discovery
  /\ input \in [Request -> Input \cup {None}]
  /\ \A r \in Request : since[r] \subseteq TransactionRow
  /\ pc \in [Request -> Working \cup {"idle", "done"}]
  /\ reply \in [Request -> Reply]
  /\ \A r \in Request : /\ view[r].positions \subseteq TransactionRow
                        /\ view[r].contexts \subseteq Discovery
                        /\ pc[r] = "done" /\ input[r].op = "history" =>
                             Cardinality(view[r].contexts) <= MaxLimit

-----------------------------------------------------------------------------

ConnectionFree == Cardinality({q \in Request : pc[q] \in Holding}) < PoolSize

Answer(r, x) == /\ pc' = [pc EXCEPT ![r] = "done"]
                /\ reply' = [reply EXCEPT ![r] = x]

Goto(r, phase) == /\ pc' = [pc EXCEPT ![r] = phase]
                  /\ UNCHANGED reply

Arrives(r, phase) == IF phase \in Reply THEN Answer(r, phase) ELSE Goto(r, phase)

\* submit_transaction: every request is refused.
Refusal(i) ==
  IF i.wallet = Malformed THEN "invalid_wallet"
  ELSE IF i.company = Unlisted THEN "company_not_found"
  ELSE IF i.company \notin Traded THEN "asset_unavailable"
  ELSE "execution_unavailable"

\* The first round trip of a request, or the answer it gets without any.
FirstPhase(i) ==
  CASE i.op = "submit" -> Refusal(i)
    [] i.op = "create" -> IF i.company = None THEN "invalid_discovery" ELSE "begin_create"
    [] i.op = "record" -> "begin"
    [] i.op \in {"world", "history"} ->
         IF i.wallet = Malformed THEN "invalid_wallet"
         ELSE IF i.op = "world" THEN "positions" ELSE "history"

\* A client knows the identifiers of discoveries that have been answered.
Admissible(i) ==
  i.op = "record" /\ i.discovery # None => discoveries[i.discovery] # None

Arrive(r) ==
  /\ pc[r] = "idle"
  /\ \E i \in Asked :
       /\ Admissible(i)
       /\ input' = [input EXCEPT ![r] = i]
       /\ since' = [since EXCEPT ![r] = IF i.op = "world" THEN transactions ELSE {}]
       /\ Arrives(r, FirstPhase(i))
  /\ UNCHANGED <<tables, view>>

-----------------------------------------------------------------------------
(* POST /v1/discoveries *)

\* BEGIN, which fixes created_at, and the company of the slug.
BeginCreate(r) ==
  /\ pc[r] = "begin_create"
  /\ ConnectionFree
  /\ IF input[r].company = Unlisted
     THEN Answer(r, "company_not_found") /\ UNCHANGED order
     ELSE Goto(r, "create") /\ order' = Append(order, r)
  /\ UNCHANGED <<discoveries, transactions, input, since, view>>

\* INSERT and COMMIT, whose acknowledgement may be lost.
CommitCreate(r) ==
  /\ pc[r] = "create"
  /\ discoveries' = [discoveries EXCEPT ![r] = NewDiscovery(input[r].company)]
  /\ Answer(r, "created") \/ Answer(r, "error")
  /\ UNCHANGED <<transactions, order, input, since, view>>

-----------------------------------------------------------------------------
(* record_transaction *)

Buyer(r) == Purchase[input[r].hash].wallet

\* The row that is inserted.
Entry(hash, discovery) ==
  [hash |-> hash, wallet |-> Purchase[hash].wallet, company |-> Purchase[hash].company,
   amount |-> Purchase[hash].amount, discovery |-> discovery]

\* The WHERE clause of the UPDATE: unclaimed or the buyer's own, of the company bought.
Claimable(d, r) ==
  /\ discoveries[d] # None
  /\ discoveries[d].company = Purchase[input[r].hash].company
  /\ discoveries[d].user \in {None, Buyer(r)}

\* The other requests of record_transaction that are in some phases.
Others(r, phases) ==
  {q \in Request \ {r} : pc[q] \in phases /\ input[q].op = "record"}

\* BEGIN and the company with its asset.
Begin(r) ==
  /\ pc[r] = "begin"
  /\ ConnectionFree
  /\ IF Purchase[input[r].hash].company \in Traded
     THEN Goto(r, "user")
     ELSE Answer(r, "error")
  /\ UNCHANGED <<tables, input, since, view>>

\* The upsert of the user locks its row, new or not, until the transaction ends.
UpsertUser(r) ==
  /\ pc[r] = "user"
  /\ \A q \in Others(r, {"link", "insert", "commit"}) : Buyer(q) # Buyer(r)
  /\ Goto(r, IF input[r].discovery = None THEN "insert" ELSE "link")
  /\ UNCHANGED <<tables, input, since, view>>

\* Mutant: the discovery is claimed through the pool instead of in the transaction.
ClaimThroughPool(r) ==
  LET d == input[r].discovery IN
  /\ pc[r] = "link"
  /\ ConnectionFree
  /\ IF Claimable(d, r)
     THEN /\ Goto(r, "insert")
          /\ discoveries' = [discoveries EXCEPT ![d].user = Buyer(r)]
     ELSE Answer(r, "mismatch") /\ UNCHANGED discoveries
  /\ UNCHANGED <<transactions, order, input, since, view>>

\* Mutant: whose the discovery already is goes unchecked.
ClaimAnyway(r) ==
  LET d == input[r].discovery IN
  /\ pc[r] = "link"
  /\ \A q \in Others(r, {"insert", "commit"}) : input[q].discovery # d
  /\ IF discoveries[d].company = Purchase[input[r].hash].company
     THEN Goto(r, "insert")
     ELSE Answer(r, "mismatch")
  /\ UNCHANGED <<tables, input, since, view>>

\* The guarded UPDATE of the discovery waits for the lock of its row, then looks at
\* the row as it is committed; no row that matches ends the transaction.
Claim(r) ==
  LET d == input[r].discovery IN
  /\ pc[r] = "link"
  /\ \A q \in Others(r, {"insert", "commit"}) : input[q].discovery # d
  /\ IF Claimable(d, r)
     THEN Goto(r, "insert")
     ELSE Answer(r, "mismatch")
  /\ UNCHANGED <<tables, input, since, view>>

\* Mutant: a signature that is on record is taken for the request's own.
InsertOrAccept(r) ==
  /\ pc[r] = "insert"
  /\ \A q \in Others(r, {"commit"}) : input[q].hash # input[r].hash
  /\ IF \E entry \in transactions : entry.hash = input[r].hash
     THEN Answer(r, "recorded")
     ELSE Goto(r, "commit")
  /\ UNCHANGED <<tables, input, since, view>>

\* INSERT under the unique index of the signatures.
Insert(r) ==
  /\ pc[r] = "insert"
  /\ \A q \in Others(r, {"commit"}) : input[q].hash # input[r].hash
  /\ IF \E entry \in transactions : entry.hash = input[r].hash
     THEN Answer(r, "duplicate")
     ELSE Goto(r, "commit")
  /\ UNCHANGED <<tables, input, since, view>>

\* Claim and transaction become visible together; the acknowledgement of the
\* COMMIT may be lost.
Commit(r) ==
  LET d == input[r].discovery IN
  /\ pc[r] = "commit"
  /\ discoveries' = IF d = None THEN discoveries
                    ELSE [discoveries EXCEPT ![d].user = Buyer(r)]
  /\ transactions' = transactions \cup {Entry(input[r].hash, d)}
  /\ Answer(r, "recorded") \/ Answer(r, "error")
  /\ UNCHANGED <<order, input, since, view>>

-----------------------------------------------------------------------------
(* GET /v1/world and /v1/discoveries *)

PositionsOf(wallet) == {entry \in transactions : entry.wallet = wallet}
ContextsOf(wallet) ==
  {d \in Discovery : discoveries[d] # None /\ discoveries[d].user = wallet}

\* The discoveries that are listed with a company: none without a position in it.
\* All are counted.
Listed(answer, company) ==
  IF \E entry \in answer.positions : entry.company = company
  THEN {d \in answer.contexts : discoveries[d].company = company}
  ELSE {}

\* Mutant: the discoveries are read before the positions.
ReadWorldBackwards(r) ==
  /\ ConnectionFree
  /\ \/ /\ pc[r] = "positions"
        /\ view' = [view EXCEPT ![r].contexts = ContextsOf(input[r].wallet)]
        /\ Goto(r, "contexts")
     \/ /\ pc[r] = "contexts"
        /\ view' = [view EXCEPT ![r].positions = PositionsOf(input[r].wallet)]
        /\ Answer(r, "answered")
  /\ UNCHANGED <<tables, input, since>>

\* world: two statements, each of which sees what is committed when it starts.
ReadWorld(r) ==
  /\ ConnectionFree
  /\ \/ /\ pc[r] = "positions"
        /\ view' = [view EXCEPT ![r].positions = PositionsOf(input[r].wallet)]
        /\ Goto(r, "contexts")
     \/ /\ pc[r] = "contexts"
        /\ view' = [view EXCEPT ![r].contexts = ContextsOf(input[r].wallet)]
        /\ Answer(r, "answered")
  /\ UNCHANGED <<tables, input, since>>

\* Mutant: the limit is the one of the query.
LimitAsAsked(limit) == limit

Clamped(limit) == IF limit < 1 THEN 1 ELSE IF limit > MaxLimit THEN MaxLimit ELSE limit

\* The latest of a wallet's discoveries.
Latest(wallet, limit) ==
  LET mine == {i \in DOMAIN order : order[i] \in ContextsOf(wallet)}
  IN {order[i] : i \in {j \in mine : Cardinality({k \in mine : k >= j}) <= limit}}

ReadHistory(r) ==
  /\ pc[r] = "history"
  /\ ConnectionFree
  /\ view' = [view EXCEPT ![r].contexts = Latest(input[r].wallet, Clamped(input[r].limit))]
  /\ Answer(r, "answered")
  /\ UNCHANGED <<tables, input, since>>

-----------------------------------------------------------------------------

\* A statement fails, the pool times out, the client goes away or the process
\* stops: the request ends, and an open transaction is rolled back.
Fail(r) ==
  /\ pc[r] \in Working
  /\ Answer(r, "error")
  /\ UNCHANGED <<tables, input, since, view>>

-----------------------------------------------------------------------------

Step(r) ==
  \/ BeginCreate(r) \/ CommitCreate(r)
  \/ Begin(r) \/ UpsertUser(r) \/ Claim(r) \/ Insert(r) \/ Commit(r)
  \/ ReadWorld(r) \/ ReadHistory(r)

Init ==
  /\ \E company \in [Earlier -> Company] :
       discoveries = [d \in Discovery |->
                        IF d \in Earlier THEN NewDiscovery(company[d]) ELSE None]
  /\ transactions = {}
  /\ order = SetToSeq(Earlier)
  /\ input = [r \in Request |-> None]
  /\ since = [r \in Request |-> {}]
  /\ pc = [r \in Request |-> "idle"]
  /\ reply = [r \in Request |-> "none"]
  /\ view = [r \in Request |-> [positions |-> {}, contexts |-> {}]]

Next == \E r \in Request : Arrive(r) \/ Step(r) \/ Fail(r)

\* The executor polls every request until it is answered; PostgreSQL and sqlx serve
\* those that wait for a row or a connection in turn.
Spec == Init /\ [][Next]_vars /\ \A r \in Request : WF_vars(Step(r))

-----------------------------------------------------------------------------
(* Properties *)

\* A purchase is on record once, however often and with whatever discoveries it is
\* submitted, and the answers are true for good: "recorded" means with the
\* discovery the request named, "duplicate" that it is on record
\* (database.rs:436-458, transactions_tx_hash_key).
RecordedOnce ==
  /\ \A a, b \in transactions : a.hash = b.hash => a = b
  /\ \A r \in Request :
       /\ reply[r] = "recorded" => Entry(input[r].hash, input[r].discovery) \in transactions
       /\ reply[r] = "duplicate" => \E entry \in transactions : entry.hash = input[r].hash

\* A discovery has an owner exactly when a purchase of its company by that owner
\* names it: a purchase that is refused, fails or is rolled back claims nothing,
\* and no other wallet takes a claimed discovery (database.rs:406-425).
ClaimedByPurchase ==
  \A d \in Discovery : discoveries[d] # None =>
    LET buyers == {entry \in transactions : entry.discovery = d} IN
    /\ discoveries[d].user # None <=> buyers # {}
    /\ \A entry \in buyers : entry.wallet = discoveries[d].user
                             /\ entry.company = discoveries[d].company

\* The answer for the world sums up every purchase recorded before the request
\* arrived and none that is not recorded; each purchase in it comes with its
\* discovery, though the two are read by different statements; and unless a purchase
\* was recorded meanwhile, every discovery counted is listed under a company
\* (database.rs:488-537).
WorldIsCurrent ==
  \A r \in Request : reply[r] = "answered" /\ input[r].op = "world" =>
    LET mine(entries) == {entry \in entries : entry.wallet = input[r].wallet}
        read == view[r].positions
    IN /\ mine(since[r]) \subseteq read /\ read \subseteq mine(transactions)
       /\ {entry.discovery : entry \in read} \ {None} \subseteq view[r].contexts
       /\ mine(since[r]) = mine(transactions) =>
            view[r].contexts = UNION {Listed(view[r], c) : c \in Company}

\* Every request that arrives is answered: transactions that wait for one another's
\* rows and for connections never wait in a circle.
EveryRequestAnswered == \A r \in Request : pc[r] # "idle" ~> pc[r] = "done"

Book == INSTANCE LedgerBook

\* The ledger implements the book, in which a purchase and the claim of its
\* discovery are entered at once and for good.
ImplementsBook == Book!Spec

=============================================================================
