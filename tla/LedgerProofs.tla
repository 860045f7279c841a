---------------------------- MODULE LedgerProofs ----------------------------
(***************************************************************************)
(* Proofs about Ledger, for every set of requests, purchases, discoveries  *)
(* and whatever the requests ask for.                                      *)
(*                                                                         *)
(* What the tables show says nothing of the transactions that are open:    *)
(* LockInv says which of them exclude one another, ClaimInv and NewInv     *)
(* that what a transaction found when it looked still holds when it        *)
(* commits.  The refinement and the properties rest on these three.        *)
(***************************************************************************)
EXTENDS Ledger, FiniteSetTheorems, SequenceTheorems, TLAPS

Recorded(hash) == \E entry \in transactions : entry.hash = hash

TableInv ==
  /\ discoveries \in [Discovery -> DiscoveryRow \cup {None}]
  /\ transactions \subseteq TransactionRow

ProcessInv ==
  /\ input \in [Request -> Input \cup {None}]
  /\ since \in [Request -> SUBSET TransactionRow]
  /\ pc \in [Request -> Working \cup {"idle", "done"}]
  /\ reply \in [Request -> Reply]
  /\ view = [r \in Request |-> [positions |-> view[r].positions, contexts |-> view[r].contexts]]

Recording == {"begin", "user", "link", "insert", "commit"}

Answered(r) == reply[r] = "answered" /\ input[r].op = "world"

\* What a request is doing, and how it was answered, tells what it asked for.
PhaseInv == \A r \in Request :
  /\ pc[r] \in Recording \/ reply[r] \in {"recorded", "duplicate"} => input[r] \in RecordInput
  /\ pc[r] \in {"begin_create", "create"} => input[r] \in CreateInput /\ input[r].company # None
  /\ pc[r] = "create" => input[r].company \in Company
  /\ pc[r] = "link" => input[r].discovery # None
  /\ pc[r] \in {"positions", "contexts"} \/ Answered(r) =>
       input[r] \in WorldInput /\ input[r].wallet \in Wallet
  /\ pc[r] = "history" => input[r].op = "history"
  /\ reply[r] # "none" => pc[r] = "done"

\* A discovery is there from the end of the request that creates it, and a request
\* that names one came later.
FreshInv ==
  /\ \A r \in Request : pc[r] # "done" => discoveries[r] = None
  /\ \A r \in Request : pc[r] \in Recording /\ input[r].discovery # None =>
       discoveries[input[r].discovery] # None
  /\ \A entry \in transactions : entry.discovery # None => discoveries[entry.discovery] # None

\* Open transactions that have locked the same row, or inserted the same signature.
LockInv == \A q, r \in Request :
  /\ /\ pc[q] \in {"insert", "commit"} /\ pc[r] \in {"insert", "commit"}
     /\ input[q].discovery = input[r].discovery /\ input[q].discovery # None
     => q = r
  /\ pc[q] = "commit" /\ pc[r] = "commit" /\ input[q].hash = input[r].hash => q = r

\* A claim that was looked at still holds.
ClaimInv == \A r \in Request :
  pc[r] \in {"insert", "commit"} /\ input[r].discovery # None =>
    Claimable(input[r].discovery, r)

\* A signature that was new still is.
NewInv == \A r \in Request : pc[r] = "commit" => ~ Recorded(input[r].hash)

Mine(entries, r) == {entry \in entries : entry.wallet = input[r].wallet}
ContextsOfPositions(r) == {entry.discovery : entry \in view[r].positions} \ {None}

\* What a request for the world has read, of tables that have only grown since.
WorldInv == \A r \in Request :
  /\ since[r] \subseteq transactions
  /\ pc[r] = "contexts" \/ Answered(r) =>
       Mine(since[r], r) \subseteq view[r].positions /\ view[r].positions \subseteq Mine(transactions, r)
  /\ Answered(r) =>
       ContextsOfPositions(r) \subseteq view[r].contexts /\ view[r].contexts \subseteq ContextsOf(input[r].wallet)

IInv ==
  /\ TableInv
  /\ ProcessInv
  /\ PhaseInv
  /\ FreshInv
  /\ LockInv
  /\ ClaimInv
  /\ NewInv
  /\ RecordedOnce
  /\ ClaimedByPurchase
  /\ WorldInv

-----------------------------------------------------------------------------
(* Inputs and rows *)

LEMMA InputFields ==
  ASSUME NEW i \in Input
  PROVE  /\ i # None
         /\ i.op = "record" <=> i \in RecordInput
         /\ i.op = "create" <=> i \in CreateInput
         /\ i.op = "world" <=> i \in WorldInput
         /\ i \in WorldInput => i.wallet \in Wallet \cup {Malformed}
         /\ i.op \in {"create", "record", "submit", "world", "history"}
BY AskedAssumption DEF Input, CreateInput, RecordInput, SubmitInput, WorldInput, HistoryInput

LEMMA RecordFields ==
  ASSUME NEW i \in RecordInput
  PROVE  /\ i \in Input /\ i.op = "record" /\ i.hash \in Hash
         /\ i.discovery \in Discovery \cup {None}
BY DEF RecordInput, Input

LEMMA EntryFields ==
  ASSUME NEW hash \in Hash, NEW d \in Discovery \cup {None}
  PROVE  /\ Entry(hash, d) \in TransactionRow
         /\ Entry(hash, d).hash = hash /\ Entry(hash, d).discovery = d
         /\ Entry(hash, d).wallet = Purchase[hash].wallet
         /\ Entry(hash, d).company = Purchase[hash].company
         /\ Purchase[hash].wallet \in Wallet
BY LedgerAssumption DEF Entry, TransactionRow

LEMMA Nothing == None \notin Wallet /\ None \notin Discovery /\ None \notin DiscoveryRow
BY AskedAssumption

\* What a request gets without a round trip is no result of one.
LEMMA FirstPhaseFacts ==
  ASSUME NEW i \in Input
  PROVE  \/ /\ FirstPhase(i) \in Reply
            /\ FirstPhase(i) \notin {"none", "recorded", "duplicate", "answered"}
         \/ FirstPhase(i) = "begin" /\ i \in RecordInput
         \/ FirstPhase(i) = "begin_create" /\ i \in CreateInput /\ i.company # None
         \/ FirstPhase(i) = "positions" /\ i \in WorldInput /\ i.wallet \in Wallet
         \/ FirstPhase(i) = "history" /\ i.op = "history"
<1>1. CASE i.op = "submit"
  BY <1>1 DEF FirstPhase, Refusal, Reply
<1>2. CASE i.op = "create" \/ i.op = "record"
  BY <1>2, InputFields DEF FirstPhase, Reply
<1>3. CASE i.op \in {"world", "history"}
  BY <1>3, InputFields DEF FirstPhase, Reply
<1>4. QED BY <1>1, <1>2, <1>3, InputFields

-----------------------------------------------------------------------------
(* Steps that change no table *)

Rest == <<discoveries, transactions, input, since, view>>

\* r goes to phase c with answer x, and nothing else happens.
Moves(r, c, x) ==
  /\ c \in Working \cup {"done"} /\ x \in Reply
  /\ pc' = [pc EXCEPT ![r] = c]
  /\ reply' = [reply EXCEPT ![r] = x]
  /\ UNCHANGED Rest

\* What has to be found before a phase or an answer.
Found(r, c, x) ==
  LET d == input[r].discovery IN
  /\ x # "none" => c = "done"
  /\ x \notin {"recorded", "answered"}
  /\ x = "duplicate" => input[r] \in RecordInput /\ Recorded(input[r].hash)
  /\ c \in Recording => pc[r] \in Recording
  /\ c = "link" => d # None
  /\ c = "create" => input[r] \in CreateInput /\ input[r].company \in Company \ {None}
  /\ c \notin {"begin_create", "positions", "contexts", "history"}
  /\ c \in {"insert", "commit"} /\ d # None =>
       /\ Claimable(d, r)
       /\ pc[r] \in {"insert", "commit"}
            \/ \A q \in Others(r, {"insert", "commit"}) : input[q].discovery # d
  /\ c = "commit" =>
       /\ ~ Recorded(input[r].hash)
       /\ \A q \in Others(r, {"commit"}) : input[q].hash # input[r].hash

LEMMA MovesKeepPhases ==
  ASSUME IInv, NEW r \in Request, pc[r] \in Working, NEW c, NEW x, Moves(r, c, x), Found(r, c, x)
  PROVE  TableInv' /\ ProcessInv' /\ PhaseInv' /\ FreshInv'
<1>1. TableInv' /\ ProcessInv'
  BY DEF IInv, TableInv, ProcessInv, Moves, Rest
<1>2. \A q \in Request : /\ pc'[q] = IF q = r THEN c ELSE pc[q]
                         /\ reply'[q] = IF q = r THEN x ELSE reply[q]
                         /\ input'[q] = input[q]
  BY DEF IInv, ProcessInv, Moves, Rest
<1>3. PhaseInv'
  BY <1>2 DEF IInv, PhaseInv, Found, Recording, Answered
<1>4. FreshInv'
  <2>1. UNCHANGED <<discoveries, transactions>> /\ pc[r] # "done"
    BY DEF Moves, Rest, Working, Holding
  <2>2. QED BY <1>2, <2>1 DEF IInv, FreshInv, Found
<1>5. QED BY <1>1, <1>3, <1>4

LEMMA MovesKeepRest ==
  ASSUME IInv, NEW r \in Request, pc[r] \in Working, NEW c, NEW x, Moves(r, c, x), Found(r, c, x)
  PROVE  LockInv' /\ ClaimInv' /\ NewInv' /\ RecordedOnce' /\ ClaimedByPurchase' /\ WorldInv'
<1>1. \A q \in Request : /\ pc'[q] = IF q = r THEN c ELSE pc[q]
                         /\ reply'[q] = IF q = r THEN x ELSE reply[q]
  BY DEF IInv, ProcessInv, Moves, Rest
<1>2. UNCHANGED <<discoveries, transactions, input, since, view>>
  BY DEF Moves, Rest
<1>3. \A q \in Request : pc[q] \in {"insert", "commit"} => input[q] \in RecordInput /\ input[q].op = "record"
  BY RecordFields DEF IInv, PhaseInv, Recording, Answered
<1>4. LockInv'
  <2>1. ASSUME NEW q \in Request \ {r},
               pc[q] \in {"insert", "commit"}, c \in {"insert", "commit"},
               input[q].discovery = input[r].discovery, input[q].discovery # None
        PROVE FALSE
    BY <1>3, <2>1 DEF Found, Others, IInv, LockInv
  <2>2. ASSUME NEW q \in Request \ {r}, pc[q] = "commit", c = "commit",
               input[q].hash = input[r].hash
        PROVE FALSE
    BY <1>3, <2>2 DEF Found, Others
  <2>3. QED BY <1>1, <1>2, <2>1, <2>2 DEF IInv, LockInv
<1>5. ClaimInv' /\ NewInv'
  BY <1>1, <1>2 DEF IInv, ClaimInv, NewInv, Found, Claimable, Buyer, Recorded
<1>6. RecordedOnce'
  BY <1>1, <1>2 DEF IInv, RecordedOnce, Found, Recorded, Entry
<1>7. ClaimedByPurchase'
  BY <1>2 DEF IInv, ClaimedByPurchase
<1>8. WorldInv'
  BY <1>1, <1>2 DEF IInv, WorldInv, Found, Answered, Mine, ContextsOfPositions, ContextsOf
<1>9. QED BY <1>4, <1>5, <1>6, <1>7, <1>8

\* Goto and Answer are moves.
LEMMA GotoMoves ==
  ASSUME IInv, NEW r \in Request, pc[r] \in Working, NEW c \in Working, Goto(r, c), UNCHANGED Rest
  PROVE  Moves(r, c, "none")
<1>1. reply[r] = "none"
  BY DEF IInv, ProcessInv, PhaseInv, Working, Holding
<1>2. QED BY <1>1 DEF Goto, Moves, IInv, ProcessInv, Reply

LEMMA AnswerMoves ==
  ASSUME NEW r \in Request, NEW x \in Reply, Answer(r, x), UNCHANGED Rest
  PROVE  Moves(r, "done", x)
BY DEF Answer, Moves

\* The steps that look at tables or take locks, and those that fail.
Quiet(r) ==
  \/ BeginCreate(r) \/ Begin(r) \/ UpsertUser(r) \/ Claim(r) \/ Insert(r) \/ Fail(r)

LEMMA QuietWorks ==
  ASSUME NEW r \in Request, Quiet(r)
  PROVE  pc[r] \in Working
BY DEF Quiet, BeginCreate, Begin, UpsertUser, Claim, Insert, Fail, Working, Holding

LEMMA QuietMoves ==
  ASSUME IInv, NEW r \in Request, Quiet(r)
  PROVE  \E c, x : Moves(r, c, x) /\ Found(r, c, x)
<1> DEFINE d == input[r].discovery
<1>1. pc[r] \in Working
  BY QuietWorks
<1>2. UNCHANGED Rest
  BY DEF Quiet, BeginCreate, Begin, UpsertUser, Claim, Insert, Fail, Rest, tables
<1>3. ASSUME NEW x \in Reply, x \notin {"recorded", "answered", "duplicate"}, Answer(r, x)
      PROVE  \E c, y : Moves(r, c, y) /\ Found(r, c, y)
  <2>1. Moves(r, "done", x)
    BY <1>2, <1>3, AnswerMoves
  <2>2. Found(r, "done", x)
    BY <1>3 DEF Found, Recording
  <2>3. QED BY <2>1, <2>2
<1>4. ASSUME NEW c \in Working, Goto(r, c), Found(r, c, "none")
      PROVE  \E e, y : Moves(r, e, y) /\ Found(r, e, y)
  BY <1>1, <1>2, <1>4, GotoMoves
<1>5. CASE BeginCreate(r)
  <2>1. input[r] \in CreateInput /\ input[r].company # None
    BY <1>5 DEF BeginCreate, IInv, PhaseInv
  <2>2. CASE input[r].company = Unlisted
    BY <1>3, <1>5, <2>2 DEF BeginCreate, Reply
  <2>3. CASE input[r].company # Unlisted
    <3>1. input[r].company \in Company \ {None}
      BY <2>1, <2>3 DEF CreateInput
    <3>2. Found(r, "create", "none") /\ Goto(r, "create")
      BY <1>5, <2>1, <2>3, <3>1 DEF BeginCreate, Found, Recording
    <3>3. QED BY <1>4, <3>2 DEF Working, Holding
  <2>4. QED BY <2>2, <2>3
<1>6. CASE Begin(r)
  <2>1. CASE Answer(r, "error")
    BY <1>3, <2>1 DEF Reply
  <2>2. CASE Goto(r, "user")
    <3>1. Found(r, "user", "none")
      BY <1>6 DEF Begin, Found, Recording
    <3>2. QED BY <1>4, <2>2, <3>1 DEF Working, Holding
  <2>3. QED BY <1>6, <2>1, <2>2 DEF Begin
<1>7. CASE UpsertUser(r)
  <2>1. CASE d = None
    <3>1. Found(r, "insert", "none") /\ Goto(r, "insert")
      BY <1>7, <2>1 DEF UpsertUser, Found, Recording
    <3>2. QED BY <1>4, <3>1 DEF Working, Holding
  <2>2. CASE d # None
    <3>1. Found(r, "link", "none") /\ Goto(r, "link")
      BY <1>7, <2>2 DEF UpsertUser, Found, Recording
    <3>2. QED BY <1>4, <3>1 DEF Working, Holding
  <2>3. QED BY <2>1, <2>2
<1>8. CASE Claim(r)
  <2>1. CASE Claimable(d, r)
    <3>1. Found(r, "insert", "none") /\ Goto(r, "insert")
      BY <1>8, <2>1 DEF Claim, Found, Recording
    <3>2. QED BY <1>4, <3>1 DEF Working, Holding
  <2>2. CASE ~ Claimable(d, r)
    BY <1>3, <1>8, <2>2 DEF Claim, Reply
  <2>3. QED BY <2>1, <2>2
<1>9. CASE Insert(r)
  <2>1. CASE Recorded(input[r].hash)
    <3>1. input[r] \in RecordInput
      BY <1>9 DEF Insert, IInv, PhaseInv, Recording
    <3>2. Moves(r, "done", "duplicate")
      BY <1>2, <1>9, <2>1, AnswerMoves DEF Insert, Recorded, Reply
    <3>3. Found(r, "done", "duplicate")
      BY <2>1, <3>1 DEF Found, Recording
    <3>4. QED BY <3>2, <3>3
  <2>2. CASE ~ Recorded(input[r].hash)
    <3>1. d # None => Claimable(d, r)
      BY <1>9 DEF Insert, IInv, ClaimInv
    <3>2. Found(r, "commit", "none")
      BY <1>9, <2>2, <3>1 DEF Insert, Found, Recording
    <3>3. Goto(r, "commit")
      BY <1>9, <2>2 DEF Insert, Recorded
    <3>4. QED BY <1>4, <3>2, <3>3 DEF Working, Holding
  <2>3. QED BY <2>1, <2>2
<1>10. CASE Fail(r)
  BY <1>3, <1>10 DEF Fail, Reply
<1>11. QED BY <1>5, <1>6, <1>7, <1>8, <1>9, <1>10 DEF Quiet

LEMMA QuietKeeps == ASSUME IInv, NEW r \in Request, Quiet(r) PROVE IInv'
<1>1. PICK c, x : Moves(r, c, x) /\ Found(r, c, x)
  BY QuietMoves
<1>2. QED BY <1>1, QuietWorks, MovesKeepPhases, MovesKeepRest DEF IInv

-----------------------------------------------------------------------------
(* The other steps *)

LEMMA ArriveKeeps == ASSUME IInv, NEW r \in Request, Arrive(r) PROVE IInv'
<1>1. PICK i \in Asked :
        /\ Admissible(i)
        /\ input' = [input EXCEPT ![r] = i]
        /\ since' = [since EXCEPT ![r] = IF i.op = "world" THEN transactions ELSE {}]
        /\ Arrives(r, FirstPhase(i))
  BY DEF Arrive
<1>2. pc[r] = "idle" /\ UNCHANGED <<discoveries, transactions, view>>
  BY DEF Arrive, tables
<1>3. i \in Input
  BY AskedAssumption
<1>4. PICK c \in Working \cup {"done"}, x \in Reply :
        /\ pc' = [pc EXCEPT ![r] = c]
        /\ reply' = [reply EXCEPT ![r] = x]
        /\ \/ c = "done" /\ x \notin {"none", "recorded", "duplicate", "answered"}
           \/ x = "none" /\ c = "begin" /\ i \in RecordInput
           \/ x = "none" /\ c = "begin_create" /\ i \in CreateInput /\ i.company # None
           \/ x = "none" /\ c = "positions" /\ i \in WorldInput /\ i.wallet \in Wallet
           \/ x = "none" /\ c = "history" /\ i.op = "history"
  <2>1. reply[r] = "none"
    BY <1>2 DEF IInv, ProcessInv, PhaseInv
  <2>2. CASE FirstPhase(i) \in Reply
    BY <1>1, <1>3, <2>2, FirstPhaseFacts DEF Arrives, Answer, Reply
  <2>3. CASE FirstPhase(i) \notin Reply
    <3>1. Goto(r, FirstPhase(i))
      BY <1>1, <2>3 DEF Arrives
    <3>2. reply' = [reply EXCEPT ![r] = "none"]
      BY <2>1, <3>1 DEF Goto, IInv, ProcessInv
    <3>3. "none" \in Reply /\ FirstPhase(i) \in Working
      BY <1>3, <2>3, FirstPhaseFacts DEF Reply, Working, Holding
    <3>4. QED BY <1>3, <2>3, <3>1, <3>2, <3>3, FirstPhaseFacts DEF Goto
  <2>4. QED BY <2>2, <2>3
<1>5. \A q \in Request : /\ pc'[q] = IF q = r THEN c ELSE pc[q]
                         /\ reply'[q] = IF q = r THEN x ELSE reply[q]
                         /\ input'[q] = IF q = r THEN i ELSE input[q]
                         /\ since'[q] \subseteq transactions
                         /\ q # r => since'[q] = since[q]
  BY <1>1, <1>4 DEF IInv, ProcessInv, WorldInv
<1>6. TableInv' /\ ProcessInv'
  <2>1. transactions \in SUBSET TransactionRow
    BY DEF IInv, TableInv
  <2>2. QED BY <1>1, <1>2, <1>3, <1>4, <2>1 DEF IInv, TableInv, ProcessInv
<1>7. PhaseInv'
  BY <1>4, <1>5 DEF IInv, PhaseInv, Recording, Answered
<1>8. FreshInv'
  <2>1. c \in Recording /\ i.discovery # None => discoveries[i.discovery] # None
    BY <1>1, <1>4, RecordFields DEF Admissible, Recording
  <2>2. QED BY <1>2, <1>5, <2>1 DEF IInv, FreshInv
<1>9. LockInv' /\ ClaimInv' /\ NewInv'
  BY <1>2, <1>4, <1>5 DEF IInv, LockInv, ClaimInv, NewInv, Claimable, Buyer, Recorded
<1>10. RecordedOnce' /\ ClaimedByPurchase'
  BY <1>2, <1>4, <1>5 DEF IInv, RecordedOnce, ClaimedByPurchase, Entry
<1>11. WorldInv'
  BY <1>2, <1>4, <1>5 DEF IInv, WorldInv, Answered, Mine, ContextsOfPositions, ContextsOf
<1>12. QED BY <1>6, <1>7, <1>8, <1>9, <1>10, <1>11 DEF IInv

\* A request that is answered, and changes no more than its answer and the tables.
LEMMA AnswerFacts ==
  ASSUME IInv, NEW r \in Request, NEW x \in Reply \ {"none"}, Answer(r, x)
  PROVE  /\ pc' \in [Request -> Working \cup {"idle", "done"}]
         /\ reply' \in [Request -> Reply]
         /\ \A q \in Request : /\ pc'[q] = IF q = r THEN "done" ELSE pc[q]
                               /\ reply'[q] = IF q = r THEN x ELSE reply[q]
BY DEF Answer, IInv, ProcessInv

LEMMA CommitCreateKeeps == ASSUME IInv, NEW r \in Request, CommitCreate(r) PROVE IInv'
<1> DEFINE row == NewDiscovery(input[r].company)
<1>1. /\ discoveries' = [discoveries EXCEPT ![r] = row]
      /\ UNCHANGED <<transactions, input, since, view>>
      /\ pc[r] = "create"
  BY DEF CommitCreate
<1>2. PICK x \in {"created", "error"} : Answer(r, x)
  BY DEF CommitCreate
<1>3. /\ pc' \in [Request -> Working \cup {"idle", "done"}]
      /\ reply' \in [Request -> Reply]
      /\ \A q \in Request : /\ pc'[q] = IF q = r THEN "done" ELSE pc[q]
                            /\ reply'[q] = IF q = r THEN x ELSE reply[q]
  BY <1>2, AnswerFacts DEF Reply
<1>4. row \in DiscoveryRow /\ row.user = None /\ row # None
  BY <1>1, Nothing DEF IInv, PhaseInv, NewDiscovery, DiscoveryRow
<1>5. r \in Discovery /\ discoveries[r] = None
  BY <1>1, LedgerAssumption DEF IInv, FreshInv
<1>6. \A d \in Discovery : discoveries'[d] = IF d = r THEN row ELSE discoveries[d]
  BY <1>1 DEF IInv, TableInv
<1>7. TableInv' /\ ProcessInv' /\ PhaseInv'
  <2>1. TableInv' /\ ProcessInv'
    BY <1>1, <1>3, <1>4 DEF IInv, TableInv, ProcessInv
  <2>2. QED BY <1>1, <1>3, <2>1 DEF IInv, PhaseInv, Recording, Answered
<1>8. \A entry \in transactions : entry.discovery \in Discovery \cup {None}
  BY DEF IInv, TableInv, TransactionRow
<1>9. FreshInv'
  <2>1. \A q \in Request : pc[q] \in Recording => input[q].discovery \in Discovery \cup {None}
    BY RecordFields DEF IInv, PhaseInv
  <2>2. \A q \in Request : q \in Discovery
    BY LedgerAssumption
  <2>3. \A d \in Discovery : discoveries[d] # None => discoveries'[d] # None
    BY <1>4, <1>6
  <2>4. \A q \in Request : pc'[q] # "done" => discoveries'[q] = None
    BY <1>3, <1>6, <2>2 DEF IInv, FreshInv
  <2>5. \A q \in Request : pc'[q] \in Recording => pc[q] \in Recording
    BY <1>3 DEF Recording
  <2>6. QED BY <1>1, <1>8, <2>1, <2>3, <2>4, <2>5 DEF IInv, FreshInv
<1>10. LockInv' /\ NewInv' /\ RecordedOnce'
  BY <1>1, <1>2, <1>3 DEF IInv, LockInv, NewInv, Recorded, RecordedOnce, Entry
<1>11. ClaimInv'
  <2>1. \A q \in Request : pc[q] \in {"insert", "commit"} => input[q] \in RecordInput
    BY DEF IInv, PhaseInv, Recording, Answered
  <2>2. ASSUME NEW q \in Request, pc'[q] \in {"insert", "commit"}, input[q].discovery # None
        PROVE  Claimable(input[q].discovery, q)'
    <3>1. Claimable(input[q].discovery, q) /\ input[q].discovery \in Discovery
      BY <1>3, <2>1, <2>2, RecordFields DEF IInv, ClaimInv
    <3>2. input[q].discovery # r
      BY <1>5, <3>1 DEF Claimable
    <3>3. QED BY <1>1, <1>6, <3>1, <3>2 DEF Claimable, Buyer
  <2>3. QED BY <1>1, <2>2 DEF ClaimInv
<1>12. ClaimedByPurchase'
  <2>1. \A entry \in transactions : entry.discovery # r
    BY <1>5, Nothing DEF IInv, FreshInv
  <2>2. QED BY <1>1, <1>4, <1>6, <2>1 DEF IInv, ClaimedByPurchase
<1>13. WorldInv'
  <2>1. \A w : ContextsOf(w) \subseteq ContextsOf(w)'
    BY <1>5, <1>6 DEF ContextsOf
  <2>2. \A q \in Request : Answered(q)' => Answered(q)
    BY <1>1, <1>3 DEF Answered
  <2>3. QED BY <1>1, <1>3, <2>1, <2>2 DEF IInv, WorldInv, Mine, ContextsOfPositions
<1>14. QED BY <1>7, <1>9, <1>10, <1>11, <1>12, <1>13 DEF IInv

LEMMA CommitKeeps == ASSUME IInv, NEW r \in Request, Commit(r) PROVE IInv'
<1> DEFINE d == input[r].discovery
           e == Entry(input[r].hash, d)
<1>1. /\ transactions' = transactions \cup {e}
      /\ UNCHANGED <<input, since, view>>
      /\ pc[r] = "commit"
  BY DEF Commit
<1>2. PICK x \in {"recorded", "error"} : Answer(r, x)
  BY DEF Commit
<1>3. /\ pc' \in [Request -> Working \cup {"idle", "done"}]
      /\ reply' \in [Request -> Reply]
      /\ \A q \in Request : /\ pc'[q] = IF q = r THEN "done" ELSE pc[q]
                            /\ reply'[q] = IF q = r THEN x ELSE reply[q]
  BY <1>2, AnswerFacts DEF Reply
<1>4. /\ input[r] \in RecordInput
      /\ input[r].hash \in Hash /\ d \in Discovery \cup {None}
      /\ e \in TransactionRow /\ e.hash = input[r].hash /\ e.discovery = d
      /\ e.wallet = Buyer(r) /\ e.company = Purchase[input[r].hash].company
      /\ Buyer(r) \in Wallet
  BY <1>1, RecordFields, EntryFields DEF IInv, PhaseInv, Recording, Buyer
<1>5. d # None => Claimable(d, r) /\ d \in Discovery
  BY <1>1, <1>4 DEF IInv, ClaimInv
<1>6. \A f \in transactions : f.hash # e.hash
  BY <1>1, <1>4 DEF IInv, NewInv, Recorded
<1>7. /\ discoveries' \in [Discovery -> DiscoveryRow \cup {None}]
      /\ \A c \in Discovery : c # d => discoveries'[c] = discoveries[c]
      /\ d # None => /\ discoveries'[d] # None /\ discoveries'[d].user = Buyer(r)
                     /\ discoveries'[d].company = discoveries[d].company
  <2>1. CASE d = None
    BY <2>1 DEF Commit, IInv, TableInv
  <2>2. CASE d # None
    <3>1. discoveries' = [discoveries EXCEPT ![d].user = Buyer(r)]
      BY <2>2 DEF Commit
    <3>2. discoveries[d] \in DiscoveryRow
      BY <1>5, <2>2 DEF Claimable, IInv, TableInv
    <3>3. [discoveries[d] EXCEPT !.user = Buyer(r)] \in DiscoveryRow
      BY <1>4, <3>2 DEF DiscoveryRow
    <3>4. discoveries' = [discoveries EXCEPT ![d] = [discoveries[d] EXCEPT !.user = Buyer(r)]]
      BY <3>1
    <3>5. /\ discoveries'[d] = [discoveries[d] EXCEPT !.user = Buyer(r)]
          /\ \A c \in Discovery : c # d => discoveries'[c] = discoveries[c]
          /\ discoveries' \in [Discovery -> DiscoveryRow \cup {None}]
      BY <1>5, <2>2, <3>3, <3>4 DEF IInv, TableInv
    <3>6. QED BY <3>2, <3>3, <3>5, Nothing DEF DiscoveryRow
  <2>3. QED BY <2>1, <2>2
<1>8. \A c \in Discovery :
        /\ discoveries'[c] # None <=> discoveries[c] # None
        /\ discoveries'[c].company = discoveries[c].company \/ discoveries[c] = None
  BY <1>5, <1>7, Nothing DEF Claimable
<1>9. \A f \in transactions : f \in TransactionRow /\ f.discovery \in Discovery \cup {None}
  BY DEF IInv, TableInv, TransactionRow
<1>10. \A q \in Request : pc[q] \in Recording =>
         input[q] \in RecordInput /\ input[q].op = "record" /\ input[q].discovery \in Discovery \cup {None}
  BY RecordFields DEF IInv, PhaseInv
<1>11. TableInv' /\ ProcessInv' /\ PhaseInv'
  <2>1. TableInv' /\ ProcessInv'
    BY <1>1, <1>3, <1>4, <1>7 DEF IInv, TableInv, ProcessInv
  <2>2. QED BY <1>1, <1>3, <1>4, <2>1 DEF IInv, PhaseInv, Recording, Answered
<1>12. FreshInv'
  <2>1. \A q \in Request : q \in Discovery
    BY LedgerAssumption
  <2>2. \A q \in Request : pc'[q] # "done" => discoveries'[q] = None
    BY <1>3, <1>8, <2>1 DEF IInv, FreshInv
  <2>3. \A q \in Request : pc'[q] \in Recording => pc[q] \in Recording
    BY <1>3 DEF Recording
  <2>4. \A f \in transactions' : f.discovery # None => discoveries'[f.discovery] # None
    BY <1>1, <1>4, <1>7, <1>8, <1>9 DEF IInv, FreshInv
  <2>5. QED BY <1>1, <1>8, <1>10, <2>2, <2>3, <2>4 DEF IInv, FreshInv
<1>13. LockInv'
  BY <1>1, <1>3 DEF IInv, LockInv
<1>14. ASSUME NEW q \in Request, pc'[q] \in {"insert", "commit"}
       PROVE  /\ q # r /\ pc[q] = pc'[q]
              /\ input[q].discovery # None => input[q].discovery \in Discovery \ {d}
              /\ pc[q] = "commit" => input[q].hash # input[r].hash
  <2>1. q # r /\ pc[q] = pc'[q]
    BY <1>3, <1>14
  <2>2. QED BY <1>1, <1>10, <1>14, <2>1 DEF IInv, LockInv, Recording
<1>15. ClaimInv'
  BY <1>1, <1>7, <1>14 DEF IInv, ClaimInv, Claimable, Buyer
<1>16. NewInv'
  BY <1>1, <1>4, <1>14 DEF IInv, NewInv, Recorded
<1>17. RecordedOnce'
  <2>1. \A a, b \in transactions' : a.hash = b.hash => a = b
    BY <1>1, <1>6 DEF IInv, RecordedOnce
  <2>2. ASSUME NEW q \in Request
        PROVE  /\ reply'[q] = "recorded" => Entry(input[q].hash, input[q].discovery) \in transactions'
               /\ reply'[q] = "duplicate" => \E f \in transactions' : f.hash = input[q].hash
    BY <1>1, <1>3 DEF IInv, RecordedOnce
  <2>3. QED BY <1>1, <2>1, <2>2 DEF RecordedOnce, Entry
<1>18. ClaimedByPurchase'
  <2> DEFINE buyers(c) == {f \in transactions : f.discovery = c}
  <2>1. ASSUME NEW c \in Discovery, discoveries'[c] # None, c # d
        PROVE  /\ discoveries'[c].user # None <=> {f \in transactions' : f.discovery = c} # {}
               /\ \A f \in {f \in transactions' : f.discovery = c} :
                    f.wallet = discoveries'[c].user /\ f.company = discoveries'[c].company
    <3>1. {f \in transactions' : f.discovery = c} = {f \in transactions : f.discovery = c}
      BY <1>1, <1>4, <2>1
    <3>2. discoveries'[c] = discoveries[c]
      BY <1>7, <2>1
    <3>3. QED BY <2>1, <3>1, <3>2 DEF IInv, ClaimedByPurchase
  <2>2. ASSUME d # None
        PROVE  /\ discoveries'[d].user # None <=> {f \in transactions' : f.discovery = d} # {}
               /\ \A f \in {f \in transactions' : f.discovery = d} :
                    f.wallet = discoveries'[d].user /\ f.company = discoveries'[d].company
    <3>1. \A f \in transactions : f.discovery = d =>
            f.wallet = Buyer(r) /\ f.company = discoveries[d].company
      BY <1>5, <2>2 DEF IInv, ClaimedByPurchase, Claimable
    <3>2. e \in transactions' /\ e.discovery = d
      BY <1>1, <1>4
    <3>3. discoveries[d].company = e.company
      BY <1>4, <1>5, <2>2 DEF Claimable
    <3>4. \A f \in transactions' : f.discovery = d =>
            f.wallet = Buyer(r) /\ f.company = discoveries[d].company
      BY <1>1, <1>4, <3>1, <3>3
    <3>5. QED BY <1>4, <1>7, <2>2, <3>2, <3>4, Nothing
  <2>3. QED BY <2>1, <2>2, Nothing DEF ClaimedByPurchase
<1>19. WorldInv'
  <2>1. \A w \in Wallet : ContextsOf(w) \subseteq ContextsOf(w)'
    BY <1>5, <1>7, <1>8, Nothing DEF ContextsOf, Claimable
  <2>2. \A q \in Request : Answered(q)' => Answered(q)
    BY <1>1, <1>3 DEF Answered
  <2>3. \A q \in Request : Answered(q) => input[q].wallet \in Wallet
    BY DEF IInv, PhaseInv
  <2>4. QED BY <1>1, <1>3, <2>1, <2>2, <2>3 DEF IInv, WorldInv, Mine, ContextsOfPositions
<1>20. QED BY <1>11, <1>12, <1>13, <1>15, <1>16, <1>17, <1>18, <1>19 DEF IInv

\* What has been read of positions that are a wallet's own comes with its discovery.
LEMMA ContextsAreThere ==
  ASSUME IInv, NEW w \in Wallet,
         NEW entry \in transactions, entry.wallet = w, entry.discovery # None
  PROVE  entry.discovery \in ContextsOf(w)
<1>1. entry.discovery \in Discovery /\ discoveries[entry.discovery] # None
  BY DEF IInv, TableInv, FreshInv, TransactionRow
<1>2. QED BY <1>1 DEF IInv, ClaimedByPurchase, ContextsOf

LEMMA ViewUpdate ==
  ASSUME NEW old, old = [positions |-> old.positions, contexts |-> old.contexts], NEW new
  PROVE  /\ [old EXCEPT !.positions = new] = [positions |-> new, contexts |-> old.contexts]
         /\ [old EXCEPT !.contexts = new] = [positions |-> old.positions, contexts |-> new]
<1>1. PICK a, b : old = [positions |-> a, contexts |-> b]
  OBVIOUS
<1>2. QED BY <1>1

LEMMA ReadKeeps ==
  ASSUME IInv, NEW r \in Request, ReadWorld(r) \/ ReadHistory(r)
  PROVE  IInv'
<1> DEFINE w == input[r].wallet
<1>1. UNCHANGED <<discoveries, transactions, input, since>> /\ pc[r] \in Working
  BY DEF ReadWorld, ReadHistory, tables, Working, Holding
<1> DEFINE Reads(c, x, p, d) ==
        /\ \/ pc[r] = "positions" /\ c = "contexts" /\ x = "none" /\ p = PositionsOf(w)
           \/ /\ pc[r] = "contexts" /\ c = "done" /\ x = "answered"
              /\ p = view[r].positions /\ d = ContextsOf(w)
           \/ pc[r] = "history" /\ c = "done" /\ x = "answered"
        /\ pc' = [pc EXCEPT ![r] = c]
        /\ reply' = [reply EXCEPT ![r] = x]
        /\ view' = [view EXCEPT ![r] = [positions |-> p, contexts |-> d]]
<1>2. PICK c \in {"contexts", "done"}, x \in {"none", "answered"} : \E p, d : Reads(c, x, p, d)
  <2>1. view[r] = [positions |-> view[r].positions, contexts |-> view[r].contexts]
    BY DEF IInv, ProcessInv
  <2>2. reply[r] = "none" /\ reply = [reply EXCEPT ![r] = reply[r]]
    BY <1>1 DEF IInv, ProcessInv, PhaseInv, Working, Holding
  <2>3. CASE ReadWorld(r) /\ pc[r] = "positions"
    <3>1. view' = [view EXCEPT ![r] = [positions |-> PositionsOf(w), contexts |-> view[r].contexts]]
      <4>1. view' = [view EXCEPT ![r] = [view[r] EXCEPT !.positions = PositionsOf(w)]]
        BY <2>3 DEF ReadWorld
      <4>2. QED BY <2>1, <4>1, ViewUpdate
    <3>2. Reads("contexts", "none", PositionsOf(w), view[r].contexts)
      BY <2>2, <2>3, <3>1 DEF ReadWorld, Goto
    <3>3. QED BY <3>2
  <2>4. CASE ReadWorld(r) /\ pc[r] = "contexts"
    <3>1. view' = [view EXCEPT ![r] = [positions |-> view[r].positions, contexts |-> ContextsOf(w)]]
      <4>1. view' = [view EXCEPT ![r] = [view[r] EXCEPT !.contexts = ContextsOf(w)]]
        BY <2>4 DEF ReadWorld
      <4>2. QED BY <2>1, <4>1, ViewUpdate
    <3>2. Reads("done", "answered", view[r].positions, ContextsOf(w))
      BY <2>4, <3>1 DEF ReadWorld, Answer
    <3>3. QED BY <3>2
  <2>5. CASE ReadHistory(r)
    <3>1. PICK new : view' = [view EXCEPT ![r] = [view[r] EXCEPT !.contexts = new]]
      BY <2>5 DEF ReadHistory
    <3>2. view' = [view EXCEPT ![r] = [positions |-> view[r].positions, contexts |-> new]]
      BY <2>1, <3>1, ViewUpdate
    <3>3. Reads("done", "answered", view[r].positions, new)
      BY <2>5, <3>2 DEF ReadHistory, Answer
    <3>4. QED BY <3>3
  <2>6. QED BY <2>3, <2>4, <2>5 DEF ReadWorld
<1>3. PICK p, d : Reads(c, x, p, d)
  BY <1>2
<1>4. \A q \in Request : /\ pc'[q] = IF q = r THEN c ELSE pc[q]
                         /\ reply'[q] = IF q = r THEN x ELSE reply[q]
                         /\ q # r => view'[q] = view[q]
  BY <1>3 DEF IInv, ProcessInv
<1>5. view'[r].positions = p /\ view'[r].contexts = d
  BY <1>3 DEF IInv, ProcessInv
<1>6. TableInv' /\ ProcessInv'
  <2>1. c \in Working \cup {"idle", "done"} /\ x \in Reply
    BY DEF Working, Reply
  <2>2. view' = [q \in Request |-> [positions |-> view'[q].positions, contexts |-> view'[q].contexts]]
    BY <1>3 DEF IInv, ProcessInv
  <2>3. QED BY <1>1, <1>3, <2>1, <2>2 DEF IInv, TableInv, ProcessInv
<1>7. PhaseInv'
  BY <1>1, <1>3, <1>4 DEF IInv, PhaseInv, Recording, Answered, HistoryInput
<1>8. FreshInv' /\ LockInv' /\ ClaimInv' /\ NewInv'
  BY <1>1, <1>3, <1>4 DEF IInv, FreshInv, LockInv, ClaimInv, NewInv, Claimable, Buyer, Recorded, Recording,
    Working, Holding
<1>9. RecordedOnce' /\ ClaimedByPurchase'
  BY <1>1, <1>4 DEF IInv, RecordedOnce, ClaimedByPurchase, Entry
<1>10. ASSUME NEW q \in Request
      PROVE  /\ since'[q] \subseteq transactions'
             /\ pc'[q] = "contexts" \/ Answered(q)' =>
                  /\ Mine(since[q], q) \subseteq view'[q].positions
                  /\ view'[q].positions \subseteq Mine(transactions, q)
             /\ Answered(q)' =>
                  /\ {entry.discovery : entry \in view'[q].positions} \ {None} \subseteq view'[q].contexts
                  /\ view'[q].contexts \subseteq ContextsOf(input[q].wallet)
  <2>1. since[q] \subseteq transactions
    BY DEF IInv, WorldInv
  <2>2. CASE q # r
    BY <1>1, <1>4, <2>1, <2>2 DEF IInv, WorldInv, Answered, ContextsOfPositions
  <2>3. CASE q = r /\ pc[r] = "positions"
    BY <1>1, <1>3, <1>4, <1>5, <2>1, <2>3 DEF Answered, Mine, PositionsOf
  <2>4. CASE q = r /\ pc[r] = "contexts"
    <3>1. /\ Mine(since[r], r) \subseteq p /\ p \subseteq Mine(transactions, r)
          /\ d = ContextsOf(w)
      BY <1>3, <2>4 DEF IInv, WorldInv
    <3>2. w \in Wallet
      BY <2>4 DEF IInv, PhaseInv
    <3>3. \A entry \in p : entry.discovery # None => entry.discovery \in d
      BY <3>1, <3>2, ContextsAreThere DEF Mine
    <3>4. QED BY <1>1, <1>5, <2>1, <2>4, <3>1, <3>3
  <2>5. CASE q = r /\ pc[r] = "history"
    BY <1>1, <1>3, <1>4, <2>1, <2>5 DEF Answered, IInv, PhaseInv
  <2>6. QED BY <1>3, <2>2, <2>3, <2>4, <2>5
<1>11. WorldInv'
  BY <1>1, <1>10 DEF WorldInv, Mine, ContextsOfPositions, ContextsOf
<1>12. QED BY <1>6, <1>7, <1>8, <1>9, <1>11 DEF IInv

-----------------------------------------------------------------------------
(* The invariant *)

LEMMA InitHolds == Init => IInv
<1> SUFFICES ASSUME Init PROVE IInv
  OBVIOUS
<1>1. PICK company \in [Earlier -> Company] :
        discoveries = [d \in Discovery |-> IF d \in Earlier THEN NewDiscovery(company[d]) ELSE None]
  BY DEF Init
<1>2. TableInv
  BY <1>1 DEF Init, TableInv, NewDiscovery, DiscoveryRow
<1>3. ProcessInv
  BY DEF Init, ProcessInv, Reply
<1>4. \A r \in Request : pc[r] = "idle" /\ reply[r] = "none" /\ since[r] = {} /\ discoveries[r] = None
  BY <1>1, LedgerAssumption DEF Init
<1>5. PhaseInv /\ LockInv /\ ClaimInv /\ NewInv /\ WorldInv
  BY <1>4 DEF PhaseInv, LockInv, ClaimInv, NewInv, WorldInv, Answered, Recording
<1>6. FreshInv /\ RecordedOnce
  BY <1>4 DEF Init, FreshInv, RecordedOnce, Recording
<1>7. ClaimedByPurchase
  BY <1>1 DEF Init, ClaimedByPurchase, NewDiscovery
<1>8. QED BY <1>2, <1>3, <1>5, <1>6, <1>7 DEF IInv

LEMMA StutterKeeps == IInv /\ UNCHANGED vars => IInv'
<1> SUFFICES ASSUME IInv, UNCHANGED vars PROVE IInv'
  OBVIOUS
<1>1. UNCHANGED <<discoveries, transactions, input, since, pc, reply, view>>
  BY DEF vars, tables
<1>2. TableInv' /\ ProcessInv' /\ PhaseInv' /\ FreshInv'
  BY <1>1 DEF IInv, TableInv, ProcessInv, PhaseInv, FreshInv, Answered
<1>3. LockInv' /\ ClaimInv' /\ NewInv' /\ RecordedOnce' /\ ClaimedByPurchase'
  BY <1>1 DEF IInv, LockInv, ClaimInv, NewInv, RecordedOnce, ClaimedByPurchase, Claimable, Buyer,
    Recorded, Entry
<1>4. WorldInv'
  BY <1>1 DEF IInv, WorldInv, Answered, Mine, ContextsOfPositions, ContextsOf
<1>5. QED BY <1>2, <1>3, <1>4 DEF IInv

LEMMA StepKeeps == IInv /\ [Next]_vars => IInv'
<1> SUFFICES ASSUME IInv, Next PROVE IInv'
  BY StutterKeeps
<1>1. PICK r \in Request : Arrive(r) \/ Step(r) \/ Fail(r)
  BY DEF Next
<1>2. CASE Arrive(r)
  BY <1>2, ArriveKeeps
<1>3. CASE Quiet(r)
  BY <1>3, QuietKeeps
<1>4. CASE CommitCreate(r)
  BY <1>4, CommitCreateKeeps
<1>5. CASE Commit(r)
  BY <1>5, CommitKeeps
<1>6. CASE ReadWorld(r) \/ ReadHistory(r)
  BY <1>6, ReadKeeps
<1>7. QED BY <1>1, <1>2, <1>3, <1>4, <1>5, <1>6 DEF Step, Quiet

LEMMA Invariance == Spec => []IInv
BY InitHolds, StepKeeps, PTL DEF Spec

\* A purchase is on record once, and no answer about one is ever taken back,
\* whatever is submitted again, with whatever discovery (record_transaction).
THEOREM PurchasesRecordedOnce == Spec => []RecordedOnce
BY Invariance, PTL DEF IInv

\* A discovery has an owner exactly when a purchase names it, for any number of
\* buyers that claim it at once and transactions that fail (record_transaction).
THEOREM ClaimsHavePurchases == Spec => []ClaimedByPurchase
BY Invariance, PTL DEF IInv

LEMMA WorldHolds == IInv => WorldIsCurrent
<1> SUFFICES ASSUME IInv, NEW r \in Request, reply[r] = "answered", input[r].op = "world"
             PROVE  LET mine(entries) == {entry \in entries : entry.wallet = input[r].wallet}
                        read == view[r].positions
                    IN /\ mine(since[r]) \subseteq read /\ read \subseteq mine(transactions)
                       /\ {entry.discovery : entry \in read} \ {None} \subseteq view[r].contexts
                       /\ mine(since[r]) = mine(transactions) =>
                            view[r].contexts = UNION {Listed(view[r], c) : c \in Company}
  BY DEF WorldIsCurrent
<1> DEFINE w == input[r].wallet
           read == view[r].positions
<1>1. /\ Mine(since[r], r) \subseteq read /\ read \subseteq Mine(transactions, r)
      /\ {entry.discovery : entry \in read} \ {None} \subseteq view[r].contexts
      /\ view[r].contexts \subseteq ContextsOf(w)
      /\ w \in Wallet
  BY DEF IInv, WorldInv, PhaseInv, Answered, ContextsOfPositions
<1>2. ASSUME Mine(since[r], r) = Mine(transactions, r)
      PROVE  view[r].contexts = UNION {Listed(view[r], c) : c \in Company}
  <2>1. read = Mine(transactions, r)
    BY <1>1, <1>2
  <2>2. ASSUME NEW d \in view[r].contexts
        PROVE  \E c \in Company : d \in Listed(view[r], c)
    <3>1. d \in Discovery /\ discoveries[d] # None /\ discoveries[d].user = w
      BY <1>1, <2>2 DEF ContextsOf
    <3>2. PICK entry \in transactions : entry.discovery = d
      BY <1>1, <3>1, Nothing DEF IInv, ClaimedByPurchase
    <3>3. entry.wallet = w /\ entry.company = discoveries[d].company /\ entry.company \in Company
      BY <3>1, <3>2 DEF IInv, ClaimedByPurchase, TableInv, TransactionRow
    <3>4. entry \in read
      BY <2>1, <3>3 DEF Mine
    <3>5. QED BY <2>2, <3>3, <3>4 DEF Listed
  <2>3. \A c \in Company : Listed(view[r], c) \subseteq view[r].contexts
    BY DEF Listed
  <2>4. QED BY <2>2, <2>3
<1>3. QED BY <1>1, <1>2 DEF Mine

\* What a wallet is told of its world was true of the tables while the request was
\* under way, and the two statements of world fit together (database.rs, world).
THEOREM WorldAnswersHold == Spec => []WorldIsCurrent
BY Invariance, WorldHolds, PTL

-----------------------------------------------------------------------------
(* What is read *)

\* What a request has read is in the tables, and no history is longer than allowed.
ReadInv ==
  /\ order \in Seq(Discovery)
  /\ \A r \in Request :
       /\ view[r].positions \subseteq TransactionRow
       /\ view[r].contexts \subseteq Discovery
       /\ pc[r] = "history" => input[r] \in HistoryInput
       /\ pc[r] = "idle" => view[r].contexts = {}
       /\ pc[r] # "idle" /\ input[r].op = "history" => Cardinality(view[r].contexts) <= MaxLimit

LEMMA EarlierInOrder == SetToSeq(Earlier) \in Seq(Discovery)
<1> DEFINE size == Cardinality(Earlier)
<1>1. size \in Nat /\ ExistsBijection(1..size, Earlier)
  BY LedgerAssumption, FS_CardinalityType
<1>2. \E f \in [1..size -> Earlier] : IsInjective(f)
  BY <1>1 DEF ExistsBijection, Bijection, Injection
<1>3. SetToSeq(Earlier) \in [1..size -> Earlier]
  BY <1>2 DEF SetToSeq
<1>4. SetToSeq(Earlier) \in [1..size -> Discovery]
  BY <1>3, LedgerAssumption
<1>5. QED BY <1>1, <1>4

LEMMA Least ==
  ASSUME NEW S \in SUBSET Nat, S # {}
  PROVE  \E m \in S : \A n \in S : m <= n
<1> DEFINE less == {p \in Nat \X Nat : p[1] < p[2]}
<1>1. IsWellFoundedOn(less, Nat)
  BY NatLessThanWellFounded, Zenon DEF OpToRel
<1>2. PICK m \in S : \A n \in S : ~ (<<n, m>> \in less)
  BY <1>1, WFMin
<1>3. \A n \in S : ~ (n < m)
  BY <1>2
<1>4. QED BY <1>3

LEMMA ClampedFacts == ASSUME NEW limit \in Nat PROVE Clamped(limit) \in Nat /\ Clamped(limit) <= MaxLimit
BY LedgerAssumption DEF Clamped

\* The last places of a wallet's discoveries are no more than were asked for: they are
\* all among those from the first of them on, which were counted.
LEMMA LatestFacts ==
  ASSUME order \in Seq(Discovery), NEW wallet, NEW limit \in Nat
  PROVE  /\ Latest(wallet, limit) \subseteq Discovery
         /\ Cardinality(Latest(wallet, limit)) \in Nat
         /\ Cardinality(Latest(wallet, limit)) <= limit
<1> DEFINE mine == {i \in DOMAIN order : order[i] \in ContextsOf(wallet)}
           from(j) == {k \in mine : k >= j}
           last == {j \in mine : Cardinality(from(j)) <= limit}
           at == [i \in last |-> order[i]]
<1>1. DOMAIN order = 1..Len(order) /\ Len(order) \in Nat /\ order \in [1..Len(order) -> Discovery]
  BY LenProperties
<1>2. mine \in SUBSET (1..Len(order)) /\ IsFiniteSet(mine)
  <2>1. IsFiniteSet(1..Len(order)) /\ mine \in SUBSET (1..Len(order))
    BY <1>1, FS_Interval
  <2>2. QED BY <2>1, FS_Subset
<1> HIDE DEF mine
<1>3. last \in SUBSET mine /\ IsFiniteSet(last) /\ last \in SUBSET Nat /\ Cardinality(last) \in Nat
  <2>1. last \in SUBSET mine
    OBVIOUS
  <2>2. IsFiniteSet(last)
    BY <1>2, <2>1, FS_Subset
  <2>3. Cardinality(last) \in Nat
    BY <2>2, FS_CardinalityType
  <2>4. last \in SUBSET Nat
    <3> HIDE DEF last
    <3>1. QED BY <1>1, <1>2, <2>1
  <2>5. QED BY <2>1, <2>2, <2>3, <2>4
<1>4. Cardinality(last) <= limit
  <2>1. CASE last = {}
    <3> HIDE DEF last
    <3>1. QED BY <2>1, FS_EmptySet
  <2>2. CASE last # {}
    <3>1. PICK m \in last : \A n \in last : m <= n
      <4> HIDE DEF last
      <4>1. QED BY <1>3, <2>2, Least
    <3>2. IsFiniteSet(from(m)) /\ from(m) \in SUBSET mine
      BY <1>2, FS_Subset
    <3>3. last \in SUBSET from(m)
      BY <1>3, <3>1
    <3>4. Cardinality(last) <= Cardinality(from(m)) /\ Cardinality(from(m)) \in Nat
      <4> HIDE DEF from, last
      <4>1. QED BY <3>2, <3>3, FS_Subset, FS_CardinalityType
    <3>5. Cardinality(from(m)) <= limit
      BY <3>1
    <3> HIDE DEF from, last
    <3>6. QED BY <1>3, <3>4, <3>5
  <2>3. QED BY <2>1, <2>2
<1>5. Latest(wallet, limit) = {order[i] : i \in last}
  BY DEF Latest, mine
<1> HIDE DEF last
<1>6. at \in Surjection(last, {order[i] : i \in last})
  BY DEF Surjection
<1>7. /\ Cardinality({order[i] : i \in last}) <= Cardinality(last)
      /\ Cardinality({order[i] : i \in last}) \in Nat
  <2> HIDE DEF at
  <2>1. QED BY <1>3, <1>6, FS_Surjection, FS_CardinalityType
<1>8. Latest(wallet, limit) \subseteq Discovery
  BY <1>1, <1>2, <1>3, <1>5
<1>9. Cardinality(Latest(wallet, limit)) \in Nat /\ Cardinality(Latest(wallet, limit)) <= limit
  <2>1. Cardinality(Latest(wallet, limit)) = Cardinality({order[i] : i \in last})
    BY <1>5
  <2>2. QED BY <1>3, <1>4, <1>7, <2>1
<1>10. QED BY <1>8, <1>9

LEMMA ReadInit == Init => ReadInv
<1> SUFFICES ASSUME Init PROVE ReadInv
  OBVIOUS
<1>1. \A r \in Request : /\ view[r].positions = {} /\ view[r].contexts = {} /\ pc[r] = "idle"
  BY DEF Init
<1>2. order \in Seq(Discovery)
  BY EarlierInOrder DEF Init
<1>3. QED BY <1>1, <1>2 DEF ReadInv

\* A request that reads nothing changes nothing that has been read.
LEMMA QuietReads ==
  ASSUME IInv, ReadInv, NEW r \in Request, UNCHANGED view,
         order' = order \/ order' = Append(order, r),
         NEW c, c # "idle", c = "history" => input'[r] \in HistoryInput, pc' = [pc EXCEPT ![r] = c],
         \/ pc[r] = "idle"
         \/ pc[r] # "idle" /\ UNCHANGED input,
         \A q \in Request \ {r} : input'[q] = input[q]
  PROVE  ReadInv'
<1>1. order' \in Seq(Discovery)
  <2>1. r \in Discovery
    BY LedgerAssumption
  <2>2. QED BY <2>1, AppendProperties DEF ReadInv
<1>2. \A q \in Request : pc'[q] = IF q = r THEN c ELSE pc[q]
  BY DEF IInv, ProcessInv
<1>3. MaxLimit \in Nat /\ Cardinality({}) = 0
  BY LedgerAssumption, FS_EmptySet
<1>4. ASSUME NEW q \in Request
      PROVE  /\ view'[q].positions \subseteq TransactionRow
             /\ view'[q].contexts \subseteq Discovery
             /\ pc'[q] = "history" => input'[q] \in HistoryInput
             /\ pc'[q] = "idle" => view'[q].contexts = {}
             /\ pc'[q] # "idle" /\ input'[q].op = "history" => Cardinality(view'[q].contexts) <= MaxLimit
  <2>1. CASE q = r /\ pc[r] = "idle"
    <3>1. view'[q].contexts = {}
      BY <2>1 DEF ReadInv
    <3>2. Cardinality(view'[q].contexts) <= MaxLimit
      BY <1>3, <3>1
    <3>3. QED BY <1>2, <2>1, <3>1, <3>2 DEF ReadInv
  <2>2. CASE ~ (q = r /\ pc[r] = "idle")
    <3>1. input'[q] = input[q] /\ (pc'[q] = "idle" <=> pc[q] = "idle")
      BY <1>2, <2>2
    <3>2. QED BY <3>1 DEF ReadInv
  <2>3. QED BY <2>1, <2>2
<1>5. QED BY <1>1, <1>4 DEF ReadInv

LEMMA Reading ==
  ASSUME IInv, ReadInv, NEW r \in Request, ReadWorld(r) \/ ReadHistory(r)
  PROVE  ReadInv'
<1> DEFINE w == input[r].wallet
<1>1. UNCHANGED <<order, input>> /\ pc[r] # "idle"
  BY DEF ReadWorld, ReadHistory, tables
<1>2. PICK c \in {"contexts", "done"} : pc' = [pc EXCEPT ![r] = c]
  BY DEF ReadWorld, ReadHistory, Goto, Answer
<1>3. \A q \in Request : pc'[q] = IF q = r THEN c ELSE pc[q]
  BY <1>2 DEF IInv, ProcessInv
<1>4. view[r] = [positions |-> view[r].positions, contexts |-> view[r].contexts]
  BY DEF IInv, ProcessInv
<1>5. \A q \in Request : q # r => view'[q] = view[q]
  BY DEF ReadWorld, ReadHistory, IInv, ProcessInv
<1>6. /\ view'[r].positions \subseteq TransactionRow
      /\ view'[r].contexts \subseteq Discovery
      /\ input[r].op = "history" => Cardinality(view'[r].contexts) <= MaxLimit
  <2>1. CASE ReadWorld(r)
    <3>1. input[r].op # "history"
      BY <2>1 DEF ReadWorld, IInv, PhaseInv, WorldInput
    <3>2. PICK p, d : view'[r] = [positions |-> p, contexts |-> d]
                      /\ p \in {view[r].positions, PositionsOf(w)}
                      /\ d \in {view[r].contexts, ContextsOf(w)}
      <4>1. /\ r \in DOMAIN view
            /\ \/ view' = [view EXCEPT ![r] = [view[r] EXCEPT !.positions = PositionsOf(w)]]
               \/ view' = [view EXCEPT ![r] = [view[r] EXCEPT !.contexts = ContextsOf(w)]]
        BY <2>1 DEF ReadWorld, IInv, ProcessInv
      <4>2. QED BY <1>4, <4>1, ViewUpdate
    <3>3. PositionsOf(w) \subseteq TransactionRow /\ ContextsOf(w) \subseteq Discovery
      BY DEF IInv, TableInv, PositionsOf, ContextsOf
    <3>4. QED BY <3>1, <3>2, <3>3 DEF ReadInv
  <2>2. CASE ReadHistory(r)
    <3> DEFINE new == Latest(w, Clamped(input[r].limit))
    <3>1. input[r] \in HistoryInput
      BY <2>2 DEF ReadHistory, ReadInv
    <3>2. input[r].limit \in Nat
      BY <3>1, LedgerAssumption DEF HistoryInput
    <3>3. Clamped(input[r].limit) \in Nat /\ Clamped(input[r].limit) <= MaxLimit
      BY <3>2, ClampedFacts
    <3>4. /\ new \subseteq Discovery
          /\ Cardinality(new) \in Nat /\ Cardinality(new) <= Clamped(input[r].limit)
      BY <3>3, LatestFacts DEF ReadInv
    <3>5. view'[r].positions = view[r].positions /\ view'[r].contexts = new
      <4>1. r \in DOMAIN view /\ view' = [view EXCEPT ![r] = [view[r] EXCEPT !.contexts = new]]
        BY <2>2 DEF ReadHistory, IInv, ProcessInv
      <4>2. view'[r] = [positions |-> view[r].positions, contexts |-> new]
        <5> HIDE DEF new
        <5>1. QED BY <1>4, <4>1, ViewUpdate
      <4>3. QED BY <4>2
    <3>6. Cardinality(new) <= MaxLimit
      <4> HIDE DEF new
      <4>1. QED BY <3>3, <3>4, LedgerAssumption
    <3> HIDE DEF new
    <3>7. QED BY <3>4, <3>5, <3>6 DEF ReadInv
  <2>3. QED BY <2>1, <2>2
<1>7. QED BY <1>1, <1>3, <1>5, <1>6 DEF ReadInv

LEMMA ReadKept == IInv /\ ReadInv /\ [Next]_vars => ReadInv'
<1> SUFFICES ASSUME IInv, ReadInv, [Next]_vars PROVE ReadInv'
  OBVIOUS
<1>1. CASE UNCHANGED vars
  BY <1>1 DEF vars, tables, ReadInv
<1>2. ASSUME NEW r \in Request, Arrive(r) PROVE ReadInv'
  <2>1. PICK i \in Asked : input' = [input EXCEPT ![r] = i] /\ Arrives(r, FirstPhase(i))
    BY <1>2 DEF Arrive
  <2>2. PICK c : /\ pc' = [pc EXCEPT ![r] = c]
                 /\ c # "idle" /\ (c = "history" => input'[r] \in HistoryInput)
    <3>1. FirstPhase(i) # "idle" /\ (FirstPhase(i) = "history" => i \in HistoryInput)
      <4>1. i \in Input
        BY AskedAssumption
      <4>2. i.op = "history" => i \in HistoryInput
        BY <4>1 DEF Input, CreateInput, RecordInput, SubmitInput, WorldInput, HistoryInput
      <4>3. QED BY <4>1, <4>2, FirstPhaseFacts DEF Reply
    <3>2. input'[r] = i
      BY <2>1 DEF IInv, ProcessInv
    <3>3. QED BY <2>1, <3>1, <3>2 DEF Arrives, Answer, Goto
  <2>3. UNCHANGED <<order, view>> /\ pc[r] = "idle"
    BY <1>2 DEF Arrive, tables
  <2>4. \A q \in Request \ {r} : input'[q] = input[q]
    BY <2>1 DEF IInv, ProcessInv
  <2>5. QED BY <2>2, <2>3, <2>4, QuietReads
<1>3. ASSUME NEW r \in Request, Step(r) \/ Fail(r), ~ ReadWorld(r), ~ ReadHistory(r) PROVE ReadInv'
  <2>1. UNCHANGED <<input, view>> /\ (order' = order \/ order' = Append(order, r)) /\ pc[r] # "idle"
    BY <1>3 DEF Step, Fail, BeginCreate, CommitCreate, Begin, UpsertUser, Claim, Insert, Commit, tables,
      Working, Holding
  <2>2. PICK c : pc' = [pc EXCEPT ![r] = c] /\ c # "idle" /\ c # "history"
    BY <1>3 DEF Step, Fail, BeginCreate, CommitCreate, Begin, UpsertUser, Claim, Insert, Commit,
      Goto, Answer
  <2>3. QED BY <2>1, <2>2, QuietReads
<1>4. QED BY <1>1, <1>2, <1>3, Reading DEF Next, Step

\* The tables, the requests and what they have read have their types, and a history
\* holds at most MaxLimit discoveries, whatever limit it is asked for with
\* (database.rs, discovery_history).
THEOREM TypeCorrect == Spec => []TypeOK
<1>1. Spec => []ReadInv
  BY Invariance, ReadInit, ReadKept, PTL DEF Spec
<1>2. IInv /\ ReadInv => TypeOK
  <2> SUFFICES ASSUME IInv, ReadInv PROVE TypeOK
    OBVIOUS
  <2>1. Range(order) \subseteq Discovery
    BY LenProperties DEF ReadInv, Range
  <2>2. \A r \in Request : since[r] \subseteq TransactionRow
    BY DEF IInv, ProcessInv
  <2>3. QED BY <2>1, <2>2 DEF IInv, ReadInv, TableInv, ProcessInv, TypeOK
<1>3. QED BY <1>1, <1>2, Invariance, PTL

-----------------------------------------------------------------------------
(* The refinement *)

LEMMA BookInit == Init => Book!Init
BY DEF Init, Book!Init, Book!Unclaimed, NewDiscovery

LEMMA CreateIsCreate == ASSUME IInv, NEW r \in Request, CommitCreate(r) PROVE Book!Next
<1>1. r \in Discovery /\ discoveries[r] = None
  BY LedgerAssumption DEF CommitCreate, IInv, FreshInv
<1>2. NewDiscovery(input[r].company) \in Book!Unclaimed
  BY DEF CommitCreate, IInv, PhaseInv, NewDiscovery, Book!Unclaimed
<1>3. Book!Create(r)
  BY <1>1, <1>2 DEF CommitCreate, Book!Create
<1>4. QED BY <1>1, <1>3 DEF Book!Next

LEMMA CommitIsRecord == ASSUME IInv, NEW r \in Request, Commit(r) PROVE Book!Next
<1> DEFINE d == input[r].discovery
           hash == input[r].hash
<1>1. hash \in Hash /\ d \in Discovery \cup {None}
  BY RecordFields DEF Commit, IInv, PhaseInv, Recording
<1>2. \A entry \in transactions : entry.hash # hash
  BY DEF Commit, IInv, NewInv, Recorded
<1>3. d # None => Book!Claimable(d, hash)
  BY DEF Commit, IInv, ClaimInv, Claimable, Buyer, Book!Claimable
<1>4. transactions' = transactions \cup {Book!Entry(hash, d)}
  BY DEF Commit, Entry, Book!Entry
<1>5. Book!Record(hash, d)
  BY <1>2, <1>3, <1>4 DEF Commit, Buyer, Book!Record
<1>6. QED BY <1>1, <1>5 DEF Book!Next

LEMMA BookStep == IInv /\ [Next]_vars => [Book!Next]_<<discoveries, transactions>>
<1> SUFFICES ASSUME IInv, [Next]_vars, ~ UNCHANGED <<discoveries, transactions>> PROVE Book!Next
  OBVIOUS
<1>1. PICK r \in Request : Arrive(r) \/ Step(r) \/ Fail(r)
  BY DEF Next, vars, tables
<1>2. CommitCreate(r) \/ Commit(r)
  BY <1>1 DEF Step, Arrive, Fail, BeginCreate, Begin, UpsertUser, Claim, Insert, ReadWorld, ReadHistory,
    tables
<1>3. QED BY <1>2, CreateIsCreate, CommitIsRecord

\* The ledger implements the book: a purchase appears together with the claim of its
\* discovery and never again, and every failure, race and retry is invisible.
THEOREM Refinement == Spec => ImplementsBook
BY BookInit, BookStep, Invariance, PTL DEF Spec, ImplementsBook, Book!Spec

=============================================================================
