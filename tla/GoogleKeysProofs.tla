--------------------------- MODULE GoogleKeysProofs ---------------------------
(***************************************************************************)
(* Proofs about GoogleKeys, for every set of requests and keys, every      *)
(* timeout and max-age, and every length of the run.                       *)
(*                                                                         *)
(* The bound on withdrawn keys is not inductive: whether a key may be used *)
(* depends on when the answer that listed it was given.  The invariant     *)
(* follows the age of a key from the answer (BodyInv: a key listed there   *)
(* was still published when the request began) through the limit on a      *)
(* fetch (FetchInv) into the expiry of the cache (CacheInv).               *)
(***************************************************************************)
EXTENDS GoogleKeys, TLAPS

\* A request has a token from its arrival on, and its fetch keeps within Timeout.
FetchInv ==
  \A r \in Request :
    /\ pc[r] # "idle" => token[r] # None
    /\ begun[r] <= now
    /\ pc[r] \in Fetching => now <= begun[r] + Timeout /\ begun[r] < token[r].exp
    /\ pc[r] \in {"accepted", "unknown_key"} => ended[r] <= now

\* What the answer to a fetch lists was published when the request began or later;
\* what it lacks was not published all the time since then.
BodyInv ==
  \A r \in Request : pc[r] = "read" =>
    /\ body[r] # None
    /\ \A k \in body[r].keys :
         since[k] # None /\ (until[k] # None => begun[r] <= until[k])
    /\ \A k \in Key \ body[r].keys :
         since[k] = None \/ since[k] >= begun[r] \/ until[k] # None

\* The cache expires at most one fetch and one max-age after a key in it was withdrawn.
CacheInv ==
  /\ cache.expires <= now + MaxTtl
  /\ \A k \in cache.keys :
       since[k] # None /\ (until[k] # None => cache.expires <= until[k] + Timeout + MaxTtl)

WithdrawalInv == \A k \in Key : until[k] # None => until[k] <= now

IInv ==
  /\ TypeOK
  /\ FetchInv
  /\ BodyInv
  /\ CacheInv
  /\ WithdrawalInv
  /\ WithdrawnKeyExpires
  /\ PublishedKeyFound
  /\ ExpiredTokenBound

-----------------------------------------------------------------------------
(* Records and their fields *)

LEMMA TokenFacts == \A t \in Token : t # None /\ t.kid \in Key /\ t.exp \in Nat
BY BoundsAssumption, NoneAssumption DEF Token

LEMMA KeySetFacts == \A b \in KeySet : b # None /\ b.ttl \in 0..MaxTtl /\ b.keys \subseteq Key
BY NoneAssumption DEF KeySet, Ttl

-----------------------------------------------------------------------------

LEMMA InvariantInit == Init => IInv
<1> SUFFICES ASSUME Init PROVE IInv
  OBVIOUS
<1>1. TypeOK
  BY BoundsAssumption DEF Init, TypeOK, KeyCache
<1>2. FetchInv /\ BodyInv /\ CacheInv /\ WithdrawalInv
  BY BoundsAssumption DEF Init, FetchInv, BodyInv, CacheInv, WithdrawalInv, Fetching
<1>3. WithdrawnKeyExpires /\ PublishedKeyFound /\ ExpiredTokenBound
  BY DEF Init, WithdrawnKeyExpires, PublishedKeyFound, ExpiredTokenBound
<1>4. QED BY <1>1, <1>2, <1>3 DEF IInv

-----------------------------------------------------------------------------

LEMMA TypeStep == TypeOK /\ BodyInv /\ [Next]_vars => TypeOK'
<1> SUFFICES ASSUME TypeOK, BodyInv, [Next]_vars PROVE TypeOK'
  OBVIOUS
<1> USE BoundsAssumption DEF TypeOK, Fetching, Outcome
<1>1. ASSUME NEW r \in Request, Arrive(r) PROVE TypeOK'
  BY <1>1 DEF Arrive, Verify, Refuse, Answer, google
<1>2. ASSUME NEW r \in Request, Serve(r) PROVE TypeOK'
  BY <1>2 DEF Serve, google, Published, KeySet
<1>3. ASSUME NEW r \in Request, Store(r) PROVE TypeOK'
  <2>1. CASE token[r].kid \notin body[r].keys
    BY <1>3, <2>1 DEF Store, Answer, Consumed, google, Verify, Refuse
  <2>2. CASE token[r].kid \in body[r].keys
    <3>1. cache' \in KeyCache
      <4>1. body[r] \in KeySet
        BY <1>3 DEF Store, BodyInv
      <4>2. QED BY <4>1, <1>3, <2>2, KeySetFacts DEF Store, KeyCache
    <3>2. QED BY <1>3, <2>2, <3>1 DEF Store, Answer, Consumed, google, Verify, Refuse
  <2>3. QED BY <2>1, <2>2
<1>4. ASSUME NEW r \in Request, Fail(r) PROVE TypeOK'
  BY <1>4 DEF Fail, Refuse, Consumed, google
<1>5. ASSUME NEW k \in Key, Publish(k) \/ Withdraw(k) PROVE TypeOK'
  BY <1>5 DEF Publish, Withdraw, requests
<1>6. CASE Tick
  BY <1>6 DEF Tick, google, requests
<1>7. CASE UNCHANGED vars
  BY <1>7 DEF vars, google, requests
<1>8. QED BY <1>1, <1>2, <1>3, <1>4, <1>5, <1>6, <1>7 DEF Next
-----------------------------------------------------------------------------
(* The parts of the invariant, each against every action *)

LEMMA FetchStep ==
  ASSUME IInv, [Next]_vars
  PROVE  FetchInv'
<1> USE BoundsAssumption DEF IInv, TypeOK, FetchInv, Fetching, google, requests
<1>1. ASSUME NEW r \in Request, Arrive(r) PROVE FetchInv'
  <2>1. PICK t \in Token :
          /\ token' = [token EXCEPT ![r] = t]
          /\ \/ t.exp > now /\ pc' = [pc EXCEPT ![r] = "send"] /\ UNCHANGED ended
             \/ pc' = [pc EXCEPT ![r] = "accepted"] /\ ended' = [ended EXCEPT ![r] = now]
             \/ pc' = [pc EXCEPT ![r] = "refused"] /\ UNCHANGED ended
    BY <1>1 DEF Arrive, Verify, Refuse, Answer
  <2>2. t # None /\ t.exp \in Nat
    BY <2>1, TokenFacts
  <2>3. QED BY <1>1, <2>1, <2>2 DEF Arrive
<1>2. ASSUME NEW r \in Request, Serve(r) PROVE FetchInv'
  BY <1>2 DEF Serve
<1>3. ASSUME NEW r \in Request, Store(r) PROVE FetchInv'
  BY <1>3 DEF Store, Verify, Refuse, Answer
<1>4. ASSUME NEW r \in Request, Fail(r) PROVE FetchInv'
  BY <1>4 DEF Fail, Refuse
<1>5. ASSUME NEW k \in Key, Publish(k) \/ Withdraw(k) PROVE FetchInv'
  BY <1>5 DEF Publish, Withdraw
<1>6. CASE Tick
  BY <1>6 DEF Tick
<1>7. CASE UNCHANGED vars
  BY <1>7 DEF vars
<1>8. QED BY <1>1, <1>2, <1>3, <1>4, <1>5, <1>6, <1>7 DEF Next

LEMMA BodyStep ==
  ASSUME IInv, [Next]_vars
  PROVE  BodyInv'
<1> USE BoundsAssumption DEF IInv, TypeOK, BodyInv, Fetching, google, requests
<1>1. ASSUME NEW r \in Request, Arrive(r) PROVE BodyInv'
  BY <1>1 DEF Arrive, Verify, Refuse, Answer
<1>2. ASSUME NEW r \in Request, Serve(r) PROVE BodyInv'
  <2>1. PICK ttl \in Ttl : body' = [body EXCEPT ![r] = [ttl |-> ttl, keys |-> Published]]
    BY <1>2 DEF Serve
  <2>2. body'[r] = [ttl |-> ttl, keys |-> Published] /\ body'[r] \in KeySet
    BY <2>1 DEF KeySet, Published
  <2>3. QED BY <1>2, <2>1, <2>2, KeySetFacts DEF Serve, Published
<1>3. ASSUME NEW r \in Request, Store(r) \/ Fail(r) PROVE BodyInv'
  BY <1>3 DEF Store, Fail, Verify, Refuse, Answer, Consumed
<1>4. ASSUME NEW k \in Key, Publish(k) \/ Withdraw(k) PROVE BodyInv'
  <2>1. /\ \A j \in Key : since[j] # None => since'[j] = since[j]
        /\ \A j \in Key : since'[j] # None => since'[j] = since[j] \/ since'[j] = now
        /\ \A j \in Key : until[j] # None => until'[j] = until[j]
        /\ \A j \in Key : until'[j] # None => until'[j] = until[j] \/ until'[j] = now
        /\ UNCHANGED <<pc, begun, body>>
    BY <1>4 DEF Publish, Withdraw, Published
  <2>2. SUFFICES ASSUME NEW r \in Request, pc[r] = "read"
                 PROVE  /\ \A j \in body[r].keys :
                             since'[j] # None /\ (until'[j] # None => begun[r] <= until'[j])
                        /\ \A j \in Key \ body[r].keys :
                             since'[j] = None \/ since'[j] >= begun[r] \/ until'[j] # None
    BY <2>1
  <2>3. body[r].keys \subseteq Key
    BY <2>2, KeySetFacts
  <2>4. now \in Nat /\ begun[r] \in Nat /\ begun[r] <= now
    BY <2>2 DEF FetchInv
  <2>5. ASSUME NEW j \in body[r].keys
        PROVE  since'[j] # None /\ (until'[j] # None => begun[r] <= until'[j])
    BY <2>1, <2>2, <2>3, <2>4
  <2>6. ASSUME NEW j \in Key \ body[r].keys
        PROVE  since'[j] = None \/ since'[j] >= begun[r] \/ until'[j] # None
    BY <2>1, <2>2, <2>4
  <2>7. QED BY <2>5, <2>6
<1>5. CASE Tick \/ UNCHANGED vars
  BY <1>5 DEF Tick, vars
<1>6. QED BY <1>1, <1>2, <1>3, <1>4, <1>5 DEF Next

LEMMA CacheStep ==
  ASSUME IInv, [Next]_vars
  PROVE  CacheInv'
<1> USE BoundsAssumption DEF IInv, TypeOK, CacheInv, google, requests
<1>1. ASSUME UNCHANGED <<now, google, cache>> PROVE CacheInv'
  BY <1>1
<1>2. ASSUME NEW r \in Request, Store(r) PROVE CacheInv'
  <2>1. CASE token[r].kid \notin body[r].keys
    BY <1>1, <1>2, <2>1 DEF Store
  <2>2. CASE token[r].kid \in body[r].keys
    <3> DEFINE b == body[r]
    <3>1. b \in KeySet /\ pc[r] = "read"
      BY <1>2 DEF Store, BodyInv
    <3>2. cache'.expires = now + b.ttl /\ cache'.keys = b.keys /\ UNCHANGED <<now, google>>
      BY <1>2, <2>2 DEF Store
    <3>3. b.ttl \in 0..MaxTtl /\ b.keys \subseteq Key
      BY <3>1, KeySetFacts
    <3>4. begun[r] \in Nat /\ now \in Nat /\ now <= begun[r] + Timeout
      BY <3>1 DEF FetchInv, Fetching
    <3>5. \A k \in b.keys :
            since[k] # None /\ (until[k] # None => until[k] \in Nat /\ begun[r] <= until[k])
      BY <3>1, <3>3 DEF BodyInv
    <3>6. QED BY <3>2, <3>3, <3>4, <3>5
  <2>3. QED BY <2>1, <2>2
<1>3. ASSUME NEW k \in Key, Publish(k) \/ Withdraw(k) PROVE CacheInv'
  <2>1. cache.keys \subseteq Key /\ cache.expires \in Nat
    BY DEF KeyCache
  <2>2. /\ \A j \in Key : since[j] # None => since'[j] = since[j]
        /\ \A j \in Key : until'[j] # None => until'[j] = until[j] \/ until'[j] = now
        /\ UNCHANGED <<now, cache>>
    BY <1>3 DEF Publish, Withdraw
  <2>3. QED BY <2>1, <2>2
<1>4. CASE Tick
  BY <1>4 DEF Tick, KeyCache
<1>5. QED BY <1>1, <1>2, <1>3, <1>4 DEF Next, vars, Arrive, Serve, Fail

LEMMA WithdrawalStep ==
  ASSUME IInv, [Next]_vars
  PROVE  WithdrawalInv'
BY BoundsAssumption DEF IInv, TypeOK, WithdrawalInv, Next, vars, google, requests, Arrive, Serve,
  Store, Fail, Publish, Withdraw, Tick

-----------------------------------------------------------------------------
(* The properties: what is settled stays, and what a step settles is in bounds *)

\* An outcome, and the request it belongs to, are never touched again.
LEMMA OutcomeStays ==
  ASSUME IInv, [Next]_vars, NEW q \in Request, pc[q] \in Outcome
  PROVE  /\ pc'[q] = pc[q] /\ token'[q] = token[q]
         /\ begun'[q] = begun[q] /\ ended'[q] = ended[q]
BY DEF IInv, TypeOK, Outcome, Fetching, Next, vars, google, requests, Arrive, Serve, Store, Fail,
  Publish, Withdraw, Tick, Verify, Refuse, Answer

\* A key is published at most once, withdrawn at most once, and in the present.
LEMMA KeyHistory ==
  ASSUME IInv, [Next]_vars, NEW k \in Key
  PROVE  /\ since[k] # None => since'[k] = since[k]
         /\ since'[k] = since[k] \/ (since'[k] = now /\ pc' = pc)
         /\ until[k] # None => until'[k] = until[k]
         /\ until'[k] # None => until'[k] = until[k] \/ (until'[k] = now /\ pc' = pc)
BY DEF IInv, TypeOK, Next, vars, google, requests, Arrive, Serve, Store, Fail,
  Publish, Withdraw, Tick, Published

\* The two steps that accept a token, and what they find.
LEMMA Accepting ==
  ASSUME IInv, [Next]_vars, NEW q \in Request, pc[q] # "accepted", pc'[q] = "accepted"
  PROVE  /\ UNCHANGED <<now, google>> /\ ended'[q] = now
         /\ \/ /\ token'[q].kid \in cache.keys
               /\ cache.expires > now
               /\ token'[q].exp > now
            \/ /\ pc[q] = "read"
               /\ token'[q] = token[q]
               /\ token[q].kid \in body[q].keys
<1> USE DEF IInv, TypeOK
<1>1. PICK r \in Request : Arrive(r) \/ Store(r)
  BY DEF Next, vars, google, requests, Serve, Fail, Refuse, Publish, Withdraw, Tick
<1>2. r = q
  BY <1>1 DEF Arrive, Store, Verify, Refuse, Answer
<1>3. CASE Arrive(q)
  BY <1>3 DEF Arrive, Verify, Refuse, Answer, Cached
<1>4. CASE Store(q)
  BY <1>4 DEF Store, Verify, Refuse, Answer
<1>5. QED BY <1>1, <1>2, <1>3, <1>4

LEMMA WithdrawnKeyStep ==
  ASSUME IInv, [Next]_vars
  PROVE  WithdrawnKeyExpires'
<1> USE BoundsAssumption DEF IInv, TypeOK
<1> SUFFICES ASSUME NEW q \in Request, pc'[q] = "accepted"
             PROVE  LET k == token'[q].kid IN
                    /\ since'[k] # None
                    /\ until'[k] # None => ended'[q] <= until'[k] + Timeout + MaxTtl
  BY DEF WithdrawnKeyExpires
<1> DEFINE k == token'[q].kid
<1>1. k \in Key
  <2>1. token'[q] \in Token
    BY TypeStep, FetchStep DEF FetchInv
  <2>2. QED BY <2>1, TokenFacts
<1>2. CASE pc[q] = "accepted"
  <2>1. pc'[q] = pc[q] /\ token'[q] = token[q] /\ ended'[q] = ended[q]
    BY <1>2, OutcomeStays DEF Outcome
  <2>2. ended[q] \in Nat /\ ended[q] <= now /\ now \in Nat
    BY <1>2 DEF FetchInv
  <2>3. since[k] # None /\ (until[k] # None => ended[q] <= until[k] + Timeout + MaxTtl)
    BY <1>2, <2>1 DEF WithdrawnKeyExpires
  <2>4. QED BY <1>1, <2>1, <2>2, <2>3, KeyHistory
<1>3. CASE pc[q] # "accepted"
  <2>1. UNCHANGED <<now, google>> /\ ended'[q] = now
    BY <1>3, Accepting
  <2>2. CASE k \in cache.keys /\ cache.expires > now
    BY <1>1, <2>1, <2>2 DEF CacheInv, KeyCache, google
  <2>3. CASE pc[q] = "read" /\ k \in body[q].keys
    <3>1. since[k] # None /\ (until[k] # None => begun[q] <= until[k])
      BY <2>3 DEF BodyInv
    <3>2. now <= begun[q] + Timeout
      BY <2>3 DEF FetchInv, Fetching
    <3>3. QED BY <1>1, <2>1, <3>1, <3>2 DEF google
  <2>4. QED BY <1>3, <2>2, <2>3, Accepting
<1>4. QED BY <1>2, <1>3

LEMMA ExpiredTokenStep ==
  ASSUME IInv, [Next]_vars
  PROVE  ExpiredTokenBound'
<1> USE BoundsAssumption DEF IInv, TypeOK
<1> SUFFICES ASSUME NEW q \in Request, pc'[q] = "accepted"
             PROVE  ended'[q] < token'[q].exp + Timeout
  BY DEF ExpiredTokenBound
<1>1. CASE pc[q] = "accepted"
  BY <1>1, OutcomeStays DEF Outcome, ExpiredTokenBound
<1>2. CASE pc[q] # "accepted"
  <2>1. ended'[q] = now
    BY <1>2, Accepting
  <2>2. token'[q].exp \in Nat
    BY TypeStep, FetchStep, TokenFacts DEF FetchInv
  <2>3. CASE token'[q].exp > now
    BY <2>1, <2>2, <2>3
  <2>4. CASE pc[q] = "read" /\ token'[q] = token[q]
    BY <2>1, <2>2, <2>4 DEF FetchInv, Fetching
  <2>5. QED BY <1>2, <2>3, <2>4, Accepting
<1>3. QED BY <1>1, <1>2

LEMMA PublishedKeyStep ==
  ASSUME IInv, [Next]_vars
  PROVE  PublishedKeyFound'
<1> USE BoundsAssumption DEF IInv, TypeOK
<1> SUFFICES ASSUME NEW q \in Request, pc'[q] = "unknown_key"
             PROVE  LET k == token'[q].kid IN
                    \/ since'[k] = None
                    \/ since'[k] >= begun'[q]
                    \/ until'[k] # None /\ until'[k] <= ended'[q]
  BY DEF PublishedKeyFound
<1> DEFINE k == token'[q].kid
<1>1. k \in Key
  <2>1. token'[q] \in Token
    BY TypeStep, FetchStep DEF FetchInv
  <2>2. QED BY <2>1, TokenFacts
<1>2. CASE pc[q] = "unknown_key"
  <2>1. /\ token'[q] = token[q] /\ begun'[q] = begun[q] /\ ended'[q] = ended[q]
    BY <1>2, OutcomeStays DEF Outcome
  <2>2. begun[q] \in Nat /\ now \in Nat /\ begun[q] <= now
    BY <1>2 DEF FetchInv
  <2>3. since[k] = None \/ since[k] >= begun[q] \/ (until[k] # None /\ until[k] <= ended[q])
    BY <1>2, <2>1 DEF PublishedKeyFound
  <2>4. QED BY <1>1, <2>1, <2>2, <2>3, KeyHistory
<1>3. CASE pc[q] # "unknown_key"
  <2>1. Store(q) /\ token[q].kid \notin body[q].keys /\ ended'[q] = now
    BY <1>3 DEF Next, vars, google, requests, Arrive, Serve, Store, Fail, Publish, Withdraw, Tick,
      Verify, Refuse, Answer
  <2>2. pc[q] = "read" /\ UNCHANGED <<now, google, token, begun>>
    BY <2>1 DEF Store
  <2>3. since[k] = None \/ since[k] >= begun[q] \/ until[k] # None
    BY <1>1, <2>1, <2>2 DEF BodyInv
  <2>4. until[k] # None => until[k] <= now
    BY <1>1 DEF WithdrawalInv
  <2>5. QED BY <2>1, <2>2, <2>3, <2>4 DEF google
<1>4. QED BY <1>2, <1>3

-----------------------------------------------------------------------------

LEMMA Invariance == Spec => []IInv
<1>1. IInv /\ [Next]_vars => IInv'
  <2>1. IInv /\ [Next]_vars => TypeOK'
    BY TypeStep DEF IInv
  <2>2. QED BY <2>1, FetchStep, BodyStep, CacheStep, WithdrawalStep, WithdrawnKeyStep,
    PublishedKeyStep, ExpiredTokenStep DEF IInv
<1>2. QED BY InvariantInit, <1>1, PTL DEF Spec

\* Type correctness.
THEOREM TypeCorrect == Spec => []TypeOK
BY Invariance, PTL DEF IInv

\* No interleaving of concurrent fetches lets a withdrawn key be used for longer than
\* one fetch and one max-age.
THEOREM KeysExpire == Spec => []WithdrawnKeyExpires
BY Invariance, PTL DEF IInv

\* No interleaving of concurrent fetches makes a published key unknown to a request.
THEOREM KeysFound == Spec => []PublishedKeyFound
BY Invariance, PTL DEF IInv

\* No accepted token had expired longer than one fetch ago.
THEOREM TokensExpire == Spec => []ExpiredTokenBound
BY Invariance, PTL DEF IInv

=============================================================================
