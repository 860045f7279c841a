----------------------------- MODULE GoogleKeys -----------------------------
(***************************************************************************)
(* GoogleVerifier (google.rs): ID tokens are verified with the signing     *)
(* keys Google publishes, which all requests share through one cache with  *)
(* an expiry.  A key that is not in a fresh cache is fetched; requests     *)
(* fetch concurrently, and the last one to finish replaces the cache.      *)
(*                                                                         *)
(* Google publishes and withdraws keys at any moment.  Time is discrete;   *)
(* it stands still while a fetch is at the limit the HTTP client sets, so  *)
(* that every fetch ends in time.  Steps without an await take no time.    *)
(***************************************************************************)
EXTENDS Integers

CONSTANTS
  Request,  \* calls of verify, each made once
  Key,      \* key ids
  Timeout,  \* limit on one fetch (10 s in new)
  MaxTtl,   \* the longest max-age that Google sends
  Expiry,   \* when tokens expire
  Horizon,  \* bound on the clock
  None      \* not yet

ASSUME BoundsAssumption ==
  /\ Timeout \in Nat
  /\ MaxTtl \in Nat
  /\ Expiry \subseteq Nat
  /\ Horizon \in Nat
  /\ None \notin Int

VARIABLES
  now,   \* the clock
  since, \* Google: when each key was published
  until, \* Google: when each key was withdrawn
  cache, \* GoogleVerifier.cache
  token, \* key id and expiry of the token of each request
  pc,    \* where each request is, or how it ended
  begun, \* when each request arrived, which is when it sends its fetch
  body,  \* the answer to each request's fetch
  ended  \* when each request was accepted, or told that the key is unknown

google == <<since, until>>
requests == <<token, pc, begun, body, ended>>
vars == <<now, google, cache, requests>>

-----------------------------------------------------------------------------

Ttl == 0..MaxTtl
KeyCache == [expires : Nat, keys : SUBSET Key]
Token == [kid : Key, exp : Expiry]
KeySet == [ttl : Ttl, keys : SUBSET Key]

ASSUME NoneAssumption == None \notin Token \cup KeySet

Fetching == {"send", "read"}
Outcome == {"accepted", "unknown_key", "refused"}

TypeOK ==
  /\ now \in Nat
  /\ since \in [Key -> Nat \cup {None}]
  /\ until \in [Key -> Nat \cup {None}]
  /\ cache \in KeyCache
  /\ token \in [Request -> Token \cup {None}]
  /\ pc \in [Request -> Fetching \cup Outcome \cup {"idle"}]
  /\ begun \in [Request -> Nat]
  /\ body \in [Request -> KeySet \cup {None}]
  /\ ended \in [Request -> Nat]

-----------------------------------------------------------------------------
(* Helpers *)

Published == {k \in Key : since[k] # None /\ until[k] = None}

\* cached_key
Cached(k) == cache.expires > now /\ k \in cache.keys

Answer(r, outcome) ==
  /\ pc' = [pc EXCEPT ![r] = outcome]
  /\ ended' = [ended EXCEPT ![r] = now]

Consumed(r) == body' = [body EXCEPT ![r] = None]

\* VerifyError::Invalid for any other reason, and VerifyError::Unavailable.
Refuse(r) == pc' = [pc EXCEPT ![r] = "refused"] /\ UNCHANGED ended

\* The signature is checked with the key that was found, and it may be wrong.
Verify(r) == Answer(r, "accepted") \/ Refuse(r)

-----------------------------------------------------------------------------
(* verify and key *)

\* Mutant: the expiry of the token is not checked.
ArriveUnchecked(r) ==
  /\ pc[r] = "idle"
  /\ begun' = [begun EXCEPT ![r] = now]
  /\ \E t \in Token :
       /\ token' = [token EXCEPT ![r] = t]
       /\ IF Cached(t.kid)
          THEN Verify(r)
          ELSE pc' = [pc EXCEPT ![r] = "send"] /\ UNCHANGED ended
  /\ UNCHANGED <<now, google, cache, body>>

\* The claims are checked once, before the key is looked up.
Arrive(r) ==
  /\ pc[r] = "idle"
  /\ begun' = [begun EXCEPT ![r] = now]
  /\ \E t \in Token :
       /\ token' = [token EXCEPT ![r] = t]
       /\ \/ t.exp <= now /\ Refuse(r)
          \/ t.exp > now /\ Cached(t.kid) /\ Verify(r)
          \/ /\ t.exp > now
             /\ ~ Cached(t.kid)
             /\ pc' = [pc EXCEPT ![r] = "send"]
             /\ UNCHANGED ended
  /\ UNCHANGED <<now, google, cache, body>>

\* Mutant: an answer from somewhere on the way lists the keys of the cache.
ServeFromCache(r) ==
  /\ pc[r] = "send"
  /\ \E ttl \in Ttl : body' = [body EXCEPT ![r] = [ttl |-> ttl, keys |-> cache.keys]]
  /\ pc' = [pc EXCEPT ![r] = "read"]
  /\ UNCHANGED <<now, google, cache, token, begun, ended>>

\* Google answers with the keys it publishes and a max-age (DEFAULT_CACHE_TTL if
\* the header is missing).
Serve(r) ==
  /\ pc[r] = "send"
  /\ \E ttl \in Ttl : body' = [body EXCEPT ![r] = [ttl |-> ttl, keys |-> Published]]
  /\ pc' = [pc EXCEPT ![r] = "read"]
  /\ UNCHANGED <<now, google, cache, token, begun, ended>>

\* Mutant: the cache keeps the max-age itself, which the header may lack.
StoreHeader(r) ==
  /\ pc[r] = "read"
  /\ cache' = [expires |-> None, keys |-> body[r].keys]
  /\ Verify(r)
  /\ Consumed(r)
  /\ UNCHANGED <<now, google, token, begun>>

\* The body has been read: an answer without the key changes nothing, any other
\* replaces the cache, whatever another request stored meanwhile.
Store(r) ==
  /\ pc[r] = "read"
  /\ \/ /\ token[r].kid \notin body[r].keys
        /\ Answer(r, "unknown_key")
        /\ UNCHANGED cache
     \/ /\ token[r].kid \in body[r].keys
        /\ cache' = [expires |-> now + body[r].ttl, keys |-> body[r].keys]
        /\ Verify(r)
  /\ Consumed(r)
  /\ UNCHANGED <<now, google, token, begun>>

\* The fetch fails, is answered with an error or takes longer than Timeout.
Fail(r) ==
  /\ pc[r] \in Fetching
  /\ Refuse(r)
  /\ Consumed(r)
  /\ UNCHANGED <<now, google, cache, token, begun>>

-----------------------------------------------------------------------------
(* Google and the clock *)

Publish(k) ==
  /\ since[k] = None
  /\ since' = [since EXCEPT ![k] = now]
  /\ UNCHANGED <<now, until, cache, requests>>

Withdraw(k) ==
  /\ k \in Published
  /\ until' = [until EXCEPT ![k] = now]
  /\ UNCHANGED <<now, since, cache, requests>>

\* Mutant: the HTTP client is built without a timeout.
TickUnbounded ==
  /\ now < Horizon
  /\ now' = now + 1
  /\ UNCHANGED <<google, cache, requests>>

Tick ==
  /\ now < Horizon
  /\ \A r \in Request : pc[r] \in Fetching => now < begun[r] + Timeout
  /\ now' = now + 1
  /\ UNCHANGED <<google, cache, requests>>

Init ==
  /\ now = 0
  /\ since = [k \in Key |-> None]
  /\ until = [k \in Key |-> None]
  /\ cache = [expires |-> 0, keys |-> {}]
  /\ token = [r \in Request |-> None]
  /\ pc = [r \in Request |-> "idle"]
  /\ begun = [r \in Request |-> 0]
  /\ body = [r \in Request |-> None]
  /\ ended = [r \in Request |-> 0]

Next ==
  \/ \E r \in Request : Arrive(r) \/ Serve(r) \/ Store(r) \/ Fail(r)
  \/ \E k \in Key : Publish(k) \/ Withdraw(k)
  \/ Tick

Spec == Init /\ [][Next]_vars

-----------------------------------------------------------------------------
(* Properties *)

\* A withdrawn key goes out of use: no token is accepted with it later than one fetch
\* and one max-age after Google withdrew it, in whatever order the answers of
\* concurrent fetches were stored; and only keys that Google published are accepted.
WithdrawnKeyExpires ==
  \A r \in Request : pc[r] = "accepted" =>
    LET k == token[r].kid IN
    /\ since[k] # None
    /\ until[k] # None => ended[r] <= until[k] + Timeout + MaxTtl

\* A key rotation locks nobody out: a key that Google published before a request
\* arrived and did not withdraw until after its answer is never unknown to it,
\* however old the cache is and whatever replaced it.
PublishedKeyFound ==
  \A r \in Request : pc[r] = "unknown_key" =>
    LET k == token[r].kid IN
    \/ since[k] = None
    \/ since[k] >= begun[r]
    \/ until[k] # None /\ until[k] <= ended[r]

\* The claims are checked before the fetch is awaited, so an accepted token may have
\* expired, but by less than the time a fetch may take.
ExpiredTokenBound ==
  \A r \in Request : pc[r] = "accepted" => ended[r] < token[r].exp + Timeout

=============================================================================
