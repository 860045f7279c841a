--------------------------- MODULE DiscoveryProofs ---------------------------
(***************************************************************************)
(* Proofs about Discovery and LinkFetch, for every number of overlapping   *)
(* calls and requests, every Web and every catalog.                        *)
(*                                                                         *)
(* That a shown answer is stale only if it was overtaken is true of the    *)
(* screen because it is true of every call that may still be shown         *)
(* (CallInv); that a connection is made to a public address, because the   *)
(* address was checked when the request was sent to it (FetchInv).         *)
(***************************************************************************)
EXTENDS Discovery, CatalogProofs

\* A request goes to an address that was checked, and redirects are counted.
FetchInv ==
  /\ DOMAIN fetches = Request
  /\ \A r \in Request : fetches[r] # None =>
       /\ fetches[r] \in Fetch
       /\ fetches[r].redirects <= MAX_REDIRECTS
       /\ fetches[r].peers \subseteq Public
       /\ fetches[r].pc = "get" => fetches[r].address \in Public

\* A call is about what was asked last, or has been overtaken.
CallInv ==
  /\ kind \in {"search", "link", "lens"}
  /\ calls \in [Request -> Call \cup {None}]
  /\ \A r \in Request : calls[r] # None =>
       /\ calls[r].pc \in {"capture", "analyze"} => kind = "lens"
       /\ calls[r].pc = "served" => kind = "link"
       /\ calls[r].pc # "capture" => calls[r].of \in Inputs
       /\ calls[r].pc # "capture" /\ calls[r].of # latest => calls[r].overtaken

\* What is on the screen came from a call, and is what its kind of call answers.
ScreenInv ==
  /\ IsScreen(screen)
  /\ latest \in Inputs \cup {None}
  /\ ShownIsAnswer

CompanySlugs == SlugsOf(DOMAIN Companies)

IInv ==
  /\ FetchInv
  /\ CallInv
  /\ ScreenInv
  /\ passport \in Passport \cup {None}
  /\ StaleOnlyWhenOvertaken

-----------------------------------------------------------------------------
(* Resolving a link *)

\* A request whose next state is good keeps the others as they are.
LEMMA GotoKeeps ==
  ASSUME FetchInv, NEW r \in Request, NEW f,
         Goto(r, f),
         f = None \/ (/\ f \in Fetch
                      /\ f.redirects <= MAX_REDIRECTS
                      /\ f.peers \subseteq Public
                      /\ f.pc = "get" => f.address \in Public)
  PROVE  FetchInv'
BY DEF FetchInv, Goto

\* What a connection leaves is as good as the request before it.
LEMMA ConnectedFacts ==
  ASSUME FetchInv, NEW r \in Request, At(r, "get")
  PROVE  /\ Connected(r) \in Fetch
         /\ Connected(r).redirects = fetches[r].redirects
         /\ Connected(r).redirects \in Nat /\ Connected(r).redirects <= MAX_REDIRECTS
         /\ Connected(r).peers \subseteq Public
<1>1. /\ fetches[r] \in Fetch /\ fetches[r].redirects <= MAX_REDIRECTS
      /\ fetches[r].peers \subseteq Public /\ fetches[r].address \in Public
  BY DEF FetchInv, At
<1>2. fetches[r].peers \cup {fetches[r].address} \subseteq Public
  BY <1>1
<1>3. QED BY <1>1, <1>2, WebAssumption DEF Connected, Fetch

LEMMA LookupKeeps == ASSUME FetchInv, NEW r \in Request, Lookup(r) PROVE FetchInv'
<1>1. fetches[r] \in Fetch /\ fetches[r].redirects <= MAX_REDIRECTS /\ fetches[r].peers \subseteq Public
  BY DEF Lookup, At, FetchInv
<1>2. ASSUME NEW error \in Error, End(r, error) PROVE FetchInv'
  <2> DEFINE f == [fetches[r] EXCEPT !.pc = "done", !.error = error]
  <2>1. /\ f \in Fetch /\ f.redirects <= MAX_REDIRECTS /\ f.peers \subseteq Public /\ f.pc = "done"
    BY <1>1 DEF Fetch, Awaiting
  <2>2. QED BY <1>2, <2>1, GotoKeeps DEF End
<1>3. ASSUME NEW first \in Public, Goto(r, [fetches[r] EXCEPT !.pc = "get", !.address = first])
      PROVE  FetchInv'
  <2> DEFINE f == [fetches[r] EXCEPT !.pc = "get", !.address = first]
  <2>1. /\ f \in Fetch /\ f.redirects <= MAX_REDIRECTS /\ f.peers \subseteq Public
        /\ f.address \in Public
    BY <1>1, WebAssumption DEF Fetch, Awaiting
  <2>2. QED BY <1>3, <2>1, GotoKeeps
<1>4. QED BY <1>2, <1>3 DEF Lookup, Error

LEMMA NextHop ==
  ASSUME NEW old \in Fetch, NEW url \in Host
  PROVE  LET f == [old EXCEPT !.pc = "lookup", !.url = url, !.redirects = @ + 1]
         IN f \in Fetch /\ f.redirects = old.redirects + 1 /\ f.peers = old.peers /\ f.pc = "lookup"
<1> DEFINE hops == old.redirects + 1
           f == [old EXCEPT !.pc = "lookup", !.url = url, !.redirects = hops]
<1>1. hops \in Nat
  BY DEF Fetch
<1>2. f \in Fetch /\ f.redirects = hops /\ f.peers = old.peers /\ f.pc = "lookup"
  <2> HIDE DEF hops
  <2> QED BY <1>1 DEF Fetch, Awaiting
<1>3. QED BY <1>2

LEMMA RedirectKeeps == ASSUME FetchInv, NEW r \in Request, Redirect(r) PROVE FetchInv'
<1>1. /\ Connected(r) \in Fetch
      /\ Connected(r).redirects = fetches[r].redirects
      /\ Connected(r).redirects \in Nat /\ Connected(r).redirects <= MAX_REDIRECTS
      /\ Connected(r).peers \subseteq Public
  BY ConnectedFacts DEF Redirect
<1> DEFINE refusal(location) ==
      IF fetches[r].redirects >= MAX_REDIRECTS \/ location \in {Broken, None}
      THEN "RedirectNotAllowed" ELSE Invalid(location)
<1>2. PICK location \in Url \cup {None} :
        Goto(r, IF refusal(location) = None
                THEN [Connected(r) EXCEPT !.pc = "lookup", !.url = location, !.redirects = @ + 1]
                ELSE [Connected(r) EXCEPT !.pc = "done", !.error = refusal(location)])
  BY DEF Redirect
<1>3. CASE refusal(location) = None
  <2> DEFINE f == [Connected(r) EXCEPT !.pc = "lookup", !.url = location, !.redirects = @ + 1]
  <2>1. location \in Host /\ fetches[r].redirects < MAX_REDIRECTS
    <3>1. ~ (fetches[r].redirects >= MAX_REDIRECTS) /\ location \in Url \ {Broken} /\ Invalid(location) = None
      BY <1>2, <1>3, FetchAssumption DEF Error
    <3>2. location \in Host
      BY <3>1, FetchAssumption DEF Invalid, Url, Error
    <3>3. QED BY <1>1, <3>1, <3>2, WebAssumption
  <2>2. f \in Fetch /\ f.redirects <= MAX_REDIRECTS /\ f.peers \subseteq Public /\ f.pc = "lookup"
    <3>1. f \in Fetch /\ f.redirects = Connected(r).redirects + 1 /\ f.peers = Connected(r).peers
          /\ f.pc = "lookup"
      BY <1>1, <2>1, NextHop
    <3>2. QED BY <1>1, <2>1, <3>1, WebAssumption
  <2>3. QED BY <1>2, <1>3, <2>2, GotoKeeps
<1>4. CASE refusal(location) # None
  <2> DEFINE f == [Connected(r) EXCEPT !.pc = "done", !.error = refusal(location)]
  <2>1. refusal(location) \in Error
    BY <1>2, <1>4 DEF Invalid, Error
  <2>2. f \in Fetch /\ f.redirects <= MAX_REDIRECTS /\ f.peers \subseteq Public /\ f.pc = "done"
    BY <1>1, <2>1 DEF Fetch, Awaiting
  <2>3. QED BY <1>2, <1>4, <2>2, GotoKeeps
<1>5. QED BY <1>3, <1>4

LEMMA RespondKeeps == ASSUME FetchInv, NEW r \in Request, Respond(r) PROVE FetchInv'
<1>1. /\ Connected(r) \in Fetch
      /\ Connected(r).redirects <= MAX_REDIRECTS
      /\ Connected(r).peers \subseteq Public
  BY ConnectedFacts DEF Respond
<1>2. CASE Goto(r, [Connected(r) EXCEPT !.pc = "body"])
  <2> DEFINE f == [Connected(r) EXCEPT !.pc = "body"]
  <2>1. f \in Fetch /\ f.redirects <= MAX_REDIRECTS /\ f.peers \subseteq Public /\ f.pc = "body"
    BY <1>1 DEF Fetch, Awaiting
  <2>2. QED BY <1>2, <2>1, GotoKeeps
<1>3. ASSUME NEW error \in Error, Goto(r, [Connected(r) EXCEPT !.pc = "done", !.error = error])
      PROVE  FetchInv'
  <2> DEFINE f == [Connected(r) EXCEPT !.pc = "done", !.error = error]
  <2>1. f \in Fetch /\ f.redirects <= MAX_REDIRECTS /\ f.peers \subseteq Public /\ f.pc = "done"
    BY <1>1 DEF Fetch, Awaiting
  <2>2. QED BY <1>3, <2>1, GotoKeeps
<1>4. QED BY <1>2, <1>3 DEF Respond, Error

LEMMA ReadKeeps == ASSUME FetchInv, NEW r \in Request, Read(r) PROVE FetchInv'
<1>1. fetches[r] \in Fetch /\ fetches[r].redirects <= MAX_REDIRECTS /\ fetches[r].peers \subseteq Public
  BY DEF Read, At, FetchInv
<1>2. ASSUME NEW page \in Page, Goto(r, [fetches[r] EXCEPT !.pc = "done", !.page = page]) PROVE FetchInv'
  <2> DEFINE f == [fetches[r] EXCEPT !.pc = "done", !.page = page]
  <2>1. f \in Fetch /\ f.redirects <= MAX_REDIRECTS /\ f.peers \subseteq Public /\ f.pc = "done"
    BY <1>1 DEF Fetch, Awaiting
  <2>2. QED BY <1>2, <2>1, GotoKeeps
<1>3. ASSUME NEW error \in Error, End(r, error) PROVE FetchInv'
  <2> DEFINE f == [fetches[r] EXCEPT !.pc = "done", !.error = error]
  <2>1. f \in Fetch /\ f.redirects <= MAX_REDIRECTS /\ f.peers \subseteq Public /\ f.pc = "done"
    BY <1>1 DEF Fetch, Awaiting
  <2>2. QED BY <1>3, <2>1, GotoKeeps DEF End
<1>4. QED BY <1>2, <1>3 DEF Read, Error

LEMMA ResolveKeeps == ASSUME FetchInv, NEW r \in Request, NEW url \in Url, Resolve(r, url) PROVE FetchInv'
<1> DEFINE f == [pc |-> "lookup", url |-> url, redirects |-> 0, address |-> None,
                 peers |-> {}, page |-> None, error |-> None]
<1>1. url \in Host
  BY FetchAssumption DEF Resolve, Invalid, Url, Error
<1>2. f \in Fetch /\ f.redirects <= MAX_REDIRECTS /\ f.peers \subseteq Public /\ f.pc = "lookup"
  BY <1>1, WebAssumption DEF Fetch, Awaiting
<1>3. QED BY <1>2, GotoKeeps DEF Resolve

-----------------------------------------------------------------------------
(* Calls and screens *)

LEMMA CallFacts ==
  ASSUME CallInv, NEW call \in Call
  PROVE  /\ call # None
         /\ call.pc \in {"capture", "analyze", "sent", "served"}
         /\ call.of \in Inputs \cup {None}
         /\ Overtaken(call) \in Call
         /\ Overtaken(call).overtaken = TRUE
         /\ Overtaken(call).pc = call.pc /\ Overtaken(call).of = call.of
<1>1. call # None
  BY CallAssumption DEF CallInv, Call, CallAbout, Inputs
<1>2. QED BY <1>1 DEF Call, CallAbout, Overtaken

LEMMA CallMoves ==
  ASSUME NEW call \in Call, NEW c \in {"capture", "analyze", "sent", "served"}
  PROVE  /\ [call EXCEPT !.pc = c] \in Call
         /\ [call EXCEPT !.pc = c].pc = c
         /\ [call EXCEPT !.pc = c].of = call.of
         /\ [call EXCEPT !.pc = c].overtaken = call.overtaken
BY DEF Call, CallAbout

\* Question, or link, or frame: what a call is about is of its screen.
LEMMA NewCall ==
  ASSUME CallInv, NEW of \in Inputs \cup {None}, NEW c \in {"capture", "analyze", "sent", "served"}
  PROVE  [pc |-> c, of |-> of, overtaken |-> FALSE] \in Call
BY DEF Call, CallAbout

LEMMA SameCalls == ASSUME UNCHANGED kind PROVE Call' = Call /\ Inputs' = Inputs
BY DEF Call, CallAbout, Inputs

LEMMA AskKeeps ==
  ASSUME CallInv, NEW r \in Request, NEW of \in Inputs, NEW c \in {"analyze", "sent"},
         Ask(r, of, c), c = "analyze" => kind = "lens"
  PROVE  CallInv' /\ StaleOnlyWhenOvertaken' /\ UNCHANGED passport
<1>1. UNCHANGED <<kind, passport>> /\ latest' = of /\ screen'.mode = "busy"
  BY DEF Ask, Idle
<1>2. calls' = [q \in Request |-> IF q = r THEN [pc |-> c, of |-> of, overtaken |-> FALSE]
                                  ELSE Overtaken(calls[q])]
  BY DEF Ask
<1>3. ASSUME NEW q \in Request
      PROVE  /\ calls'[q] \in Call \cup {None}
             /\ calls'[q] # None =>
                  /\ calls'[q].pc \in {"capture", "analyze"} => kind = "lens"
                  /\ calls'[q].pc = "served" => kind = "link"
                  /\ calls'[q].pc # "capture" => calls'[q].of \in Inputs
                  /\ calls'[q].of = of \/ calls'[q].overtaken
  <2>1. CASE q = r
    BY <1>2, <2>1, NewCall
  <2>2. CASE q # r /\ calls[q] = None
    BY <1>2, <2>2 DEF Overtaken
  <2>3. CASE q # r /\ calls[q] # None
    <3>1. /\ calls[q] \in Call
          /\ calls[q].pc \in {"capture", "analyze"} => kind = "lens"
          /\ calls[q].pc = "served" => kind = "link"
          /\ calls[q].pc # "capture" => calls[q].of \in Inputs
      BY <2>3 DEF CallInv
    <3>2. QED BY <1>2, <2>3, <3>1, CallFacts
  <2>4. QED BY <2>1, <2>2, <2>3
<1>4. CallInv'
  BY <1>1, <1>2, <1>3, SameCalls DEF CallInv
<1>5. QED BY <1>1, <1>4 DEF StaleOnlyWhenOvertaken

LEMMA ShowKeeps ==
  ASSUME CallInv, NEW r \in Request, calls[r] # None, calls[r].pc # "capture", NEW mode, NEW matches,
         Show(r, mode, matches)
  PROVE  CallInv' /\ StaleOnlyWhenOvertaken' /\ UNCHANGED passport
<1>1. /\ UNCHANGED <<kind, latest, passport>>
      /\ calls' = [calls EXCEPT ![r] = None]
      /\ screen'.of = calls[r].of /\ screen'.overtaken = calls[r].overtaken
  BY DEF Show
<1>2. CallInv'
  BY <1>1, SameCalls DEF CallInv
<1>3. StaleOnlyWhenOvertaken'
  BY <1>1 DEF CallInv, StaleOnlyWhenOvertaken
<1>4. QED BY <1>1, <1>2, <1>3

\* A call that goes on, begins with the capture of a frame, or ends unseen.
LEMMA CallGoesOn ==
  ASSUME CallInv, StaleOnlyWhenOvertaken, NEW r \in Request, NEW call \in Call \cup {None},
         calls' = [calls EXCEPT ![r] = call],
         \/ call = None
         \/ call # None /\ call.pc = "capture" /\ kind = "lens"
         \/ /\ calls[r] # None /\ calls[r].pc # "capture"
            /\ call # None /\ call.of = calls[r].of /\ call.overtaken = calls[r].overtaken
            /\ call.pc \in {"sent", "served"} /\ (call.pc = "served" => kind = "link"),
         UNCHANGED <<kind, screen, latest, passport>>
  PROVE  CallInv' /\ StaleOnlyWhenOvertaken' /\ UNCHANGED passport
<1>1. \A q \in Request : calls'[q] = IF q = r THEN call ELSE calls[q]
  BY DEF CallInv
<1>2. CallInv'
  BY <1>1, SameCalls DEF CallInv
<1>3. QED BY <1>2 DEF StaleOnlyWhenOvertaken

LEMMA ResetKeeps ==
  ASSUME CallInv, NEW kept \in SUBSET Request, Reset(kept), UNCHANGED kind
  PROVE  CallInv' /\ StaleOnlyWhenOvertaken'
<1>1. latest' = None /\ screen'.mode = "idle"
  BY DEF Reset, Idle
<1>2. calls' = [q \in Request |-> IF q \in kept THEN Overtaken(calls[q]) ELSE None]
  BY DEF Reset
<1>3. ASSUME NEW q \in Request
      PROVE  /\ calls'[q] \in Call \cup {None}
             /\ calls'[q] # None =>
                  /\ calls'[q].pc \in {"capture", "analyze"} => kind = "lens"
                  /\ calls'[q].pc = "served" => kind = "link"
                  /\ calls'[q].pc # "capture" => calls'[q].of \in Inputs
                  /\ calls'[q].overtaken
  <2>1. CASE q \in kept /\ calls[q] # None
    <3>1. /\ calls[q] \in Call
          /\ calls[q].pc \in {"capture", "analyze"} => kind = "lens"
          /\ calls[q].pc = "served" => kind = "link"
          /\ calls[q].pc # "capture" => calls[q].of \in Inputs
      BY <2>1 DEF CallInv
    <3>2. QED BY <1>2, <2>1, <3>1, CallFacts
  <2>2. CASE q \notin kept \/ calls[q] = None
    BY <1>2, <2>2 DEF Overtaken
  <2>3. QED BY <2>1, <2>2
<1>4. CallInv'
  BY <1>2, <1>3, SameCalls DEF CallInv
<1>5. QED BY <1>1, <1>4 DEF StaleOnlyWhenOvertaken

-----------------------------------------------------------------------------
(* What a page is resolved to *)

LEMMA RankedFacts ==
  ASSUME NEW page
  PROVE  LET titled == IF page.title = None THEN <<>> ELSE Search(page.title)
             ranked == Ranked(page)
         IN /\ CompaniesOf(ranked) = CompaniesOf(titled) \cup CompaniesOf(Search(page.content))
            /\ \A i, j \in DOMAIN ranked : ranked[i].company = ranked[j].company => i = j
            /\ titled # <<>> => ranked[1] = titled[1]
            /\ CompaniesOf(ranked) \subseteq CompanySlugs
<1> DEFINE titled == IF page.title = None THEN <<>> ELSE Search(page.title)
           found == Search(page.content)
           places == {i \in DOMAIN found : found[i].company \notin CompaniesOf(titled)}
           rest == Only(found, places)
           Both == Range(titled) \cup Range(found)
           m == Len(titled)
           size == Cardinality(places)
<1>1. /\ titled \in Seq(Range(titled)) /\ CompaniesOf(titled) \subseteq CompanySlugs
      /\ \A i, j \in DOMAIN titled : titled[i].company = titled[j].company => i = j
  <2>1. CASE page.title = None
    <3>1. titled = <<>>
      BY <2>1
    <3>2. DOMAIN titled = {} /\ titled \in Seq(Range(titled))
      <4> HIDE DEF titled
      <4>1. QED BY <3>1, EmptySeq
    <3>3. QED BY <3>2 DEF CompaniesOf
  <2>2. CASE page.title # None
    <3>1. titled = Search(page.title)
      BY <2>2
    <3>2. \A i, j \in DOMAIN titled : titled[i].company = titled[j].company => i = j
      BY <3>1, SearchType, SearchIsComplete
    <3>3. QED BY <3>1, <3>2, SearchType DEF CompanySlugs
  <2>3. QED BY <2>1, <2>2
<1>2. PICK n \in Nat : DOMAIN found = 1..n
  BY SearchType
<1>3. /\ found \in Seq(Range(found)) /\ CompaniesOf(found) \subseteq CompanySlugs
      /\ \A i, j \in DOMAIN found : i < j => found[i].company # found[j].company
  BY SearchType, SearchIsComplete DEF CompanySlugs
<1> HIDE DEF titled, found
<1>4. places \in SUBSET (1..n)
  BY <1>2
<1> HIDE DEF places
<1>5. PICK kept : Keeps(kept, found, places)
  <2>1. QED BY <1>2, <1>4, OnlyFacts
<1>6. size \in Nat /\ \A k \in 1..size : kept[k] \in places
  BY <1>5 DEF Keeps
<1>7. \A i \in places : \E k \in 1..size : kept[k] = i
  BY <1>5 DEF Keeps
<1>8. \A k, l \in 1..size : k < l => kept[k] < kept[l]
  BY <1>5 DEF Keeps
<1>9. DOMAIN rest = 1..size /\ rest = [k \in 1..size |-> found[kept[k]]]
  BY <1>5 DEF Keeps
<1> HIDE DEF rest, size
<1>10. /\ titled \in Seq(Both) /\ m \in Nat /\ DOMAIN titled = 1..m
      /\ rest \in Seq(Both) /\ Len(rest) = size
  <2>1. titled \in Seq(Both)
    BY <1>1, SeqMonotonic
  <2>2. rest \in [1..size -> Both]
    <3>1. \A i \in places : found[i] \in Both
      BY <1>2, <1>4 DEF Range
    <3> HIDE DEF Both
    <3>2. QED BY <1>6, <1>9, <3>1
  <2>3. QED BY <1>6, <2>1, <2>2
<1>11. Ranked(page) = titled \o rest
  BY DEF Ranked, titled, found, places, rest
<1> DEFINE ranked == titled \o rest
<1> HIDE DEF Both, m
<1>12. /\ DOMAIN ranked = 1..(m + size)
      /\ \A i \in 1..(m + size) : ranked[i] = IF i <= m THEN titled[i] ELSE rest[i - m]
  <2>1. /\ titled \o rest \in Seq(Both) /\ Len(titled \o rest) = Len(titled) + Len(rest)
        /\ \A i \in 1..(Len(titled) + Len(rest)) :
             (titled \o rest)[i] = IF i <= Len(titled) THEN titled[i] ELSE rest[i - Len(titled)]
    BY <1>10, ConcatProperties
  <2>2. DOMAIN (titled \o rest) = 1..Len(titled \o rest)
    BY <2>1, LenProperties
  <2>3. QED BY <1>10, <2>1, <2>2 DEF m
<1> HIDE DEF ranked
<1>13. \A k \in 1..size : /\ kept[k] \in DOMAIN found /\ rest[k] = found[kept[k]]
                         /\ rest[k].company \notin CompaniesOf(titled)
  <2>1. SUFFICES ASSUME NEW k \in 1..size
                 PROVE  /\ kept[k] \in DOMAIN found /\ rest[k] = found[kept[k]]
                        /\ rest[k].company \notin CompaniesOf(titled)
    OBVIOUS
  <2>2. kept[k] \in places /\ rest[k] = found[kept[k]]
    BY <1>6, <1>9
  <2>3. QED BY <2>2 DEF places
<1>14. CompaniesOf(ranked) = CompaniesOf(titled) \cup CompaniesOf(found)
  <2>1. ASSUME NEW i \in 1..(m + size)
        PROVE  ranked[i].company \in CompaniesOf(titled) \cup CompaniesOf(found)
    <3>1. CASE i <= m
      <4>1. i \in DOMAIN titled /\ ranked[i] = titled[i]
        BY <1>10, <1>12, <3>1
      <4>2. QED BY <4>1 DEF CompaniesOf
    <3>2. CASE ~ (i <= m)
      <4>1. i - m \in 1..size
        BY <1>6, <1>10, <3>2
      <4>2. QED BY <1>12, <1>13, <3>2, <4>1 DEF CompaniesOf
    <3>3. QED BY <3>1, <3>2
  <2>2. ASSUME NEW i \in DOMAIN titled PROVE titled[i].company \in CompaniesOf(ranked)
    <3>1. i \in 1..(m + size) /\ i <= m
      BY <1>6, <1>10
    <3>2. QED BY <1>12, <3>1 DEF CompaniesOf
  <2>3. ASSUME NEW i \in DOMAIN found PROVE found[i].company \in CompaniesOf(ranked)
    <3>1. CASE found[i].company \in CompaniesOf(titled)
      BY <2>2, <3>1 DEF CompaniesOf
    <3>2. CASE found[i].company \notin CompaniesOf(titled)
      <4>1. PICK k \in 1..size : kept[k] = i
        BY <1>7, <3>2 DEF places
      <4>2. m + k \in 1..(m + size) /\ ~ (m + k <= m) /\ (m + k) - m = k
        BY <1>6, <1>10
      <4>3. ranked[m + k] = found[i]
        BY <1>12, <1>13, <4>1, <4>2
      <4>4. QED BY <1>12, <4>2, <4>3 DEF CompaniesOf
    <3>3. QED BY <3>1, <3>2
  <2>4. QED BY <1>12, <2>1, <2>2, <2>3 DEF CompaniesOf
<1>15. ASSUME NEW i \in 1..(m + size), NEW j \in 1..(m + size), i < j
       PROVE  ranked[i].company # ranked[j].company
  <2>1. CASE j <= m
    <3>1. i \in DOMAIN titled /\ j \in DOMAIN titled /\ i <= m
      BY <1>6, <1>10, <1>15, <2>1
    <3>2. QED BY <1>1, <1>12, <1>15, <2>1, <3>1
  <2>2. CASE i <= m /\ ~ (j <= m)
    <3>1. i \in DOMAIN titled /\ j - m \in 1..size
      BY <1>6, <1>10, <2>2
    <3>2. ranked[i].company \in CompaniesOf(titled)
      BY <1>12, <2>2, <3>1 DEF CompaniesOf
    <3>3. QED BY <1>12, <1>13, <2>2, <3>1, <3>2
  <2>3. CASE ~ (i <= m)
    <3>1. i - m \in 1..size /\ j - m \in 1..size /\ i - m < j - m /\ ~ (j <= m)
      BY <1>6, <1>10, <1>15, <2>3
    <3>2. kept[i - m] < kept[j - m]
      BY <1>8, <3>1
    <3>3. QED BY <1>3, <1>12, <1>13, <2>3, <3>1, <3>2
  <2>4. QED BY <2>1, <2>2, <2>3
<1>16. titled # <<>> => ranked[1] = titled[1]
  <2>1. titled # <<>> => m \in Nat \ {0}
    BY <1>10, EmptySeq DEF m
  <2>2. QED BY <1>6, <1>10, <1>12, <2>1
<1>17. \A i, j \in DOMAIN ranked : ranked[i].company = ranked[j].company => i = j
  <2>1. SUFFICES ASSUME NEW i \in 1..(m + size), NEW j \in 1..(m + size), i # j
                 PROVE  ranked[i].company # ranked[j].company
    BY <1>12
  <2>2. i < j \/ j < i
    BY <1>6, <1>10, <2>1
  <2>3. QED BY <1>15, <2>2
<1>18. Ranked(page) = ranked
  BY <1>11 DEF ranked
<1>19. QED BY <1>1, <1>3, <1>14, <1>16, <1>17, <1>18 DEF titled, found

-----------------------------------------------------------------------------
(* What a frame is resolved to *)

LEMMA SignalsType ==
  ASSUME NEW frame \in Frame
  PROVE  Signals(frame) \in Seq(Text)
<1> DEFINE given == <<frame.text>> \o frame.labels
<1>1. frame.text \in Text /\ frame.labels \in Seq(Text)
  BY InputAssumption
<1>2. <<frame.text>> \in Seq(Text)
  BY <1>1, Single
<1>3. given \in Seq(Text)
  BY <1>1, <1>2, ConcatProperties
<1> HIDE DEF given
<1>4. \A places \in SUBSET DOMAIN given : Only(given, places) \in Seq(Text)
  BY <1>3, OnlyType
<1>51. QED BY <1>4 DEF Signals, given

LEMMA HintTexts ==
  ASSUME NEW signals
  PROVE  LET hints == Inferred(signals)
         IN [i \in DOMAIN hints |-> hints[i].company] \in Seq(Text)
<1> DEFINE hints == Inferred(signals)
           Hint == [labels : SUBSET Text, company : Text]
<1>1. \A places \in SUBSET DOMAIN Hints : Only(Hints, places) \in Seq(Hint)
  BY HintsAssumption, OnlyType
<1>2. hints \in Seq(Hint)
  BY <1>1 DEF Inferred
<1> HIDE DEF hints
<1>3. Len(hints) \in Nat /\ DOMAIN hints = 1..Len(hints) /\ hints \in [1..Len(hints) -> Hint]
  BY <1>2, LenProperties
<1>4. [i \in DOMAIN hints |-> hints[i].company] \in [1..Len(hints) -> Text]
  BY <1>3
<1>51. [i \in DOMAIN hints |-> hints[i].company] \in Seq(Text)
  BY <1>3, <1>4
<1>6. QED BY <1>51 DEF hints

LEMMA QueryAdds ==
  ASSUME NEW frame \in Frame
  PROVE  CompaniesOf(Search(FlattenSeq(Signals(frame)))) \subseteq CompaniesOf(Search(Query(frame)))
<1> DEFINE said == FlattenSeq(Signals(frame))
           hints == Inferred(Signals(frame))
           added == FlattenSeq([i \in DOMAIN hints |-> hints[i].company])
<1>1. said \in Text /\ added \in Text
  BY SignalsType, HintTexts, FlattenType DEF Text
<1>2. Query(frame) = said \o added
  BY DEF Query
<1>3. CompaniesOf(Search(said)) \subseteq CompaniesOf(Search(said \o added))
  <2> HIDE DEF said, added
  <2> QED BY <1>1, MoreTextHidesNothing
<1>4. QED BY <1>2, <1>3

LEMMA RecognizeAdds ==
  ASSUME NEW frame \in Frame, ~ TooLarge(frame)
  PROVE  CompaniesOf(Search(FlattenSeq(Signals(frame)))) \subseteq CompaniesOf(Recognize(frame).matches)
<1>1. CASE Signals(frame) = <<>>
  <2>1. CompaniesOf(Search(FlattenSeq(Signals(frame)))) = {}
    BY <1>1, FlattenEmpty, FoundEmpty, SearchIsComplete DEF SlugsOf
  <2>2. QED BY <2>1
<1>2. CASE Signals(frame) # <<>>
  <2>1. Recognize(frame).matches = Search(Query(frame))
    BY <1>2 DEF Recognize
  <2>2. QED BY <2>1, QueryAdds
<1>3. QED BY <1>1, <1>2

\* A frame in which nothing was recognised is resolved to nothing.
LEMMA NothingSeen ==
  ASSUME NEW frame, frame.text = <<>>, frame.labels = <<>>
  PROVE  Recognize(frame).matches = <<>>
<1> DEFINE given == <<frame.text>> \o frame.labels
           places == {i \in DOMAIN given : given[i] # <<>> /\ \A j \in 1 .. i - 1 : given[j] # given[i]}
<1>1. given = << <<>> >>
  OBVIOUS
<1>2. places = {}
  BY <1>1
<1>3. Signals(frame) = Only(given, {})
  <2>1. Signals(frame) = Only(given, places)
    BY DEF Signals
  <2>2. QED BY <1>2, <2>1
<1>4. Only(given, {}) = <<>>
  <2> HIDE DEF given
  <2>1. {} \in SUBSET (1..0) /\ Cardinality({}) = 0
    BY FS_EmptySet
  <2>2. PICK kept : Keeps(kept, given, {})
    BY <2>1, OnlyFacts
  <2>3. QED BY <2>1, <2>2 DEF Keeps
<1>51. QED BY <1>3, <1>4, RefusalAssumption DEF Recognize

-----------------------------------------------------------------------------
(* What is on the screen *)

LEMMA NoMatches == CompaniesOf(<<>>) = {} /\ Len(<<>>) <= 1 /\ First(<<>>) = <<>>
BY DEF CompaniesOf, First

LEMMA AskShows ==
  ASSUME CallInv, NEW r \in Request, NEW of \in Inputs, NEW c, Ask(r, of, c)
  PROVE  ScreenInv'
<1>1. UNCHANGED kind /\ latest' = of /\ screen' = [Idle EXCEPT !.mode = "busy"]
  BY DEF Ask
<1>2. /\ screen'.mode = "busy" /\ screen'.of = None /\ screen'.matches = <<>>
      /\ screen'.overtaken = FALSE
  BY <1>1 DEF Idle
<1>3. QED BY <1>1, <1>2, NoMatches, SameCalls DEF ScreenInv, IsScreen, ShownIsAnswer

LEMMA ResetShows ==
  ASSUME CallInv, NEW kept \in SUBSET Request, Reset(kept), UNCHANGED kind
  PROVE  ScreenInv'
<1>1. latest' = None /\ screen' = Idle
  BY DEF Reset
<1>2. /\ screen'.mode = "idle" /\ screen'.of = None /\ screen'.matches = <<>>
      /\ screen'.overtaken = FALSE
  BY <1>1 DEF Idle
<1>3. QED BY <1>1, <1>2, NoMatches, SameCalls DEF ScreenInv, IsScreen, ShownIsAnswer

\* Whether matches answer what a call of this screen is about.
Answers(matches, of) ==
  CASE kind = "search" -> matches = Search(of)
    [] kind = "lens" -> matches = First(Recognize(of).matches)
    [] OTHER -> TRUE

LEMMA ShowShows ==
  ASSUME CallInv, ScreenInv, NEW r \in Request, calls[r] # None, calls[r].pc # "capture",
         NEW mode \in {"loaded", "failed"}, NEW matches, Show(r, mode, matches),
         CompaniesOf(matches) \subseteq CompanySlugs,
         kind = "lens" => Len(matches) <= 1,
         mode = "loaded" => Answers(matches, calls[r].of)
  PROVE  ScreenInv'
<1>1. UNCHANGED <<kind, latest>>
  BY DEF Show
<1>2. /\ screen'.mode = mode /\ screen'.of = calls[r].of /\ screen'.matches = matches
      /\ screen'.overtaken = calls[r].overtaken
  BY DEF Show
<1>3. calls[r].of \in Inputs /\ calls[r].overtaken \in BOOLEAN
  BY DEF CallInv, Call, CallAbout
<1>4. IsScreen(screen)'
  BY <1>1, <1>2, <1>3, SameCalls DEF IsScreen, CompanySlugs, SlugsOf
<1>5. ShownIsAnswer'
  BY <1>1, <1>2 DEF ShownIsAnswer, Answers
<1>6. QED BY <1>1, <1>4, <1>5, SameCalls DEF ScreenInv

LEMMA SameScreen ==
  ASSUME ScreenInv, UNCHANGED <<kind, screen, latest>>
  PROVE  ScreenInv'
BY SameCalls DEF ScreenInv, IsScreen, ShownIsAnswer

LEMMA FirstFacts ==
  ASSUME NEW n \in Nat, NEW matches, DOMAIN matches = 1..n, matches \in Seq(Range(matches))
  PROVE  Len(First(matches)) <= 1 /\ CompaniesOf(First(matches)) \subseteq CompaniesOf(matches)
<1>1. CASE matches = <<>>
  <2>1. First(matches) = <<>>
    BY <1>1 DEF First
  <2>2. QED BY <2>1 DEF CompaniesOf
<1>2. CASE matches # <<>>
  <2>1. First(matches) = <<matches[1]>>
    BY <1>2 DEF First
  <2>2. 1 \in DOMAIN matches
    BY <1>2, EmptySeq, LenProperties
  <2>3. Len(First(matches)) = 1 /\ CompaniesOf(First(matches)) = {matches[1].company}
    BY <2>1 DEF CompaniesOf
  <2>4. QED BY <2>2, <2>3 DEF CompaniesOf
<1>3. QED BY <1>1, <1>2

LEMMA RecognizeFacts ==
  ASSUME NEW frame
  PROVE  /\ Len(First(Recognize(frame).matches)) <= 1
         /\ CompaniesOf(First(Recognize(frame).matches)) \subseteq CompanySlugs
<1>1. CASE Recognize(frame).matches = <<>>
  BY <1>1, NoMatches
<1>2. CASE Recognize(frame).matches = Search(Query(frame))
  <2>1. PICK n \in Nat : DOMAIN Search(Query(frame)) = 1..n
    BY SearchType
  <2>2. QED BY <1>2, <2>1, FirstFacts, SearchType DEF CompanySlugs
<1>3. QED BY <1>1, <1>2 DEF Recognize

LEMMA AnswersKeep ==
  ASSUME IInv, NEW r \in Request,
         SearchAnswers(r) \/ LinkAnswers(r) \/ LensAnswers(r) \/ CallFails(r) \/ Analyzed(r)
  PROVE  ScreenInv'
<1> USE DEF IInv
<1>1. CASE SearchAnswers(r)
  <2>1. /\ kind = "search" /\ calls[r] # None /\ calls[r].pc # "capture"
        /\ Show(r, "loaded", Search(calls[r].of))
    BY <1>1 DEF SearchAnswers, Waiting
  <2>2. Answers(Search(calls[r].of), calls[r].of)
    BY <2>1 DEF Answers
  <2>3. QED BY <2>1, <2>2, ShowShows, SearchType DEF CompanySlugs
<1>2. CASE LinkAnswers(r)
  <2>1. /\ kind = "link" /\ calls[r] # None /\ calls[r].pc # "capture"
        /\ \/ Show(r, "failed", <<>>)
           \/ Show(r, "loaded", Ranked(fetches[r].page))
    BY <1>2 DEF LinkAnswers, Waiting, CallInv
  <2>2. \A matches : Answers(matches, calls[r].of)
    BY <2>1 DEF Answers
  <2>3. QED BY <2>1, <2>2, ShowShows, RankedFacts, NoMatches
<1>3. CASE LensAnswers(r)
  <2>1. /\ kind = "lens" /\ calls[r] # None /\ calls[r].pc # "capture"
        /\ \/ Show(r, "failed", <<>>)
           \/ Show(r, "loaded", First(Recognize(calls[r].of).matches))
    BY <1>3 DEF LensAnswers, Waiting
  <2>2. Answers(First(Recognize(calls[r].of).matches), calls[r].of)
    BY <2>1 DEF Answers
  <2>3. QED BY <2>1, <2>2, ShowShows, RecognizeFacts, NoMatches
<1>4. CASE CallFails(r)
  BY <1>4, ShowShows, NoMatches DEF CallFails
<1>5. CASE Analyzed(r)
  <2>1. kind = "lens" /\ calls[r] # None /\ calls[r].pc # "capture"
    BY <1>5 DEF Analyzed, Waiting, CallInv
  <2>2. CASE calls[r].of.text = <<>> /\ calls[r].of.labels = <<>>
    <3>1. Show(r, "loaded", <<>>)
      BY <1>5, <2>2 DEF Analyzed
    <3>2. Answers(<<>>, calls[r].of)
      BY <2>1, <2>2, NothingSeen, NoMatches DEF Answers
    <3>3. QED BY <2>1, <3>1, <3>2, ShowShows, NoMatches
  <2>3. CASE ~ (calls[r].of.text = <<>> /\ calls[r].of.labels = <<>>)
    BY <1>5, <2>3, SameScreen DEF Analyzed
  <2>4. QED BY <2>2, <2>3
<1>6. QED BY <1>1, <1>2, <1>3, <1>4, <1>5

LEMMA ScreenKept == ASSUME IInv, Next PROVE ScreenInv'
<1> USE DEF IInv
<1>1. ASSUME NEW r \in Request,
             SearchAnswers(r) \/ LinkAnswers(r) \/ LensAnswers(r) \/ CallFails(r) \/ Analyzed(r)
      PROVE  ScreenInv'
  BY <1>1, AnswersKeep
<1>2. ASSUME NEW r \in Request, Submit(r) PROVE ScreenInv'
  BY <1>2, AskShows DEF Submit
<1>3. ASSUME NEW r \in Request, Captured(r) PROVE ScreenInv'
  <2>1. PICK frame \in Frame : Ask(r, frame, "analyze")
    BY <1>3 DEF Captured
  <2>2. frame \in Inputs
    BY <1>3 DEF Captured, Waiting, CallInv, Inputs
  <2>3. QED BY <2>1, <2>2, AskShows
<1>4. CASE UNCHANGED <<kind, screen, latest>>
  BY <1>4, SameScreen
<1>5. CASE Reenter
  BY <1>5, ResetShows DEF Reenter
<1>6. CASE Open
  <2>1. CASE kind = "lens"
    BY <1>6, <2>1, ResetShows DEF Open
  <2>2. CASE kind # "lens"
    BY <1>4, <1>6, <2>2 DEF Open
  <2>3. QED BY <2>1, <2>2
<1>7. QED
  BY <1>1, <1>2, <1>3, <1>4, <1>5, <1>6 DEF Next, Shoot, CaptureFails, LinkArrives, LinkAbandoned,
    Fetching, NewsAnswers, SelectRange, ClosePassport

-----------------------------------------------------------------------------
(* Every step *)

LEMMA CallStepKeeps ==
  ASSUME IInv, NEW r \in Request,
         \/ Submit(r) \/ Shoot(r) \/ Captured(r) \/ CaptureFails(r) \/ Analyzed(r)
         \/ LinkArrives(r) \/ LinkAbandoned(r) \/ Fetching(r)
         \/ SearchAnswers(r) \/ LinkAnswers(r) \/ LensAnswers(r) \/ CallFails(r)
  PROVE  CallInv' /\ StaleOnlyWhenOvertaken' /\ UNCHANGED passport
<1> USE DEF IInv
<1>1. calls[r] # None => calls[r] \in Call
  BY DEF CallInv
<1>2. CASE Submit(r)
  BY <1>2, AskKeeps DEF Submit
<1>3. CASE Captured(r)
  <2>1. PICK frame \in Frame : Ask(r, frame, "analyze")
    BY <1>3 DEF Captured
  <2>2. kind = "lens"
    BY <1>3 DEF Captured, Waiting, CallInv
  <2>3. frame \in Inputs
    BY <2>2 DEF Inputs
  <2>4. QED BY <2>1, <2>2, <2>3, AskKeeps
<1>4. CASE Shoot(r)
  <2>1. [pc |-> "capture", of |-> None, overtaken |-> FALSE] \in Call
    BY NewCall
  <2>2. QED BY <1>4, <2>1, CallGoesOn DEF Shoot
<1>5. CASE CaptureFails(r)
  BY <1>5, CallGoesOn DEF CaptureFails
<1>6. ASSUME NEW c \in {"sent", "served"}, calls[r] # None, calls[r].pc # "capture",
             c = "served" => kind = "link",
             calls' = [calls EXCEPT ![r].pc = c], UNCHANGED <<kind, screen, latest, passport>>
      PROVE  CallInv' /\ StaleOnlyWhenOvertaken' /\ UNCHANGED passport
  <2> DEFINE call == [calls[r] EXCEPT !.pc = c]
  <2>1. /\ call \in Call /\ call # None
        /\ call.pc = c /\ call.of = calls[r].of /\ call.overtaken = calls[r].overtaken
    <3>1. calls[r] \in Call
      BY <1>1, <1>6
    <3>2. c \in {"capture", "analyze", "sent", "served"}
      BY <1>6
    <3>3. call \in Call /\ call.pc = c /\ call.of = calls[r].of /\ call.overtaken = calls[r].overtaken
      BY <3>1, <3>2, CallMoves
    <3>4. QED BY <3>3, CallFacts
  <2>2. calls' = [calls EXCEPT ![r] = call]
    BY <1>6
  <2>3. QED BY <1>6, <2>1, <2>2, CallGoesOn
<1>7. CASE Analyzed(r)
  BY <1>6, <1>7, ShowKeeps DEF Analyzed, Waiting
<1>8. CASE LinkArrives(r)
  BY <1>6, <1>8 DEF LinkArrives, Waiting
<1>9. CASE SearchAnswers(r) \/ LensAnswers(r) \/ LinkAnswers(r)
  BY <1>9, ShowKeeps DEF SearchAnswers, LensAnswers, LinkAnswers, Waiting
<1>10. CASE CallFails(r)
  BY <1>10, ShowKeeps DEF CallFails
<1>11. CASE LinkAbandoned(r) \/ Fetching(r)
  BY <1>11, SameCalls DEF LinkAbandoned, Fetching, CallInv, StaleOnlyWhenOvertaken
<1>12. QED
  BY <1>2, <1>3, <1>4, <1>5, <1>7, <1>8, <1>9, <1>10, <1>11

\* Whatever the screens do, they leave a request alone, begin it or forget it.
LEMMA FetchesKept == ASSUME IInv, Next PROVE FetchInv'
<1>1. CASE UNCHANGED fetches
  BY <1>1 DEF IInv, FetchInv
<1>2. ASSUME NEW r \in Request, Fetching(r) PROVE FetchInv'
  BY <1>2, LookupKeeps, RedirectKeeps, RespondKeeps, ReadKeeps DEF IInv, Fetching, FetchStep
<1>3. ASSUME NEW r \in Request, LinkArrives(r) PROVE FetchInv'
  <2>1. calls[r].of \in Url
    BY <1>3 DEF LinkArrives, Waiting, IInv, CallInv, Inputs
  <2>2. QED BY <1>3, <2>1, ResolveKeeps DEF LinkArrives, IInv
<1>4. ASSUME NEW r \in Request, fetches' = [fetches EXCEPT ![r] = None] PROVE FetchInv'
  BY <1>4 DEF IInv, FetchInv
<1>5. QED
  BY <1>1, <1>2, <1>3, <1>4 DEF Next, Submit, Shoot, Captured, CaptureFails, Analyzed, LinkAbandoned,
    SearchAnswers, LinkAnswers, LensAnswers, CallFails, Reenter, Open, NewsAnswers, SelectRange, ClosePassport

\* What a step may do to the passport.
PassportStep ==
  \/ passport' = None
  \/ passport = None /\ passport' = [range |-> Day, series |-> None, loading |-> TRUE]
  \/ passport # None /\ passport.loading
     /\ passport' = [passport EXCEPT !.series = Day, !.loading = FALSE]
  \/ passport # None /\ \E range \in ChartRange :
       passport' = [passport EXCEPT !.range = range, !.series = range]
  \/ UNCHANGED passport

LEMMA StepEffect ==
  ASSUME IInv, Next
  PROVE  CallInv' /\ StaleOnlyWhenOvertaken' /\ PassportStep
<1>1. ASSUME NEW r \in Request,
             \/ Submit(r) \/ Shoot(r) \/ Captured(r) \/ CaptureFails(r) \/ Analyzed(r)
             \/ LinkArrives(r) \/ LinkAbandoned(r) \/ Fetching(r)
             \/ SearchAnswers(r) \/ LinkAnswers(r) \/ LensAnswers(r) \/ CallFails(r)
      PROVE  CallInv' /\ StaleOnlyWhenOvertaken' /\ PassportStep
  BY <1>1, CallStepKeeps DEF PassportStep
<1>2. CASE Reenter
  BY <1>2, ResetKeeps DEF Reenter, IInv, PassportStep
<1>3. ASSUME UNCHANGED <<kind, calls, screen, latest>> PROVE CallInv' /\ StaleOnlyWhenOvertaken'
  BY <1>3, SameCalls DEF IInv, CallInv, StaleOnlyWhenOvertaken
<1>4. CASE Open
  <2>1. CallInv' /\ StaleOnlyWhenOvertaken'
    <3>1. CASE kind = "lens"
      BY <1>4, <3>1, ResetKeeps DEF Open, IInv
    <3>2. CASE kind # "lens"
      BY <1>3, <1>4, <3>2 DEF Open
    <3>3. QED BY <3>1, <3>2
  <2>2. QED BY <1>4, <2>1 DEF Open, PassportStep
<1>5. CASE NewsAnswers \/ SelectRange \/ ClosePassport
  <2>1. CallInv' /\ StaleOnlyWhenOvertaken'
    BY <1>3, <1>5 DEF NewsAnswers, SelectRange, ClosePassport
  <2>2. PassportStep
    BY <1>5 DEF NewsAnswers, SelectRange, ClosePassport, PassportStep
  <2>3. QED BY <2>1, <2>2
<1>6. QED BY <1>1, <1>2, <1>4, <1>5 DEF Next

LEMMA PassportKept ==
  ASSUME passport \in Passport \cup {None}, PassportStep
  PROVE  /\ passport' \in Passport \cup {None}
         /\ passport # None /\ passport' # None /\ Charted(passport) /\ ~ Charted(passport')
              => passport.loading /\ ~ passport'.loading
<1> USE DEF Charted
<1>1. CASE passport' = None \/ UNCHANGED passport
  BY <1>1
<1>2. CASE passport = None /\ passport' = [range |-> Day, series |-> None, loading |-> TRUE]
  BY <1>2, InputAssumption DEF Passport
<1>3. CASE passport # None /\ passport.loading
           /\ passport' = [passport EXCEPT !.series = Day, !.loading = FALSE]
  <2>1. passport \in Passport
    BY <1>3
  <2>2. passport' \in Passport /\ ~ passport'.loading
    BY <1>3, <2>1, InputAssumption DEF Passport
  <2>3. QED BY <1>3, <2>2
<1>4. ASSUME passport # None, NEW range \in ChartRange,
             passport' = [passport EXCEPT !.range = range, !.series = range]
      PROVE  passport' \in Passport /\ Charted(passport')
  <2>1. passport \in Passport
    BY <1>4
  <2>2. passport' \in Passport /\ passport'.series = range /\ passport'.range = range
    BY <1>4, <2>1 DEF Passport
  <2>3. QED BY <2>2
<1>5. QED
  BY <1>1, <1>2, <1>3, <1>4 DEF PassportStep

LEMMA InitHolds == Init => IInv
<1> SUFFICES ASSUME Init PROVE IInv
  OBVIOUS
<1>1. FetchInv
  BY DEF Init, FetchInit, FetchInv
<1>2. CallInv
  BY DEF Init, CallInv
<1>3. ScreenInv
  <2>1. /\ screen.mode = "idle" /\ screen.of = None /\ screen.matches = <<>>
        /\ screen.overtaken = FALSE /\ latest = None
    BY DEF Init, Idle
  <2>2. QED BY <2>1, NoMatches DEF ScreenInv, IsScreen, ShownIsAnswer
<1>4. QED BY <1>1, <1>2, <1>3 DEF Init, IInv, StaleOnlyWhenOvertaken, Idle

LEMMA StepKeeps == IInv /\ [Next]_vars => IInv'
<1> SUFFICES ASSUME IInv, [Next]_vars PROVE IInv'
  OBVIOUS
<1>1. CASE Next
  BY <1>1, FetchesKept, StepEffect, ScreenKept, PassportKept DEF IInv
<1>2. CASE UNCHANGED vars
  <2>1. FetchInv'
    BY <1>2 DEF vars, IInv, FetchInv
  <2>2. CallInv' /\ StaleOnlyWhenOvertaken' /\ passport' \in Passport \cup {None}
    BY <1>2, SameCalls DEF vars, IInv, CallInv, StaleOnlyWhenOvertaken
  <2>3. ScreenInv'
    BY <1>2, SameScreen DEF vars, IInv
  <2>4. QED BY <2>1, <2>2, <2>3 DEF IInv
<1>3. QED BY <1>1, <1>2

LEMMA Invariance == Spec => []IInv
BY InitHolds, StepKeeps, PTL DEF Spec

\* However often a link redirects and whatever the name service answers meanwhile,
\* only public addresses are connected to (link.rs).
THEOREM PeersArePublic == Spec => []OnlyPublicPeers
<1>1. IInv => OnlyPublicPeers
  BY DEF IInv, FetchInv, OnlyPublicPeers
<1>2. QED BY <1>1, Invariance, PTL

\* For any number of overlapping calls, an answer to something other than what was
\* asked last is one whose call was still under way when that was asked (the blocs
\* of the search, link and lens screens).
THEOREM StaleWasOvertaken == Spec => []StaleOnlyWhenOvertaken
BY Invariance, PTL DEF IInv

\* Only the load that opened a passport makes its chart disagree with its range
\* (PassportBloc).
THEOREM ChartsFollow == Spec => ChartFollowsRange
<1>1. IInv /\ [Next]_vars =>
        [passport # None /\ passport' # None /\ Charted(passport) /\ ~ Charted(passport')
           => passport.loading /\ ~ passport'.loading]_vars
  BY StepEffect, PassportKept DEF IInv
<1>2. QED BY <1>1, Invariance, PTL DEF Spec, ChartFollowsRange

\* The state has its types: a screen never shows a company the catalog does not
\* have, nor the lens more than one (lib.rs, catalog.rs, the three blocs).
THEOREM TypeCorrect == Spec => []TypeOK
<1>1. IInv => TypeOK
  BY DEF IInv, FetchInv, CallInv, ScreenInv, TypeOK, FetchTypeOK
<1>2. QED BY <1>1, Invariance, PTL

\* The matches on a screen answer the question they are shown under, in whatever
\* order the answers to any number of questions come back (the blocs of the search
\* and lens screens).
THEOREM ShownAnswers == Spec => []ShownIsAnswer
BY Invariance, PTL DEF IInv, ScreenInv

\* For every page and every catalog, what a page is resolved to is complete, without
\* repetitions and led by the best match of the title (link.rs).
THEOREM RankingsComplete == Spec => []RankingComplete
<1>1. RankingComplete
  BY RankedFacts DEF RankingComplete
<1>2. QED BY <1>1, PTL

\* For every table of hints and every frame, a hint hides no company that the frame
\* names (lens.rs).
THEOREM HintsHideNothing == Spec => []HintsOnlyAdd
<1>1. ASSUME IInv, NEW r \in Request, kind = "lens", Waiting(r, "sent")
      PROVE  LET frame == calls[r].of
             IN ~ TooLarge(frame) => CompaniesOf(Search(FlattenSeq(Signals(frame))))
                                       \subseteq CompaniesOf(Recognize(frame).matches)
  <2>1. calls[r].of \in Frame
    BY <1>1 DEF IInv, CallInv, Waiting, Inputs
  <2>2. QED BY <2>1, RecognizeAdds
<1>2. IInv => HintsOnlyAdd
  BY <1>1 DEF HintsOnlyAdd
<1>3. QED BY <1>2, Invariance, PTL

=============================================================================
