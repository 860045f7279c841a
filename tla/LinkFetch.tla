----------------------------- MODULE LinkFetch -----------------------------
(***************************************************************************)
(* link.rs: resolving a link.  Each request looks up the host, refuses it  *)
(* unless every address is public, gets the page from the first of them,   *)
(* follows redirects by hand under the same checks, and ranks what the     *)
(* page mentions.  Requests share nothing but the catalog.                 *)
(*                                                                         *)
(* The Web is external: each lookup may give other addresses, each request *)
(* any answer or none.  A URL is represented by its host, and what can be  *)
(* wrong with it by two more values.                                       *)
(***************************************************************************)
EXTENDS Catalog, FiniteSets

CONSTANTS
  Request,       \* requests of /v1/resolve/link that overlap
  Host,
  LocalHost,     \* localhost and the names that end in .localhost
  Broken,        \* a text that is no URL
  Foreign,       \* a URL of another scheme, without a host or with credentials
  Address,
  Public,        \* the addresses is_public_ip accepts
  Page,          \* [title : text or None, content : text]
  MAX_REDIRECTS

ASSUME WebAssumption ==
  /\ LocalHost \subseteq Host
  /\ Public \subseteq Address
  /\ {Broken, Foreign} \cap Host = {}
  /\ MAX_REDIRECTS \in Nat

VARIABLE fetches \* the requests under way, and their answers

----------------------------------------------------------------------------

Url == Host \cup {Broken, Foreign}
Error == {"InvalidUrl", "UnsafeTarget", "FetchFailed", "RedirectNotAllowed",
          "UnsupportedContent", "PageTooLarge"}
Awaiting == {"lookup", "get", "body", "done"}

\* peers are the addresses connected to; page is the one that was read.
Fetch == [pc : Awaiting, url : Host, redirects : Nat, address : Address \cup {None},
          peers : SUBSET Address, page : Page \cup {None}, error : Error \cup {None}]

ASSUME FetchAssumption == None \notin Fetch \cup Address \cup Error

FetchTypeOK == \A r \in Request : fetches[r] # None =>
  /\ fetches[r] \in Fetch
  /\ fetches[r].redirects <= MAX_REDIRECTS

FetchInit == fetches = [r \in Request |-> None]

\* Why validate_url refuses url, or None.
Invalid(url) ==
  IF url \in {Broken, Foreign} THEN "InvalidUrl"
  ELSE IF url \in LocalHost THEN "UnsafeTarget" ELSE None

Goto(r, fetch) == fetches' = [fetches EXCEPT ![r] = fetch]
End(r, error) == Goto(r, [fetches[r] EXCEPT !.pc = "done", !.error = error])

\* A request that is not refused at once.
Resolve(r, url) ==
  /\ fetches[r] = None
  /\ Invalid(url) = None
  /\ Goto(r, [pc |-> "lookup", url |-> url, redirects |-> 0, address |-> None,
              peers |-> {}, page |-> None, error |-> None])

At(r, pc) == fetches[r] # None /\ fetches[r].pc = pc

\* Mutant: one public address is enough.
LookupAnyPublic(r) ==
  /\ At(r, "lookup")
  /\ \/ End(r, "FetchFailed")
     \/ \E known \in SUBSET Address :
          IF known \cap Public = {}
          THEN End(r, "UnsafeTarget")
          ELSE \E first \in known :
                 Goto(r, [fetches[r] EXCEPT !.pc = "get", !.address = first])

\* lookup_host fails or gives some addresses, the first of which is used.
Lookup(r) ==
  /\ At(r, "lookup")
  /\ \/ End(r, "FetchFailed")
     \/ \E known \in SUBSET Address :
          IF known = {} \/ ~ known \subseteq Public
          THEN End(r, "UnsafeTarget")
          ELSE \E first \in known :
                 Goto(r, [fetches[r] EXCEPT !.pc = "get", !.address = first])

\* What connecting to the address that was looked up leaves.
Connected(r) ==
  [fetches[r] EXCEPT !.peers = @ \cup {fetches[r].address}, !.address = None]

\* Mutant: one redirect too many is followed.
RedirectOnceMore(r) ==
  /\ At(r, "get")
  /\ \E location \in Url \cup {None} :
       LET refused == IF fetches[r].redirects > MAX_REDIRECTS \/ location \in {Broken, None}
                      THEN "RedirectNotAllowed" ELSE Invalid(location)
       IN Goto(r, IF refused = None
                  THEN [Connected(r) EXCEPT !.pc = "lookup", !.url = location, !.redirects = @ + 1]
                  ELSE [Connected(r) EXCEPT !.pc = "done", !.error = refused])

\* Mutant: redirects are not counted.
RedirectUncounted(r) ==
  /\ At(r, "get")
  /\ \E location \in Url \cup {None} :
       LET refused == IF fetches[r].redirects >= MAX_REDIRECTS \/ location \in {Broken, None}
                      THEN "RedirectNotAllowed" ELSE Invalid(location)
       IN Goto(r, IF refused = None
                  THEN [Connected(r) EXCEPT !.pc = "lookup", !.url = location]
                  ELSE [Connected(r) EXCEPT !.pc = "done", !.error = refused])

\* The connection that is made goes to the address that was checked.
Redirect(r) ==
  /\ At(r, "get")
  /\ \E location \in Url \cup {None} :
       LET refused == IF fetches[r].redirects >= MAX_REDIRECTS \/ location \in {Broken, None}
                      THEN "RedirectNotAllowed" ELSE Invalid(location)
       IN Goto(r, IF refused = None
                  THEN [Connected(r) EXCEPT !.pc = "lookup", !.url = location, !.redirects = @ + 1]
                  ELSE [Connected(r) EXCEPT !.pc = "done", !.error = refused])

\* A page, or an answer that is not a page that will be read.
Respond(r) ==
  /\ At(r, "get")
  /\ \/ Goto(r, [Connected(r) EXCEPT !.pc = "body"])
     \/ \E error \in {"FetchFailed", "PageTooLarge", "UnsupportedContent"} :
          Goto(r, [Connected(r) EXCEPT !.pc = "done", !.error = error])

\* The body of the page, which can still turn out too long.
Read(r) ==
  /\ At(r, "body")
  /\ \/ \E page \in Page : Goto(r, [fetches[r] EXCEPT !.pc = "done", !.page = page])
     \/ \E error \in {"FetchFailed", "PageTooLarge"} : End(r, error)

FetchStep(r) == Lookup(r) \/ Redirect(r) \/ Respond(r) \/ Read(r)

\* Mutant: what the title mentions is listed again when the content does, too.
RankedWithRepeats(page) ==
  (IF page.title = None THEN <<>> ELSE Search(page.title)) \o Search(page.content)

\* The companies of the title, then those that only the content mentions.
Ranked(page) ==
  LET titled == IF page.title = None THEN <<>> ELSE Search(page.title)
      found == Search(page.content)
  IN titled \o Only(found, {i \in DOMAIN found : found[i].company \notin CompaniesOf(titled)})

----------------------------------------------------------------------------
(* Properties *)

\* A request only ever connects to public addresses, through however many
\* redirects it is sent and whatever the name service says from one moment to
\* the next: every address of a host is checked before one is connected to
\* (link.rs:27-45).
OnlyPublicPeers ==
  \A r \in Request : fetches[r] # None => fetches[r].peers \subseteq Public

\* The companies that a page is resolved to are those of its title and those of
\* its content, each once, and the best of the title comes first: neither text
\* hides a company of the other (link.rs:82-103).
RankingComplete == \A r \in Request :
  fetches[r] # None /\ fetches[r].page # None =>
    LET page == fetches[r].page
        titled == IF page.title = None THEN <<>> ELSE Search(page.title)
        ranked == Ranked(page)
    IN /\ CompaniesOf(ranked) = CompaniesOf(titled) \cup CompaniesOf(Search(page.content))
       /\ \A i, j \in DOMAIN ranked : ranked[i].company = ranked[j].company => i = j
       /\ titled # <<>> => ranked[1] = titled[1]

============================================================================
