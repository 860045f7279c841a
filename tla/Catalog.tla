------------------------------ MODULE Catalog ------------------------------
(***************************************************************************)
(* CompanyCatalog (catalog.rs): the companies the API knows, loaded once   *)
(* at boot (load_catalog of database.rs) and never changed, and the        *)
(* scoring of a text against them.                                         *)
(*                                                                         *)
(* A text is the sequence of tokens between its spaces.  Case, which every *)
(* comparison ignores, is left out; punctuation is not: Plain gives the    *)
(* words that a token falls into when everything but letters and digits    *)
(* becomes a space, where that is not the token itself.                    *)
(***************************************************************************)
EXTENDS FiniteSets, Naturals, Sequences, SequencesExt

CONSTANTS
  Listed,    \* table companies, in the order of names: [slug, name, ticker]
  Aliases,   \* table company_aliases: [company, text]
  Themes,    \* table company_themes: [company, text]
  Assets,    \* table tokenized_assets: [company, network, environment, active, has]
  Plain,     \* tokens with punctuation |-> their words
  Stem,      \* words that end in s |-> what is left, if longer than two letters
  None

----------------------------------------------------------------------------

\* The asset a company is offered with: of the network that is traded on now.
OfferedAssets(slug) ==
  {asset \in Assets : /\ asset.company = slug
                      /\ asset.active
                      /\ asset.network = "Solana"
                      /\ asset.environment = "mainnet"}

TextsOf(slug, table) == {row.text : row \in {row \in table : row.company = slug}}

\* load_catalog
Companies == [i \in DOMAIN Listed |->
  LET slug == Listed[i].slug
      offered == OfferedAssets(slug)
  IN [slug    |-> slug,
      name    |-> Listed[i].name,
      ticker  |-> Listed[i].ticker,
      aliases |-> TextsOf(slug, Aliases),
      themes  |-> TextsOf(slug, Themes),
      asset   |-> IF offered = {} THEN None ELSE CHOOSE asset \in offered : TRUE]]

Text == Seq(STRING)

ASSUME TablesAssumption ==
  /\ Listed \in Seq([slug : STRING, name : Text, ticker : Text])
  /\ Aliases \cup Themes \subseteq [company : STRING, text : Text]
  /\ \A token \in DOMAIN Plain : Plain[token] \in Text

\* companies.slug is unique, and so is a company's asset in a network.
ASSUME KeysAssumption ==
  /\ \A i, j \in DOMAIN Listed : Listed[i].slug = Listed[j].slug => i = j
  /\ \A a, b \in Assets :
       <<a.company, a.network, a.environment>> = <<b.company, b.network, b.environment>> => a = b

Words(token) == IF token \in DOMAIN Plain THEN Plain[token] ELSE <<token>>
Normalize(text) == FlattenSeq([i \in DOMAIN text |-> Words(text[i])])

\* Whether the words of needle stand in text side by side.
Phrase(text, needle) ==
  \E i \in 0 .. Len(text) - Len(needle) : SubSeq(text, i + 1, i + Len(needle)) = needle

Singular(word) == IF word \in DOMAIN Stem THEN Stem[word] ELSE word

SameWord(left, right) == left = right \/ Singular(left) = Singular(right)

Names(company) == {Normalize(company.name), Normalize(company.ticker)}

\* A name that normalises to nothing would be found in every text.
ASSUME NamesAssumption ==
  \A i \in DOMAIN Companies :
    /\ <<>> \notin Names(Companies[i])
    /\ \A alias \in Companies[i].aliases : Normalize(alias) # <<>>
    /\ \A theme \in Companies[i].themes : Normalize(theme) # <<>>

OnTheme(query, theme) ==
  \A word \in Range(Normalize(theme)) : \E item \in Range(query) : SameWord(item, word)

\* The confidences, in percent, that query gives reason for; the code tries them
\* from the highest down.
Confidences(company, query) == {score \in {100, 98, 95, 75} :
  \/ score = 100 /\ query \in Names(company)
  \/ score = 98 /\ \E name \in Names(company) : Phrase(query, name)
  \/ score = 95 /\ \E alias \in company.aliases : Phrase(query, Normalize(alias))
  \/ score = 75 /\ \E theme \in company.themes : OnTheme(query, theme)}

\* 0 stands for no match.
Score(company, query) == Max(Confidences(company, query) \cup {0})

\* An instrument the API can name in full; asset is the set of the fields it has.
Actionable(company) ==
  /\ company.asset # None
  /\ {"contract", "payment"} \subseteq company.asset.has
  /\ company.asset.network = "Solana" \/ {"market", "chain"} \subseteq company.asset.has

Match(company, query) ==
  [company |-> company.slug, confidence |-> Score(company, query),
   actionable |-> Actionable(company)]

\* The elements of S in order; before tells which of them come before each.
InOrder(S, before) ==
  [n \in 1 .. Cardinality(S) |-> CHOOSE x \in S : Cardinality(before[x]) = n - 1]

\* What s has at some of its places.
Only(s, places) ==
  LET kept == InOrder(places, [i \in places |-> {j \in places : j < i}])
  IN [n \in DOMAIN kept |-> s[kept[n]]]

\* The matching companies, best first and otherwise in the catalog's order.
Search(text) ==
  LET query == Normalize(text)
      score == [i \in DOMAIN Companies |-> Score(Companies[i], query)]
      found == {i \in DOMAIN Companies : score[i] > 0}
      better(i) == {j \in found : score[j] > score[i] \/ (score[j] = score[i] /\ j < i)}
      ranked == InOrder(found, [i \in found |-> better(i)])
  IN [n \in DOMAIN ranked |-> Match(Companies[ranked[n]], query)]

CompaniesOf(matches) == {matches[i].company : i \in DOMAIN matches}

============================================================================
