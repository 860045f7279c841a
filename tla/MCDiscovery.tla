---------------------------- MODULE MCDiscovery ----------------------------
(* A small instance of Discovery for TLC: three companies, a title and a     *)
(* content that name different ones, punctuation that hides a product hint.  *)
EXTENDS Discovery

MCListed == <<
  [slug |-> "alphabet", name |-> <<"alphabet">>, ticker |-> <<"googl">>],
  [slug |-> "apple", name |-> <<"apple">>, ticker |-> <<"aapl">>],
  [slug |-> "spotify", name |-> <<"spotify">>, ticker |-> <<"spot">>]>>

MCAliases == {
  [company |-> "alphabet", text |-> <<"google">>],
  [company |-> "apple", text |-> <<"iphone">>],
  [company |-> "apple", text |-> <<"apple", "watch">>]}

MCThemes == {
  [company |-> "alphabet", text |-> <<"search", "engines">>],
  [company |-> "apple", text |-> <<"smartphones">>],
  [company |-> "spotify", text |-> <<"audio">>]}

\* One that can be traded, one that is incomplete, one of before the migration.
MCAssets == {
  [company |-> "alphabet", network |-> "Solana", environment |-> "mainnet",
   active |-> TRUE, has |-> {"contract", "payment"}],
  [company |-> "apple", network |-> "Solana", environment |-> "mainnet",
   active |-> TRUE, has |-> {"contract"}],
  [company |-> "spotify", network |-> "Base Sepolia", environment |-> "testnet",
   active |-> FALSE, has |-> {}]}

MCPlain == "apple." :> <<"apple">> @@ "mobile-phone" :> <<"mobile", "phone">>
             @@ "phone." :> <<"phone">> @@ "?" :> <<>>
MCLoose == "mobile-phone" :> <<"mobile", "phone">>
MCStem == "engines" :> "engine" @@ "smartphones" :> "smartphone"

MCHints == <<
  [labels |-> {<<"mobile", "phone">>, <<"smartphone">>}, company |-> <<"iphone">>],
  [labels |-> {<<"search", "engine">>}, company |-> <<"google">>]>>

\* A direct match, a name within a text, a theme in the singular, aliases and themes
\* of several companies at once, half an alias, nothing left after punctuation.
MCQuestion == {<<"apple.">>, <<"aapl", "audio">>, <<"search", "engine">>,
               <<"smartphones", "google", "spotify">>, <<"watch", "apple">>, <<"?">>}

\* Signals with a hint, with a hint that punctuation hides, with a company and a
\* hint of another, repeated, blank, too many, and nothing at all.
MCFrame == {
  [text |-> <<"mobile-phone">>, labels |-> <<>>],
  [text |-> <<"mobile", "phone.">>, labels |-> <<>>],
  [text |-> <<"spotify">>, labels |-> <<<<"spotify">>, <<"smartphone">>>>],
  [text |-> <<>>, labels |-> <<<<>>>>],
  [text |-> <<"apple">>, labels |-> <<<<>>, <<>>, <<>>>>],
  [text |-> <<>>, labels |-> <<>>]}

MCPage == {
  [title |-> <<"apple", "watch">>, content |-> <<"google", "apple">>],
  [title |-> <<"audio">>, content |-> <<"apple", "spotify">>],
  [title |-> None, content |-> <<"spotify", "aapl">>]}

============================================================================
