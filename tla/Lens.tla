-------------------------------- MODULE Lens --------------------------------
(***************************************************************************)
(* lens.rs: what the recognised text and labels of a camera frame say.     *)
(*                                                                         *)
(* Product hints are looked for in the signals as they were sent, with     *)
(* hyphens as the only punctuation that counts as a space (Loose), and     *)
(* the catalog is searched with the signals and the hints together.  The   *)
(* size limits, in characters in the code, count tokens here.              *)
(***************************************************************************)
EXTENDS Catalog, FiniteSets

CONSTANTS
  Hints,         \* PRODUCT_HINTS: [labels : phrases, company : text]
  Loose,         \* tokens with a hyphen |-> the tokens around it
  MaxText, MaxLabels, MaxLabel

ASSUME RefusalAssumption == None \notin {"InputTooLarge", "EmptyInput"}

ASSUME HintsAssumption == Hints \in Seq([labels : SUBSET Text, company : Text])

-----------------------------------------------------------------------------

TooLarge(frame) ==
  \/ Len(frame.text) > MaxText
  \/ Len(frame.labels) > MaxLabels
  \/ \E i \in DOMAIN frame.labels : Len(frame.labels[i]) > MaxLabel

\* The text and the labels, each once, without the blank ones.
Signals(frame) ==
  LET given == <<frame.text>> \o frame.labels
  IN Only(given, {i \in DOMAIN given : /\ given[i] # <<>>
                                      /\ \A j \in 1 .. i - 1 : given[j] # given[i]})

Spaced(token) == IF token \in DOMAIN Loose THEN Loose[token] ELSE <<token>>

\* The hints that signals give, in the order of the table.
Inferred(signals) ==
  LET text == FlattenSeq(signals)
      seen == FlattenSeq([i \in DOMAIN text |-> Spaced(text[i])])
  IN Only(Hints, {i \in DOMAIN Hints : \E label \in Hints[i].labels : Phrase(seen, label)})

\* Mutant: hints replace the signals they come from.
QueryOfHints(frame) ==
  LET signals == Signals(frame)
      hints == Inferred(signals)
  IN IF hints = <<>> THEN FlattenSeq(signals)
     ELSE FlattenSeq([i \in DOMAIN hints |-> hints[i].company])

Query(frame) ==
  LET signals == Signals(frame)
      hints == Inferred(signals)
  IN FlattenSeq(signals) \o FlattenSeq([i \in DOMAIN hints |-> hints[i].company])

\* resolve: the matches, or why there are none.
Recognize(frame) ==
  LET error == IF TooLarge(frame) THEN "InputTooLarge"
               ELSE IF Signals(frame) = <<>> THEN "EmptyInput" ELSE None
  IN [error |-> error, matches |-> IF error = None THEN Search(Query(frame)) ELSE <<>>]

=============================================================================
