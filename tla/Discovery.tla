----------------------------- MODULE Discovery -----------------------------
(***************************************************************************)
(* The search, link and lens screens of the app (SearchBloc, LinkBloc,     *)
(* LensBloc) and the passport they open (PassportBloc), over the resolver  *)
(* of the API.  A handler is cut at its awaits; bloc runs the handlers of  *)
(* one bloc concurrently, so that answers come back in any order.          *)
(*                                                                         *)
(* The three blocs share no state: kind says which of them the behaviour   *)
(* is about.  Requests of the search and the lens are answered in one      *)
(* step, the catalog being immutable; those of the link screen run through *)
(* LinkFetch, and run on when the app has given up on them.                *)
(***************************************************************************)
EXTENDS Lens, LinkFetch

CONSTANTS
  Question,   \* texts that are searched for
  Frame,      \* [text, labels] that is recognised in what the camera sees
  ChartRange,
  Day         \* the range a passport opens with

ASSUME InputAssumption ==
  /\ Question \subseteq Text \ {<<>>}
  /\ Frame \subseteq [text : Text, labels : Seq(Text)]
  /\ Day \in ChartRange

VARIABLES
  kind,      \* the screen: "search", "link" or "lens"
  calls,     \* the handlers under way
  screen,    \* the state of the bloc
  latest,    \* what was asked last, unless the screen was reset since
  passport   \* PassportState of the passport on top of the screen, if any

vars == <<kind, calls, screen, latest, passport, fetches>>

----------------------------------------------------------------------------

Inputs == CASE kind = "search" -> Question
            [] kind = "link"   -> Url
            [] kind = "lens"   -> Frame

\* overtaken records, for the properties, that something newer was asked, or the
\* screen reset, while the call was under way.
CallAbout(inputs) ==
  [pc : {"capture", "analyze", "sent", "served"}, of : inputs \cup {None}, overtaken : BOOLEAN]

Call == CallAbout(Inputs)

ASSUME CallAssumption ==
  None \notin CallAbout(Question) /\ None \notin CallAbout(Url) /\ None \notin CallAbout(Frame)

\* of is part of the state SearchLoaded and LinkAnalyzed, a history for the others.
IsScreen(s) ==
  /\ s.mode \in {"idle", "busy", "loaded", "failed"}
  /\ s.of \in Inputs \cup {None}
  /\ s.overtaken \in BOOLEAN
  /\ CompaniesOf(s.matches) \subseteq {Companies[i].slug : i \in DOMAIN Companies}
  /\ kind = "lens" => Len(s.matches) <= 1

Passport == [range : ChartRange, series : ChartRange \cup {None}, loading : BOOLEAN]

ASSUME PassportAssumption == None \notin Passport

TypeOK ==
  /\ kind \in {"search", "link", "lens"}
  /\ calls \in [Request -> Call \cup {None}]
  /\ IsScreen(screen)
  /\ latest \in Inputs \cup {None}
  /\ passport \in Passport \cup {None}
  /\ FetchTypeOK

----------------------------------------------------------------------------
(* Calls and what they show *)

Idle == [mode |-> "idle", of |-> None, matches |-> <<>>, overtaken |-> FALSE]

Waiting(r, pc) == calls[r] # None /\ calls[r].pc = pc

Overtaken(call) == IF call = None THEN None ELSE [call EXCEPT !.overtaken = TRUE]

\* A handler starts: the screen turns busy, whatever else is under way.
Ask(r, input, pc) ==
  /\ calls' = [q \in Request |->
                 IF q = r THEN [pc |-> pc, of |-> input, overtaken |-> FALSE]
                 ELSE Overtaken(calls[q])]
  /\ screen' = [Idle EXCEPT !.mode = "busy"]
  /\ latest' = input
  /\ UNCHANGED <<kind, passport>>

\* Mutant: the answer is shown under the question that was asked last.
ShowUnderLatest(r, mode, matches) ==
  /\ calls' = [calls EXCEPT ![r] = None]
  /\ screen' = [mode |-> mode, of |-> latest, matches |-> matches,
                overtaken |-> calls[r].overtaken]
  /\ UNCHANGED <<kind, latest, passport>>

\* A handler ends: the screen shows what it was called with and what came of it.
Show(r, mode, matches) ==
  /\ calls' = [calls EXCEPT ![r] = None]
  /\ screen' = [mode |-> mode, of |-> calls[r].of, matches |-> matches,
                overtaken |-> calls[r].overtaken]
  /\ UNCHANGED <<kind, latest, passport>>

\* Mutant: an error that is not a Failure goes uncaught, and the screen stays busy.
CallFailsUncaught(r) ==
  /\ calls[r] # None /\ calls[r].pc # "capture"
  /\ calls' = [calls EXCEPT ![r] = None]
  /\ UNCHANGED <<kind, screen, latest, passport, fetches>>

\* The request, or the analysis of the frame, fails or takes too long: whatever it
\* threw, the repository turns it into a Failure.  The server may still work on it.
CallFails(r) ==
  /\ calls[r] # None /\ calls[r].pc # "capture"
  /\ Show(r, "failed", <<>>)
  /\ UNCHANGED fetches

----------------------------------------------------------------------------
(* Search and link: the text field is there while an answer is awaited *)

Submit(r) ==
  /\ kind \in {"search", "link"}
  /\ passport = None
  /\ calls[r] = None /\ fetches[r] = None
  /\ \E input \in Inputs : Ask(r, input, "sent")
  /\ UNCHANGED fetches

SearchAnswers(r) ==
  /\ kind = "search"
  /\ Waiting(r, "sent")
  /\ Show(r, "loaded", Search(calls[r].of))
  /\ UNCHANGED fetches

\* A link that is refused at once is answered with an error (CallFails).
LinkArrives(r) ==
  /\ kind = "link"
  /\ Waiting(r, "sent")
  /\ Resolve(r, calls[r].of)
  /\ calls' = [calls EXCEPT ![r].pc = "served"]
  /\ UNCHANGED <<kind, screen, latest, passport>>

LinkAnswers(r) ==
  /\ Waiting(r, "served")
  /\ At(r, "done")
  /\ fetches' = [fetches EXCEPT ![r] = None]
  /\ IF fetches[r].page = None
     THEN Show(r, "failed", <<>>)
     ELSE Show(r, "loaded", Ranked(fetches[r].page))

\* The server is done with a link that the app no longer waits for.
LinkAbandoned(r) ==
  /\ calls[r] = None
  /\ At(r, "done")
  /\ fetches' = [fetches EXCEPT ![r] = None]
  /\ UNCHANGED <<kind, calls, screen, latest, passport>>

Fetching(r) ==
  /\ FetchStep(r)
  /\ UNCHANGED <<kind, calls, screen, latest, passport>>

----------------------------------------------------------------------------
(* Lens *)

\* The shutter, and "Scan again": neither while a scan or a capture is under way.
Shoot(r) ==
  /\ kind = "lens"
  /\ passport = None
  /\ screen.mode # "busy"
  /\ \A q \in Request : ~ Waiting(q, "capture")
  /\ calls[r] = None
  /\ calls' = [calls EXCEPT ![r] = [pc |-> "capture", of |-> None, overtaken |-> FALSE]]
  /\ UNCHANGED <<kind, screen, latest, passport, fetches>>

Captured(r) ==
  /\ Waiting(r, "capture")
  /\ \E frame \in Frame : Ask(r, frame, "analyze")
  /\ UNCHANGED fetches

CaptureFails(r) ==
  /\ Waiting(r, "capture")
  /\ calls' = [calls EXCEPT ![r] = None]
  /\ UNCHANGED <<kind, screen, latest, passport, fetches>>

\* A frame with nothing in it is not sent to the resolver.
Analyzed(r) ==
  /\ Waiting(r, "analyze")
  /\ IF calls[r].of.text = <<>> /\ calls[r].of.labels = <<>>
     THEN Show(r, "loaded", <<>>)
     ELSE /\ calls' = [calls EXCEPT ![r].pc = "sent"]
          /\ UNCHANGED <<kind, screen, latest, passport>>
  /\ UNCHANGED fetches

First(matches) == IF matches = <<>> THEN <<>> ELSE <<matches[1]>>

\* The first match is shown, or that there is none.
LensAnswers(r) ==
  LET answer == Recognize(calls[r].of) IN
  /\ kind = "lens"
  /\ Waiting(r, "sent")
  /\ IF answer.error = None THEN Show(r, "loaded", First(answer.matches))
                            ELSE Show(r, "failed", <<>>)
  /\ UNCHANGED fetches

\* Mutant: LensReset leaves a match on the screen.
ResetUnlessMatched(kept) ==
  /\ screen' = IF screen.matches # <<>> THEN screen ELSE Idle
  /\ calls' = [r \in Request |-> IF r \in kept THEN Overtaken(calls[r]) ELSE None]
  /\ latest' = None

\* LensReset; the scans under way are not stopped.
Reset(kept) ==
  /\ screen' = Idle
  /\ calls' = [r \in Request |-> IF r \in kept THEN Overtaken(calls[r]) ELSE None]
  /\ latest' = None

\* The lens screen is left and entered again; a capture ends with its screen.
Reenter ==
  /\ kind = "lens"
  /\ passport = None
  /\ Reset({r \in Request : ~ Waiting(r, "capture")})
  /\ UNCHANGED <<kind, passport, fetches>>

----------------------------------------------------------------------------
(* Passport *)

\* PassportOpened: the first series is there at once, and shown with the news.
Open ==
  /\ passport = None
  /\ screen.matches # <<>>
  /\ passport' = [range |-> Day, series |-> None, loading |-> TRUE]
  /\ IF kind = "lens" THEN Reset(Request) ELSE UNCHANGED <<calls, screen, latest>>
  /\ UNCHANGED <<kind, fetches>>

\* The news arrive or not, within their ten seconds.
NewsAnswers ==
  /\ passport # None
  /\ passport.loading
  /\ passport' = [passport EXCEPT !.series = Day, !.loading = FALSE]
  /\ UNCHANGED <<kind, calls, screen, latest, fetches>>

\* Mutant: only the load that is under way, if any, draws the chart again.
SelectRangeLazily ==
  /\ passport # None
  /\ \E range \in ChartRange \ {passport.range} :
       passport' = [passport EXCEPT !.range = range,
                                    !.series = IF passport.loading THEN range ELSE @]
  /\ UNCHANGED <<kind, calls, screen, latest, fetches>>

SelectRange ==
  /\ passport # None
  /\ \E range \in ChartRange \ {passport.range} :
       passport' = [passport EXCEPT !.range = range, !.series = range]
  /\ UNCHANGED <<kind, calls, screen, latest, fetches>>

ClosePassport ==
  /\ passport # None
  /\ passport' = None
  /\ UNCHANGED <<kind, calls, screen, latest, fetches>>

----------------------------------------------------------------------------

Init ==
  /\ kind \in {"search", "link", "lens"}
  /\ calls = [r \in Request |-> None]
  /\ screen = Idle
  /\ latest = None
  /\ passport = None
  /\ FetchInit

Next ==
  \/ \E r \in Request :
       \/ Submit(r) \/ Shoot(r) \/ Captured(r) \/ CaptureFails(r) \/ Analyzed(r)
       \/ LinkArrives(r) \/ LinkAbandoned(r) \/ Fetching(r)
       \/ SearchAnswers(r) \/ LinkAnswers(r) \/ LensAnswers(r) \/ CallFails(r)
  \/ Reenter
  \/ Open \/ NewsAnswers \/ SelectRange \/ ClosePassport

\* A call that does not end otherwise fails: the app gives a request twelve seconds,
\* and the analysis of a frame, which has no time limit, is taken to end.  The
\* server gives each of its own requests ten.
Spec ==
  /\ Init /\ [][Next]_vars
  /\ \A r \in Request : WF_vars(CallFails(r)) /\ WF_vars(Fetching(r))

----------------------------------------------------------------------------
(* Properties *)

\* The matches on a screen are the answer to the question it shows them under,
\* however the calls of earlier and later questions are interleaved
\* (search_bloc.dart:27, lens_bloc.dart:41).
ShownIsAnswer == screen.mode = "loaded" =>
  CASE kind = "search" -> screen.matches = Search(screen.of)
    [] kind = "lens" -> screen.matches = First(Recognize(screen.of).matches)
    [] OTHER -> TRUE

\* What a screen shows is about what was asked last, unless it was asked before
\* and still under way then: nothing brings back an answer that was on the screen,
\* and after LensReset only a scan that overlapped it is shown
\* (search_bloc.dart:25-31, lens_bloc.dart:17-45).
StaleOnlyWhenOvertaken ==
  screen.mode \in {"loaded", "failed"} /\ screen.of # latest => screen.overtaken

\* Every company that the signals of a frame name is found, whichever product
\* hints they give besides (lens.rs:85-103).
HintsOnlyAdd == \A r \in Request : kind = "lens" /\ Waiting(r, "sent") =>
  LET frame == calls[r].of
  IN ~ TooLarge(frame) => CompaniesOf(Search(FlattenSeq(Signals(frame))))
                            \subseteq CompaniesOf(Recognize(frame).matches)

Charted(p) == p.series \in {None, p.range}

\* A chart of another range than the selected one can only come from the load that
\* opened the passport, when its news arrive after the selection: the next range
\* selected is charted again (passport_bloc.dart:31-50, 61-78).
ChartFollowsRange ==
  [][passport # None /\ passport' # None /\ Charted(passport) /\ ~ Charted(passport')
     => passport.loading /\ ~ passport'.loading]_vars

\* A screen that is busy stops being so, whatever fails: each call ends within its
\* time limit and every way it ends is shown (discovery_repository_impl.dart:43-54).
ScreenSettles == screen.mode = "busy" ~> screen.mode # "busy"

\* Resolving a link ends however long the Web keeps redirecting, also when nobody
\* waits for it any more (link.rs:27-65).
FetchesEnd == \A r \in Request : fetches[r] # None ~> (fetches[r] = None \/ At(r, "done"))

============================================================================
