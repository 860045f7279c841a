# Tickerless in TLA+

Tickerless resolves what a user types, photographs or pastes to a listed company and its
tokenized equity on Solana. The repository holds a Rust API (`crates/tickerless-api`, actix-web
and PostgreSQL), a Flutter client (`apps/mobile`) and a set of older Solidity contracts
(`contracts`). This directory models the parts of it whose correctness depends on order: who
runs when, what fails between two steps, what is read early and used late.

`PROJECT.json` lists the components, the runs, the source lines behind every definition, the
hazards and the theorems. Everything is plain TLA+: `tlc -config X.cfg MCx` repeats a run,
`tlapm XProofs.tla` repeats a proof.

## 1. Inventory

| Component | State | Operations | What is hard about it |
|---|---|---|---|
| Account store and `/v1/auth` (`lib.rs`, `database.rs`, `auth.rs`, migrations 1, 6, 8) | tables `users`, `auth_identities`, `auth_sessions`; a pool of 10 connections | register, login, Google login, me, bind wallet, logout, expiry | every database round trip is a point where other requests run; one multi-statement transaction; lost answers and retries |
| Google verification (`google.rs`) | a shared cache of signing keys with an expiry | verify | concurrent fetches store in any order; keys rotate meanwhile; claims are checked before the wait |
| Sign-in on the device (`AuthBloc`, auth repository, secure storage, wallet key store) | the bloc's state; two session entries and one key per account in secure storage | restore, sign in, guest, sign out, dismiss error | handlers run concurrently and are cut at every await; the app is killed; storage and network fail; the server acts and the answer is lost |
| Router and sign-in screens | the route | redirects, buttons | which events can be sent in which state |
| Link resolution (`link.rs`) | one fetch per request | resolve | a redirect loop in which every hop is checked; limits on size, time and hops |
| Catalog, search, lens (`catalog.rs`, `lens.rs`) | the catalog, loaded once | search, resolve text and labels | scoring, ties, empty input |
| Quotes (`xstocks.rs`, `ownership_quote`) | none | quote | upstream failure and the cached price; rounding |
| Ledger (`create_discovery`, `record_transaction`, `world`) | tables `discoveries`, `transactions` | record, list, summarize | idempotence by signature; two reads in one answer; a caller that no longer exists |
| Portfolio (`PortfolioBloc`) | positions and transactions in memory | request, purchase, chain sync | state read before an await; a sync replaces what a purchase wrote |
| Passport, search, link, lens blocs | one screen state each | open, select range, submit, scan, reset | answers in the wrong order, answers after a reset |
| Wallet (`activity_screen.dart`, `solana_devnet_gateway.dart`) | snapshot, send sheet | poll, review, send SOL or USDC | a sent transfer reported as failed; the balance read early; two transactions in one transfer |
| Contracts (`TickerlessMarket`, `DemoToken`, `DemoPaymentToken`) | balances, prices, inventory | buy, sell, set price, withdraw, claim | rounding and conservation; historical |
| Start-up, profile, appearance, widgets | a few entries | read, write | last writer wins |

How they interact. The client calls the API over HTTP with a bearer token it keeps in secure
storage. `AuthBloc` talks to the API through the auth repository and to the key store through
the wallet repository; the router and `app.dart` listen to its stream, and a new wallet address
makes `app.dart` ask Solana for a snapshot and hand it to `PortfolioBloc`. In the API all
requests share the connection pool, the Google key cache and the read-only catalog; the only
other shared state is the database.

What makes each component correct, in a line: an account has one owner, a credential that
reaches it and one wallet, and no answer is taken back (accounts); a key is usable while
Google publishes it and not for long after (Google); the token, account, wallet and key of a
device belong together and the app never gets stuck (device); every hop is public and bounded
(links); the best match does not depend on order (catalog); a quote is never for an
amount out of range (quotes); a signature is recorded once and totals match positions (ledger);
what was recorded stays visible (portfolio); what is shown belongs to what was asked last
(screens); one confirmation sends once (wallet); a round trip never gains (contracts).

The hazards are in `PROJECT.json`, each at its line, with the properties that cover it; two have
none, and say why.

## 2. Plan

| Order | Module | Contents | State |
|---|---|---|---|
| 1 | `AccountRegistry` | what the account store promises; every operation atomic | done |
| 2 | `Accounts` | the store itself; implements `AccountRegistry` | done, proved |
| 3 | `GoogleKeys` | the key cache, with a clock | done, proved |
| 4 | `DeviceSession` | the device, composed with `AccountRegistry` as its server | done, proved |
| 5 | `Transfers` | wallet screen, send sheet and gateway against a chain that acts late or never | done, proved |
| 6 | `Catalog`, `Lens` | loading and scoring of companies; what a camera frame says; as operators | done, proved |
| 7 | `LinkFetch` | the redirect loop against a Web that changes meanwhile | done, proved |
| 8 | `Discovery` | the search, link and lens screens and the passport, with overlapping handlers, over 6 and 7 | done, proved |
| 9 | `LedgerBook` | what the ledger promises; every operation atomic | done |
| 10 | `Ledger` | discoveries and purchases, cut at their round trips; implements `LedgerBook` | done, proved |
| 11 | `DeviceSessionProofs` | type correctness, `SessionsCoherent`, `WalletOfAccount`, `SignedOutStaysOut`, `SignInBindsWallet` | done |
| 12 | `CatalogProofs` | what a search finds; with it, type correctness of `Discovery` and `RankingComplete`, `HintsOnlyAdd`, `ShownIsAnswer` | done |

Each component has a module that only TLC uses (`MC...`), with the values of its constants, and
its proofs in a module of their own (`...Proofs`). `DeviceSession` composes the device with the
abstract server rather than with `Accounts`: the proof that `Accounts` implements
`AccountRegistry` is what makes that legitimate. `Discovery` composes the screens with the
resolver itself, whose state is one record per request. What is left out for good is in section 10.

## 3. The account store: `Accounts`, `AccountRegistry`

### State and actions

`users`, `identities` and `sessions` are the three tables; a row of `None`s stands for no row,
which the constraint `users_identity_present` makes unambiguous. `input`, `pc`, `who` and
`reply` are what each request carries through its handler: the decoded body or bearer token,
the next round trip, the account it works for and its answer. A new account or session is named
after the request that creates it, because identifiers and tokens are random and never reused.

An action is one database round trip with the code that runs after it up to the next await.

| Handler | Actions |
|---|---|
| `register_email` | `RegisterBegin` (hash in a worker thread, then a connection), `RegisterInsert`, `CreateSession` |
| `login_email` | `LoginRead`, `LoginVerify` (worker thread, the hash read before, the dummy hash if none), `CreateSession` |
| `login_google` / `google_user` | `GoogleFind`, `GoogleCheckEmail`, `GoogleInsertUser`, `GoogleInsertIdentity`, `GoogleCommit`, `CreateSession` |
| `current_user`, `bind_wallet` | `Authenticate`, `UpdateWallet` |
| `logout` | `Revoke` |
| every one | `Arrive` (routing), `Fail` (statement error, pool timeout, client gone, process stopped) |

`authenticated_user` is a transaction of a SELECT and an UPDATE of `last_used_at`, which
nothing reads; its SELECT decides, so it is one action. Rows inserted by `google_user` are seen
by nobody before `GoogleCommit`, but an INSERT of the same key waits (`EmailPending`,
`SubjectPending`), which is what PostgreSQL does on a unique index at READ COMMITTED.
`Holding` names the phases that keep a connection from one step to the next, and
`ConnectionFree` is what other statements wait for. A write whose acknowledgement is lost
answers `error` with the row in place.

`AccountRegistry` has four operations: create an account complete with address and one
credential, bind a wallet, open a session, end one. The refinement mapping reads the address and
the wallet of an account from its row, and its credentials from the password and the identities.

### Properties

`UniqueKeys`, `EveryAccountReachable`, `SessionsMatchCredentials`, `RepliesStayTrue`,
`EndedSessionsRefused` (safety), `EveryRequestAnswered` (liveness), `ImplementsRegistry`
(refinement); the comment above each says which behaviour of the code it is about.

### Bounds and fairness

`accounts_safety` has four requests over two addresses, two subjects, two wallets (one of them
an old wallet-only user) and two connections. Four are needed because the properties relate up
to three concurrent writers and a session that one of them uses; two values of each key
distinguish "mine" from "another's". The second password is the one behind the dummy hash, so
that a login without an account can verify. `accounts_live` has three requests against a pool
of two: with two transactions holding both connections and a third request waiting, every kind of
wait occurs. Requests are handled once, so runs end and deadlock is not checked; that no request
is stuck is what `EveryRequestAnswered` says.

Weak fairness of every request's next step is what the executor (it polls every ready task), the
worker pool and sqlx (it hands out connections first come, first served) provide. Arrival and
failures are not fair.

## 4. Google verification: `GoogleKeys`

`cache` is `GoogleVerifier.cache`; `since` and `until` say when Google published and withdrew
each key; each request carries its token, the time it began, the body of its fetch and when it
was answered. `Arrive` is `verify` up to its only await (claims, then `cached_key`); `Serve` is
Google's answer, `Store` everything after it: the lookup, the replacement of the cache, the
signature. `Fail` is any error of the fetch. Time advances by `Tick`, which waits for a fetch that
has reached the client's timeout, so a fetch takes at most `Timeout`; code without an await takes
no time. Decoding and RSA are abstracted to "the signature is right or wrong".

`WithdrawnKeyExpires` bounds how long a withdrawn key works by one fetch plus one max-age,
although answers are stored in the order they arrive; `PublishedKeyFound` says that a rotation
locks nobody out although the cache may be old or overwritten; `ExpiredTokenBound` bounds how
late an expired token passes. The run has three requests (an old answer stored after a newer one,
and a reader of the result), two keys, timeout and max-age of one tick and three ticks, enough to pass
every bound by one. The module has no fairness: a fetch is bounded by the clock.

## 5. The device: `DeviceSession`

A task is one run of a handler of `AuthBloc`. Bloc's default transformer runs handlers
concurrently, so every await is a cut: `pc` says which storage or HTTP call comes next. `token`,
`identity` and `keys` are the entries of secure storage; `wallet` and `session` are the server,
changed only through `AccountRegistry`'s `Open`, `Bind` and `End`. Tokens and keys are random and
are named after the task that obtained or generated them.

| Code | Actions |
|---|---|
| `_onRestoreRequested`, `restoreSession` | `Launch` (and `Init`), `ReadIdentity`, `ReadToken`, `Me`, then as below |
| `_onEmailSubmitted`, `_onGoogleRequested`, `_authenticate`, `_persist` | `SignInRequested`, `Exchange`, `CacheToken`, `CacheIdentity` |
| `ensureWallet`, `bindWallet`, the last emit | `EnsureRead`, `EnsureWrite`, `Bind`, `Finish` |
| `_onSignOutRequested`, `clearToken` | `SignOutRequested`, `DeleteToken`, `DeleteIdentity` |
| `_onGuestRequested`, `_onErrorDismissed` | `GuestRequested`, `ErrorDismissed` |
| exceptions and the catch that takes them | `Fail`, `Throw` with `Recovery` and `Emitted` |
| outside | `SessionExpires`, `OtherDeviceBinds` |

`Launch` at any time is a crash and a restart: the bloc is new, running handlers are gone,
storage and server stay. `Exchange` and `Bind` may act at the server and then throw on the
device. The guards of the three requests are what the screens allow: a second sign-in while one is
in progress is possible because the keyboard submits the e-mail form
(`email_auth_screen.dart:104`), unlike its button.

The safety run has four handler runs and two accounts, which allows a launch, two overlapping
sign-ins or a sign-out among them, and a relaunch; the liveness run has three and one account. Weak fairness of a
task's next step is the Dart event loop, storage that returns or throws, and the timeout on
every HTTP call. User events and crashes are not fair.

Two runs show where the code does not do what its text says:

* `device_binding_gap`: a restore whose wallet could not be bound is authenticated all the same;
  the comment in `auth_bloc.dart:67-68` says trading remains unavailable.
* `device_key_lost`: two overlapping logins to an account without a wallet generate a key each;
  the server binds one, secure storage keeps the other. The README of the repository promises
  a stable, locally secured wallet.

What holds instead is stated by `SignInBindsWallet` (a sign-in, as opposed to a restore, ends with
the shown wallet bound) and `WalletOfAccount` (a shown wallet's key was generated for the
account it is shown with).

## 6. The wallet: `Transfers`

The wallet screen shows one snapshot of two balances. A timer (every twelve seconds), the user, a
return to the app and a finished transfer ask for a new one; `_refresh` ignores whoever asks
while a call is under way. The send sheet reviews a transfer against the snapshot it was opened
with. A USDC transfer to somebody without a USDC account is two transactions, and neither can be
taken back once it is handed to the chain, whatever its sender is told.

| Code | Actions |
|---|---|
| `_LiveWalletState`: `initState`, `_refresh`, `dispose` | `Enter`, `Refresh`, `Leave` |
| `SolanaDevnetGateway.snapshot` and what `_refresh` does with it | `ReadSol`, `ReadToken`, `MissToken` (the catch-all around the token account), `Deliver`, `FetchFails` |
| `_send`, the fields and the asset switch, closing the sheet | `Open`, `Edit`, `Dismiss` |
| `_reviewAndSend` and its review sheet | `Review`, `GoBack`, `Confirm`, `Vibrated` |
| `sendUsdc`, `sendNative` | `CheckAccount`, `CreateAccount`, `AccountReady`, `Transfer` |
| the end of `_reviewAndSend` | `Sent` (closes the sheet, refreshes), `Failed` (its catch) |
| the chain, external | `Chain`: a transaction that was handed over lands |

`ledger` lists what changed the wallet's balances with what was left, and a balance that was read
is represented by the length of the ledger it was read from, so that "older" means something:
`NeverBackwards` says no shown balance is replaced by an older one. `PaidAsConfirmed` ties every
payment on the ledger to one review sheet, its recipient and its amount; `SentMeansPaid` ties the
success message to the payment rather than to the account created for it. `PaymentsAreShown`
says that both balances catch up. It cannot say "after the transfer's own refresh": that one is
skipped when the timer's is under way, and then shows a balance from before the payment until
the next tick. `SheetComesBack` says that the send button is not left disabled.

The chain is a stand-in for Solana as the gateway sees it: a transaction lands now, later or
never, if its sender can pay for it. Deposits from others and the lag of a finalized read behind
a confirmed one are left out; with the lag, the refresh after a transfer would be older still. An
upper bound on the age of a pending transaction (its blockhash) is left out too, so the chain is
slower than the real one. `buy` and `sell` of the gateway throw before they touch anything.

`transfers_safety` has two sends, which may overlap because the sheet can be dismissed and
opened again while one is under way, and two overlapping snapshot calls so that a second one
could start if the guard were missing; one recipient, who has no account at first; two amounts and
funds of three, so that the second transfer may or may not be covered. The two fetches and the
two sends are interchangeable, hence symmetry. `transfers_live` has one send and no symmetry.
Its fairness: the poll timer fires again and again while the screen is mounted; an RPC call ends
and does not fail every time (strong fairness of the two reads; without it an unreachable node
keeps the old balance for ever, as it does in reality); every await of a send ends, if need be
with an error. Users and the chain owe nothing. The screen can always be left and entered again,
and deadlock is checked.

`transfer_asset` shows a transfer of an asset that the review sheet did not display: the
vibration is awaited after the confirmation and before the asset is read again
(`activity_screen.dart:716`), and the sheet's asset switch works meanwhile. Recipient and amount
are read before the review, which is why `PaidAsConfirmed` speaks of those two.

## 7. Search, link, lens and passport: `Catalog`, `Lens`, `LinkFetch`, `Discovery`

`Catalog` and `Lens` have no state: the API loads its companies once (`load_catalog`) and answers
from memory. A text is the sequence of its tokens; case is left out, punctuation is not, because
it is where two conversions of the code differ: the catalog turns everything but letters and
digits into a space (`Plain`), the product hints only hyphens (`Loose`). A sort is written by what
comes before each element (`InOrder`), a filter or a loop that skips duplicates by the places it keeps
(`Only`): both say what the code returns, and are definitions that can be reasoned about.

| Code | Definitions |
|---|---|
| `load_catalog`, `CompanyRecord` | `Companies`, `OfferedAssets`, `Actionable` |
| `normalize`, `contains_phrase`, `score_company`, `search` | `Normalize`, `Phrase`, `Confidences`, `Score`, `Search` |
| `lens::resolve`, `inferred_product_companies`, `normalized_signals` | `TooLarge`, `Signals`, `Inferred`, `Query`, `Recognize` |
| `link::resolve`, `validate_url`, `resolve_public_address` | `Resolve`, `Invalid`, `Lookup` |
| the redirect loop, the response and its body, `page_matches` | `Redirect`, `Respond`, `Read`, `Ranked` |
| `SearchBloc`, `LinkBloc`, `LensBloc` | `Submit`, `SearchAnswers`, `LinkArrives`, `LinkAnswers`, `Analyzed`, `LensAnswers`, `CallFails`, with `Ask`, `Show` and `Reset` for what they emit |
| the shutter and the camera of `lens_screen.dart` | `Shoot`, `Captured`, `CaptureFails`, `Reenter` |
| `PassportBloc` | `Open`, `NewsAnswers`, `SelectRange`, `ClosePassport` |

A fetch is cut at the lookup of the host, at the answer and at the body, and each may fail. It goes on
when the app has stopped waiting for it (`LinkAbandoned`). The handlers of a bloc run
concurrently: the text field stays usable while an answer is awaited, and an answer is
shown under the question it was asked with, whatever has been asked since. So a late answer
does replace a newer one. `StaleOnlyWhenOvertaken` says how far that goes: only an answer whose
call was still under way when the newer question was asked, or the screen reset.
`ShownIsAnswer` says that question and matches shown together belong together.
`ChartFollowsRange` says the same of the passport: only the load that opened it can
put a chart of another range under the selected one, and only until the next selection.
`OnlyPublicPeers` is about the gap between a lookup and the connection, hop by hop;
`RankingComplete` and `HintsOnlyAdd` say that merging two texts, or adding words to a query, loses
no company. `ScreenSettles` says that every way a call ends reaches the screen, and `FetchesEnd`
that the hop limit ends a loop of redirects.

`discovery` has two overlapping calls on one of the three screens (which is chosen in `Init`, as
the blocs share nothing), two named hosts and `localhost`, a public and a private address, so that
every lookup can be good, bad or mixed, and two redirects instead of five, which is enough to be
stopped by the limit after having been redirected. The catalog has three companies, of which one
is tradable, one incomplete and one of before the migration to Solana; questions, frames and pages
are chosen to reach each confidence and each way a hint is seen or missed. Two chart ranges
suffice to differ. Fairness: a call under way fails at the latest after the app's limit of twelve
seconds, and a fetch goes on or fails because the server limits each of its own requests to ten.
The analysis of a frame has no limit in the code; the model assumes that it ends.

Two statements of the repository's documentation on links are not what the code does:
its README (145-147) says that fetching does not follow redirects, and `link.rs:27-65` follows up to
five, checking each; and that title matches are ranked as the primary subject, where a match of
the content is the primary one if the title has none (`Ranked`). They are about wording rather
than about an interleaving and have no run.

## 8. Discoveries and purchases: `LedgerBook`, `Ledger`

`discoveries` and `transactions` are the tables; `order` is the order of `created_at`, which
PostgreSQL takes at BEGIN. A discovery is named after the request that creates it. `Accounts` shows
that an account and its wallet, once together, stay so; a user is therefore its wallet here.
`Purchase` says what the chain verified of each transaction and is external.

| Code | Actions |
|---|---|
| `create_discovery` | `Arrive`, `BeginCreate`, `CommitCreate` |
| `record_transaction` | `Begin`, `UpsertUser`, `Claim`, `Insert`, `Commit` |
| `world` | `ReadWorld`, once for each of its two statements |
| `discovery_history` | `ReadHistory` |
| `submit_transaction` | `Arrive`, which refuses it (`Refusal`) |
| any failure, or a client that has gone | `Fail`, which rolls back |

`record_transaction` has no caller in this build: `submit_transaction` answers every request
with a refusal before it (`execution_unavailable` at the latest). It is public, and tested, so it is
modelled as the function that its test calls, for a purchase that was verified and maybe
for one that was recorded before.

A transaction takes the row of the buyer, then the row of the discovery, then the entry of the signature in
its unique index, and keeps each until it ends; the guards of `UpsertUser`, `Claim` and `Insert` are
these waits, and `Others` the requests waited for. The UPDATE that claims a discovery looks at the
row again after its wait, as READ COMMITTED does. The acknowledgement of a COMMIT may be lost, so
`error` does not mean that nothing happened; a retry is then told `duplicate`.

`LedgerBook` promises that a purchase is entered once and for good, together with the claim of the
discovery it names; `ImplementsBook` is the refinement. `RecordedOnce` and `ClaimedByPurchase` state
it of the tables and the answers; `Latest` takes the newest rows of a history as the places in
`order` from which on there are at most as many as the limit; `WorldIsCurrent` relates the two statements of `world`, outside
any transaction: a position always comes with its discovery because positions are read first.
`EveryRequestAnswered` excludes a circle of requests waiting for rows and connections.

`ledger` has three requests over two connections, chosen from five purchases to record (two of one
wallet, one of another, naming an earlier discovery, a new one, the same one, or none), a
creation, a world, a history and a refused submission; `Asked` bounds what is asked for. Three are what it
takes for two that compete and one that reads or waits. Limits of a history are clamped to one instead
of a hundred. Requests are handled once, so deadlock is not checked. Weak fairness of each
request's next step is the executor, and PostgreSQL and sqlx serving those who wait in turn.

## 9. What is proved

| Module | Theorems | Argument |
|---|---|---|
| `AccountsProofs` | `TypeCorrect`, `KeysUnique`, `AccountsReachable`, `NoTakeOver`, `RepliesHold`, `EndedRefused`, `Permanence` | one inductive invariant `IInv`, preserved by each of the fifteen actions |
| `AccountsRefinement` | `Refinement` | initial states map to initial states; each action maps to one registry operation or to a stutter |
| `GoogleKeysProofs` | `TypeCorrect`, `KeysExpire`, `KeysFound`, `TokensExpire` | an inductive invariant that carries the age of a key from the answer into the cache |
| `TransfersProofs` | `TypeCorrect`, `PaymentsConfirmed`, `SuccessPaid`, `BalancesMoveForward` | an inductive invariant that follows a transaction from the send that hands it over to the ledger, and a balance from the call that reads it to the screen |
| `DeviceSessionProofs` | `TypeCorrect`, `SessionsBelongTogether`, `WalletsOfAccounts`, `SignInsBind`, `SignedOutForGood` | an inductive invariant that says what each handler carries, and which handlers can run beside each other, preserved by each of the twenty actions |
| `CatalogProofs` | `SearchIsComplete`, `MoreTextHidesNothing` | a search lists exactly the companies with a score, each once and in order; a text that goes on still contains every phrase and every theme of its beginning |
| `DiscoveryProofs` | `TypeCorrect`, `PeersArePublic`, `ShownAnswers`, `StaleWasOvertaken`, `ChartsFollow`, `RankingsComplete`, `HintsHideNothing` | an inductive invariant about the screen, every call that may still be shown and every fetch that may still connect; the last two from `CatalogProofs` |
| `LedgerProofs` | `TypeCorrect`, `PurchasesRecordedOnce`, `ClaimsHavePurchases`, `WorldAnswersHold`, `Refinement` | an inductive invariant about the open transactions; each step maps to one entry in the book or to a stutter |

The theorems hold for all values of the constants under the assumptions named in the modules:
kinds of identifiers are disjoint, `None` is none of them (nor an error text), the pool is not empty,
times are natural numbers, addresses that count as public are addresses, and `Day` is a range. Names,
aliases, themes, hints, questions and frames are texts, that is sequences of words; slugs are unique, as
the key of `companies` makes them; and no name, alias or theme normalizes to nothing
(`NamesAssumption`), which holds of every row that the migrations insert. Nothing is assumed to be
finite but the discoveries there were before (`Earlier`, whose order `SetToSeq` chooses); a catalog is
finite because it is a sequence. TLC evaluates each assumption on the values of the runs.

Why strengthening is needed. `SessionsMatchCredentials` says nothing of a request that has
proved a credential and not yet opened its session, so `WhoInv` does; `UniqueKeys` covers rows of
open transactions; `RepliesStayTrue` is kept by `Permanent` facts (a set column is never
overwritten), which need `FreshInv`: the row named after a request is still empty when the
request writes it. In `GoogleKeys` the bound on a withdrawn key follows from when the answer that
listed it was given, so `BodyInv` relates an answer to the time its request began, `FetchInv`
bounds the fetch, and `CacheInv` carries both into the cache's expiry. In `Transfers` a payment on
the ledger says nothing of one still on its way, so `StageInv` and `OnceInv` speak of both;
`SheetInv` says that at most one send has the sheet, without which a failure could write to a
sheet that is gone; and `NeverBackwards` needs `OneCall` (a refresh ignores whoever asks while a
call is under way) and `CallInv` (what is shown is no newer than what the call has read). In
`Ledger` the tables say nothing of the transactions that are open: `LockInv` says which two of them
cannot be open at once, and from it `ClaimInv` and `NewInv` follow, that what a transaction found when
it looked (the discovery claimable, the signature new) still holds when it commits. The refinement needs
exactly these two at `Commit`, because the book looks and enters in one step. In `Discovery` the
screen says nothing of the calls that will be shown next, so `CallInv` says of each what
`StaleOnlyWhenOvertaken` says of the screen, and `FetchInv` carries the check of an address from the
lookup to the connection. `ScreenInv` adds that what is shown is what that kind of call answers, for which
a served call must belong to the link screen, and a frame with nothing in it must match nothing. In
`Ledger`, `ReadInv` adds what a request has read: with it `TypeOK`, whose bound on a history is a count of
the places that `Latest` takes.

`DeviceSession` needs most. Its four safety properties speak of the entries in storage and of the screens;
what breaks them is a handler that comes back from an `await` with something old. So `CarryInv` and
`KeyInv` say what each handler carries (a key is one generated for the account of the session it goes
with), `IssuedInv` that a session belongs to the sign-in it was issued to, and `LinkedInv` that the
server's binding stays. `AloneInv` is the reason why a restore cannot meet a sign-out: nothing else runs
until the startup screen is left. `ShownInv` says that the sign-in of a session that was ever on the
screens is over, so no `cache_token` of it is still to come when its sign-out deletes the entries; and
`WipeInv` follows the two deletions, the token before the identity, up to the state in which nothing
left can show that session again. `SignedOutStaysOut` is one conjunct of that last state, and
is not inductive without the others: a crash between the deletions leaves one entry of the two.

`CatalogProofs` is about operators rather than states. That `InOrder` lists each element once is a
counting argument: what stands before an element has a smaller rank, so ranks are injective, and an injection
of a finite set into as many numbers reaches all of them. The joins of `FlattenSeq` need induction, which
`Induction` provides as a fact about sets of numbers (from the least element of the ones left out). Then
`Normalize` of a text that goes on is the normalized beginning followed by more words
(`NormalizeConcat`), and each reason to score a company survives that, or gives way to another: a text that
is a name becomes one that contains it. The confidence may change, the company stays.

Every safety invariant and every action property of the passing runs is stated by a theorem. Only
model-checked is liveness: `EveryRequestAnswered` of both modules, `LaunchCompletes`, `SignInSettles`,
`PaymentsAreShown`, `SheetComesBack`, `ScreenSettles` and `FetchesEnd`. Fairness and ENABLED are out of the
prover's reach.

## 10. What is not modelled, and why

Decoding, hashing, signatures and JSON are abstracted to their result; so are the parsing of URLs
and HTML and the address ranges of `is_public_ip`, which are pure and covered by unit tests.
`last_used_at` and error texts are left out: nothing depends on them. The rate of the clock, disk
failures of PostgreSQL and a second API process with its own key cache are outside the models
(requests of a second process are covered in `Accounts` and `Ledger`, where nothing but the database
and the pool is shared).

Components without a module:

* Quotes (`xstocks.rs`): one upstream call, a fallback to the cached price and one division; no state,
  and nothing in this build executes a quote.
* Receipt verification (`chain.rs`): reads receipts of an EVM network, which the assets left in migration 10;
  nothing but its tests calls it. Its answer `Pending` cannot occur, since an absent receipt fails to decode and ends
  as an `Rpc` error.
* Portfolio on the device: its handlers could overlap, but no `PurchaseRecorded` is ever
  sent, because `buy` throws, and every snapshot carries the constant empty list of positions.
* Contracts: kept for reference, according to the repository's README; nothing calls them.
* Start-up (a straight line), profile and appearance (a few entries, the last writer wins), layout,
  themes and native shells.
* Routing is modelled only as far as it decides which events the screens can send.

The source that a passport is opened with from the link screen is the text of the field at the time of the
tap (`link_screen.dart:102`), which can differ from the URL that the matches are of. Nothing says which is
meant, and the app never sends it to the API, so no property is about it.
