# DLTerm in TLA+

DLTerm is a keyboard-driven market terminal (C++17, SDL3) on top of Interactive
Brokers' TWS API. This directory models what it does: the services between TWS and
the screens, the program that composes them, and the small algorithms a screen is
built from. Each module is translated from the source under `src/src`;
`PROJECT.json` maps every definition to the lines it stands for.

    tlc -workers 2 -config Chart.cfg MCChartService      # a model-checking run
    tlapm ChartServiceProofs.tla                         # the proofs about it

## 1. The system

    TWS  <--socket-->  EReader thread --signal--> Pump()
                                                    |
     main loop (one thread) ---- IbkrClient ---- Dispatcher (one mutex)
       | events, frames            facade            | callbacks
     screens  --- Request/Cancel/Snapshot --->  services --- ServiceContext

The main loop (`main.cc`) handles SDL events, pumps TWS messages through the
`Dispatcher`, drains the status queue, lets the current screen draw a frame and
sleeps 16 ms. A screen calls the facade `IbkrClient`, which takes the dispatcher's
mutex and forwards to a service; the dispatcher takes the same mutex for every TWS
callback. So each service operation is **one atomic step**, and what is hard is
not data races but the *order* of steps: callbacks answer requests that were
cancelled, replaced, refreshed or made on an earlier connection, and the socket
fails between any two of them.

| Component | State | Operations | What makes it correct |
|---|---|---|---|
| `ServiceContext` (`services/service_context.h`) | request id counter, status queue | `NextReqId`, `EmitStatus`, drained by `Dispatcher::DrainStatus` | ids are never reused, by the same service or by another |
| `ChartService` | current request, displayed bars, refresh batch, `replacing_` | `Request`, `Refresh`, `Cancel`, three callbacks | one chart's bars only, whole, in order, no flicker, at most one request alive |
| `QuoteService` | current request, field values, `ready` | `Request`, `Cancel`, tick callbacks | one instrument's ticks only, ready iff there is a last price, a good price not replaced by "no data" |
| `NewsService` | session stage, ids of its stages, BroadTape probes and streams, queued headlines, seen articles, one article slot, provider codes | ticker and BroadTape sessions, article request, drains, ten callbacks | nothing foreign or repeated shown, no stream leaked, no stage waiting for nothing |
| `PortfolioService` | account list, four maps of request ids, rows, totals, ends of download | `Subscribe`, `Unsubscribe`, nine callbacks | what TWS serves can be cancelled, ready means loaded, the rows shown are the balances |
| `InfoService` | provider and account lists, server time | callbacks, `Snapshot` | facts of this connection |
| `IbkrClient` / `Dispatcher` | socket, reader, `connected`, mutex | `Connect`, `Disconnect`, facade, `Pump`, routing of callbacks and errors | all services reset together, calls only while connected |
| Main loop, `screen_factory.cc` | current screen, function bar | events, screen switch, frames, exit | TWS serves the screen on display and no other, the program can always be quit |
| `NewsScreen` | feed, reader, hover, flash times | `OnEnter/Exit/Frame/Event` | body under its own title, feed sorted, a click opens what it hits |
| Other screens | poll times, cached snapshots | `OnEnter/Exit/Frame` | each shows data of its own symbol |
| Function bar, `futures.cc` | text, caret, status | editing, `RunCommand` | caret in the text, commands resolved to one screen |
| `widgets.cc`, `layout.cc`, `StripHtml` | scroll offset, lines | scrolling, line breaking, cleaning of HTML | offset in range, breaks optimal, no word lost |
| `log.cc`, `diagnostics.cc` | rings, filter, counters | append, snapshot | newest entries kept in order |
| `redact.cc`, `text_grid.cc`, `sdl_render_backend.cc` | none of interest | drawing, replacing text in what is drawn | pixels; not modelled |

The behaviours that are hard to test, each at its line, are the `hazards` of
`PROJECT.json`: late answers, replies overwriting one another, refreshes refused,
sessions that start one another from a callback, state surviving a reconnect,
requests sent before `nextValidId`, the connection looked at twice, messages
that outlive the screen they are about, index arithmetic at limits.

## 2. Modules

| Module | Models | State and actions |
|---|---|---|
| `ServiceContext` | `service_context.h` | counter and status queue, extended by each service |
| `LiveFeed` | an abstraction of no single file | what chart and quote promise: one target, data of the target only, at most one request alive |
| `ChartService` | `chart_service.cc` | one variable per field of the class; one action per method, named as in the code |
| `QuoteService` | `quote_service.cc` | the same; the tick fields are grouped by the callback and test that write them. It is run and proved as a part of `SharedContext` |
| `NewsService` | `news_service.cc`, `IbkrClient::Connect/Disconnect` as news sees them, the drain of `NewsScreen` | the stage machine: the fields of the class are one record, `session`; `feed` is what the screen was given |
| `NewsReader` | `RequestArticle`, `OnNewsArticle`, the reader mode of `news_screen.cc` | the single article slot and the screen that polls it; also a part of `SharedContext` |
| `SharedContext` | `QuoteService` and `NewsReader` over one `ServiceContext` and one connection; `IbkrClient::Disconnect`, the drain of `main.cc` | a step is one of either service, a disconnect that resets both, or a drain of the queue they share |
| `PortfolioService` | `portfolio_service.cc` | the fields of the class are one record, `portfolio`, with the four id maps as its set `owned`; the environment is the record `tws` |
| `Terminal` | `main.cc`, `screen_factory.cc`, `OnEnter/OnExit/OnFrame` of every screen, connection and facade of `ibkr_client.cc`, `info_service.cc` | the composition: `pc` is the place in the main loop, `screen` the current one, each service reduced to what it was asked for |
| `FunctionBar` | the editor of `function_bar.cc`, the resize of `main.cc` | text and caret; one action per handler |
| `Commands` | `RunCommand`, `futures.cc` | a line of words; what it opens is an operator |
| `LineBreaks` | `layout.cc` | a document; paragraphs, the dynamic program that breaks them and the chain of parents it leaves |
| `HtmlText` | `StripHtml`, `CleanHeadline` of `news_screen.cc` | an article that grows piece by piece |
| `ScrollBlock` | `ScrollableTextBlock` of `widgets.cc`, the reader's layout | rows, header, body and `scroll_top_` |
| `LogRing` | ring and filter of `log.cc`, the tail of `debug_screen.cc` | ring with head and count; what was ever taken in is kept beside it |
| `FrameTimes` | `diagnostics.cc` | the same for frame times |
| `NewsFeed` | feed, rows, mouse and flashing of `news_screen.cc` | headlines, rows drawn, everything received |
| `PortfolioTotals` | positions, values and `Snapshot()` of `portfolio_service.cc` | rows by account and contract; what TWS last reported beside them |
| `Desk` | nothing by itself | an instance of each of the nine small modules; a behaviour is one of the module named by `subject` |
| `MC...` | | the constants for TLC |
| `...Proofs`, `DeskLemmas` | | theorems and proofs (section 4) |

**How the modules compose.** `Terminal` runs the whole program over services it
knows only by what they were last asked for. That a service keeps to what it was
asked for is what `ChartService`, `QuoteService`, `NewsService` and
`PortfolioService` state, each with every callback and over reconnects; that
chart and quote do is shown by the refinement of `LiveFeed`. `Terminal` in turn
shows when they are asked and cancelled: in the service modules the user may do
so in any order. `SharedContext` puts two services over what they really share,
the counter of request ids, the queue of statuses and the connection: their
properties hold while the other one allocates, reports and resets in between, and
no id belongs to both (`OneOwner`), on which the dispatch of callbacks by id
rests. The two differ in what they keep at TWS, a stream and single answers that
cannot be cancelled. `NewsReader`, `NewsFeed`, `HtmlText`, `LineBreaks` and
`ScrollBlock` follow an article from the wire to the window.

**Conventions.** Variables called `tws_...` (or the record `tws`) are the
environment: what TWS was asked, is serving, has sent or refused. TWS answers
open requests in any order, may refuse any of them, and may deliver after a
cancel what it had sent before the cancel arrived; the guards of the callbacks
say what it can send at all (no bar after the end of a batch, bars of a batch in
ascending order, no answer on a new connection to a request of an old one,
nothing before `nextValidId` in `NewsService`). Data are abstracted: a bar is its
request and timestamp, a headline its request and article, a status message its
kind, a tick the request it answered (prices only matter where validity is
tested), a word its length or its letters, an entry of the log its number.
`ctx_.client` is set once in the constructor of `IbkrClient::Impl` and is never
null in the running program, so branches for a null client do not exist in the
models; this is also why requests go out before `nextValidId` (section 6). An
operator named `...Variant` is a faulty version of the definition after it:
putting it in its place must break a property, which is how each property is
shown to depend on the code.

Two operations have no action and a comment instead: `ChartService::OnReady` by
way of `nextValidId` and `PortfolioService::OnReady` find nothing left to do.

In `Terminal` the steps of the main loop are separate actions, because the reader
thread may close the socket between any two of them: an event handler, `OnExit`
of the old screen, `OnEnter` of the new one, pumping, draining and drawing, and
`OnExit`, `Disconnect` at the end. Within one of them the code looks at
`IsConnected()` more than once in a few places; a failure in between has the
effect of one before or after, as a request sent over a dead socket is lost.

## 3. Runs

| Run | Question | Bounds |
|---|---|---|
| `Chart` | whole, ordered, foreign-free and flicker-free bars under one subscription, refinement of `LiveFeed`, refreshes end | 3 instruments (a stock, a continuous future, one with an unknown exchange), 3 requests, 2 bar times |
| `ChartRefreshRefused` | does every refresh end? *violated* | as above, 1 bar time |
| `Shared` | the quote: values of one instrument, one subscription, ready exactly with a last price, refinement of `LiveFeed`; the reader: a body under its own title, and the awaited article arrives while TWS answers in order; no id used by both | 3 instruments, 2 articles, 3 requests in any mix, 2 kinds of message |
| `QuoteClobbered` | does a field keep its value when TWS sends "no data"? *violated* | as above |
| `News` | no leaked stream, no foreign or repeated headline, no stage waiting for nothing, a loading session settles | one ticker besides SPY, 2 BroadTape sources, 1 article and headlines without one, 7 ids, 1 queued headline |
| `NewsNoFallback` | are default providers used when none came? *violated* | as `News`, 8 ids |
| `Portfolio` | nothing uncancellable, ready means loaded, an open portfolio is served, once per account, and loads | 2 accounts, 1 contract, 7 ids |
| `PortfolioLateRow` | is a closed portfolio empty and silent? *violated* | 1 account, 9 ids |
| `Terminal` | TWS serves the screen on display, which shows its own data; messages drained in time; quitting ends; the server's time comes | a stock and a continuous future, all screens, 2 queued messages |
| `TerminalReconnect` | does a command reconnect after TWS closed? *violated* | as above |
| `TerminalConnectFailure` | does ESC without TWS say so? *violated* | as above |
| `Desk` | the nine small modules, one behaviour each, against reference definitions | below |

Why the bounds are enough. `MaxReqId` bounds the requests of a behaviour. Three
requests in `Chart` are a chart, a refresh of it and another chart, with answers
to all three in flight together; a fourth meets the same combinations with one
more stale id, which the id test treats alike. Three in `Shared` are three
quotes, three articles or any mix of them, so that each part meets a current and
two stale ids of its own, or one of the other's between two of its own. In
`News`, 7 ids allow a BroadTape session that falls back to a ticker session
(2 + 3), or two ticker sessions one after the other, or a ticker session after or
before a BroadTape one; a fallback followed by one more ticker session (8 ids) is
beyond the bound, and is covered for the safety properties by the proofs of
section 4. Two sources distinguish
"some probe left" from "none left" and "some found" from "none found" (the code
has seven). A session is begun only when the ids it may need are left
(`TickerIds`, `GeneralIds`, `IdsNeeded`), so that the bound never cuts one short:
otherwise the liveness properties would fail for the bound and not for the code.
In `Portfolio`, 7 ids are two accounts with a position, or one account (TWS names
any set of the two) closed and reopened, over one connection or two, with a row.
`MaxStatuses` bounds the kinds of message waiting for a drain: with 1, a second
kind waits for the main loop to drain, which it does every frame; all kinds are
reached. `MaxHeadlines = 1` makes the screen drain between two headlines, which
is where a repeated one would be seen: those of one batch are told apart by the
same set. In `Terminal`, two symbols are a screen and the one before it, which is
all it remembers; the queue of two holds the message of the lost connection and
one of a service, in either order.

`Desk` gives each small module the sizes at which its edges meet: grids of 2 to 7
columns and texts that fill them; command lines of up to three words of up to
four characters, with the longer symbols and verbs that the rules single out;
paragraphs of up to five words on widths of 0 (where nothing is laid out), 3 and
5, so that words longer than a line, exact fits and last lines occur together; articles of up to four tags,
entities, words and blanks; windows of 1 to 8 rows, which include those with no
room for the body; a log of capacity 3 with up to 7 entries, which wraps around
twice; a feed of 2 with three headlines in batches of up to 2; rows of up to four
keys with sizes of either sign. It asks for no deadlock check: the inputs of
`Commands`, `LineBreaks` and `HtmlText` grow up to their bound and stop there.
Every other run checks deadlock: those components can always be cancelled,
disconnected, reopened or (`Terminal`) stopped, which is a step of its own.

**Fairness.** Only the `Fair...Spec`s use it. TWS completes or refuses each
request (weak fairness per request id of "ends or fails"; the gateway answers
every request with data and an end, or with an error), names the accounts after a
connect, and sends `nextValidId`; the main loop draws frames and drains the status
queue (it runs unconditionally every 16 ms). In `Terminal` the thread takes its
next step (weak fairness of the steps that no input precedes), the event loop
ends again and again (strong fairness of `BeginFrame`: `SDL_PollEvent` empties its
queue, but events may keep coming), and TWS's answer to the request for the time
is delivered by some frame's pumping (strong fairness, since pumping is enabled
on and off). Nothing is assumed of the user, of the socket, nor that bars,
ticks or headlines ever come.

**Liveness, as far as it goes.** A refresh, a news session and a portfolio
download end *unless TWS refuses a request*: none of the three services is told
of errors (`Dispatcher::error` asks only `NewsService`, which handles code 200 of
its probes), so after a refusal they wait until the user acts. The properties
state that exception rather than hide it.

## 4. Proofs

All hold for every value of the constants that satisfies the assumption named in
the module: instruments, symbols, articles, words and bar times may be infinitely
many. Accounts may not, as each takes three ids, nor may the rows of the portfolio
(`TotalsAssumption`: a sum over infinitely many rows is none). What is assumed of
characters is that the ones the code tests for are the ones meant: a blank is not
a letter (`CommandsAssumption`), and `;` and the letters of a text are not names of
entities, nor do entities stand for the brackets of a headline's metadata
(`HtmlAssumption`); both are so in the tables of the source.

| Module | Theorems |
|---|---|
| `ChartServiceProofs` | `TypeCorrect`, `AtMostOneSubscription`, `NoForeignBars`, `BatchesInOrder`, `ReadyIsWhole`, `NeverFlickers`, `ImplementsFeed` (refinement of `LiveFeed`) |
| `NewsServiceProofs` | `TypeCorrect`, `StreamsAreOwned`, `HeadlinesAreOwned`, `ArticlesOnce`, `StagesWaitForTws` |
| `ServiceProofs` | of `PortfolioService`: `TypeCorrect`, `NothingOrphaned`, `ReadyIsLoaded`, `OpenIsServed`; of `SharedContext`: `SharedTypeCorrect`, `EveryIdHasOneOwner`, for its quote `QuoteAtMostOneSubscription`, `NoForeignTicks`, `ReadyIffLastPrice`, `QuoteImplementsFeed` (refinement of `LiveFeed`), for its reader `BodyIsOfTitle` |
| `TerminalProofs` | `TypeCorrect`, `ServesTheScreen`, `ShowsOwnData`, `StatusesDrained` |
| `DeskProofs` | of `Desk`: `ScrollStaysInRange`, `CaretStaysInText`, `FeedStaysRight`, `RecentStayNewest` |
| `DeskDataProofs` | of `Desk`: `HeldStaysShown`, `CommandsStayResolved`, `TextStaysLaidOut` |
| `TextProofs` | of `HtmlText` and `LineBreaks` on their own: `ArticleReadable`, `LinesLaidOut` |
| `DeskLemmas` | no theorem of its own: lemmas on numbers, sequences, folds, sums and finite sets |

With them every safety invariant and every action property of the passing runs is
proved; TLC alone checks liveness.

`ServiceProofs` extends `PortfolioService` and `SharedContext`, and with the latter
`QuoteService` and `NewsReader`; what every service module has (`Init`, `Next`,
`TypeOK`, ...) therefore bears the name of its module in these two (`QuoteInit`,
`ReaderNext`, ...), and their one specification is `SharedSpec`.

Every module follows one plan: an inductive invariant `IInv`, one lemma per action
or group of actions with one step per conjunct it can disturb, and the theorems as
consequences. What makes the properties inductive is, in each:

- *Chart and quote.* A fresh id must not be one TWS already serves or has
  answered, so ids above the counter are unused (`CounterInv`, for the quote
  `QuoteCounterInv`), and the current
  request, if there is one and it was sent, was asked for the current instrument
  (`CurrentInv`, for the quote `InstrumentInv`). The latter gives "an answer that
  passes the id test belongs to the instrument". In the refinement `Request` is
  `Ask`, `Refresh` is `Renew`, callbacks are `Deliver` or a stutter, `Cancel` and `Disconnect` are `Drop`; a
  callback can only be `Deliver` when there is a target, which for the chart takes
  `TargetInv`: without an instrument there is no request, no bar and no refresh.
- *News.* Every id the session owns was asked for its subject (`OwnedInv`), ids
  above the counter are new to TWS, and a general session that is still probing
  has shown nothing, so that its fallback to a ticker starts from an empty feed
  (`ProbingInv`). `HeadlineInv` relates the set of seen articles to what is queued
  and shown.
- *Two services, one counter.* Ids above the counter are unused by either service
  (`QuoteCounterInv`, `ReaderCounterInv`), so the next id is new to both, and no
  step of one takes an id of the other. Each service's own invariant
  is kept by the steps of the other because these only raise the counter.
- *Reader.* While open, the reader keeps the id of its own request, which was
  asked for the title it shows; a body comes only from an answer with that id.
- *Portfolio.* Subscriptions start only when no earlier one left requests in the
  maps (`WaitingInv`), an end of download counts only for a request that stands
  (`DoneInv`), and accounts are listed only once named on this connection
  (`NamedInv`).
- *Terminal.* The flag `connected` outlives the socket and does not fall before
  the program has stopped (`ClientInv`). So a screen with a service is on display
  only after a connection was made, and a connection newly made finds no such
  screen, no request and no message of an earlier one. `ServedInv` and `HeldInv`
  follow the screen through `OnExit` and `OnEnter`; `LoadedInv` says that no
  "loaded" message outlives its session. With the `Connect()` that docs and the
  finding of section 5 ask for, which looks at the socket too, `ShowsItsOwn` would
  fail (the mutant of that property): the requests skipped in between would be
  found by the new connection.
- *The chart's batches.* What is displayed is one batch of the current request:
  its bars carry that request's id, ascend strictly, and have exactly the
  timestamps TWS has sent for it (`IsBatchOf`). During a refresh this holds of
  `incoming_bars` instead, and the request is not yet ended (`BatchInv`). That an
  appended bar keeps the order needs the environment's promise of section 2, that
  a batch ascends; that a live update does, needs the code's comparison with the
  last bar. `NoFlicker` follows: the bars on display change under an id only when
  its batch has ended.
- *Scrolling.* A reader that is closed has an empty body and stands at its top
  (`ClosedInv`); the maximum of the offset only has to be computed from the rows at
  hand.
- *The line editor.* The text fits the bar and the caret the text (`Fits`); every
  edit is one of inserting at the caret, removing before it or removing at it,
  which `InsertedProperties` and `RemovedProperties` describe for any sequence.
- *The log and the frame times.* Each slot of a ring holds an entry whose number
  follows from the slot, the head and the count (`InSlot`, `TimeAt`); the copy out
  of the ring is then the tail of all that was taken in, in order. The average of
  the frame times is a sum over slots, which is the sum over the newest by
  renaming the one to the other (`SumRenamed`).
- *The log's filter.* `ParseFilter` is a fold whose state after `i` items is what
  the first `i` items say; `MatchesPrefix` is shown to be "equal, empty or followed
  by a dot", so that the prefixes of one category that apply to it are ordered by
  length and the nearest is one, of which the last mention counts.
- *The feed.* The rows are what was received, numbered, without those that newer
  ones pushed out; a headline's place is the number of those standing before it,
  in order of time and then of arrival (`ListInv`). The rows drawn by the last
  frame are those of the list then (`RowsInv`), so a click opens what it hits.

- *The portfolio's rows.* A row shows the size reported last, and a key without a
  row was last reported as zero; no row keeps a value that TWS marks as not
  computed yet (`BookInv`). The totals of a group are then the sums of what
  was last reported for its keys, and the list has one row for each group whose
  total is not zero, in whatever order it puts rows that tie. Each row's cost lies
  between its size at the lowest and at the highest price of the group, the other
  way round when it is short (`RowCost`), and so do the sums (`SumMixed`).
- *The commands.* `LineInv` says only that words and blanks are what they are; the
  weight lies in the parser. Reading is a fold over the characters, of which what
  is read so far is followed word by word (`FoldOfTrace`): however the line is
  spaced, the words are those typed. Then each verb, and each rule of a symbol
  (month letter, one or two digits of the year, the root before them), is a case.
- *The article.* Both passes of `StripHtml` are folds. Of the first it is shown
  that, at the end of each piece, it stands outside tags and entities and has put
  out what the pieces mean; within a piece, only an entity makes it look ahead. Of
  the second the invariant (`Kept`) relates the counters of blanks and newlines to
  the text put out and to the words and paragraphs seen so far, so that the words
  of what is stored and of what came in are equal, paragraph by paragraph.
- *The layout.* By strong induction over the number of words, `dp[j]` is the cost
  of the lines that the chain of parents makes of the first `j` words, and no
  possible layout of them costs less: the last line of any layout is one of the
  candidates the scan compares, and what is before it is a layout of fewer words.
  Consecutive breaks cut the paragraph into its words, in order, and each cut fits;
  paragraphs are joined with one blank line between them (`IsText`), by induction
  over their number.

Four devices make the data of these modules provable. A definition that folds over
a sequence is a function over `1..n` once expanded; `DeskLemmas` proves
by induction over *sets* of numbers (the least one for which something fails)
what a fold keeps (`FoldInvariant`) and which states it goes through (`Trace`,
`FoldOfTrace`), since the library's induction theorems take a predicate and cannot
be instantiated; `SeqInduction` does the same for sequences that grow at the end.
Sums are the fold over a set, of which only "one term more"
(`SumWithoutOne`) and independence of the names of the terms (`SumRenamed`) are
needed. `DeskLemmas` has one constant, the operation folded, and the other modules
take an instance of it for each fold they reason about. And what is hard for the
provers because of the size of the context is proved in a small one: `TextProofs`
knows the two texts only, and `DeskDataProofs` takes it over with an `INSTANCE`
that puts the state of the desk for the article and the document, after showing
that each definition means the same either way.

Two definitions were put in another form for the proofs, with the meaning they had:
the list that `Snapshot()` sorts is one of the lists of all rows, and no longer the one
`SetToSortSeq` picks (nothing depends on the order of rows that tie, which
`std::sort` leaves open too), and the dynamic program and its chain of parents are recursive
functions over the words.

Only model-checked: all liveness, which is out of reach of TLAPS as installed (no
fairness, no `ENABLED`). No `RECURSIVE` operator is used. `DeskProofs` takes the
prover over ten minutes, for the size of its context rather than the difficulty of
its steps, `TextProofs` nine and `DeskDataProofs` six; each of the other modules
takes less than a minute.

## 5. Findings

Each is a run whose one property quotes the repository and which TLC violates.

1. **"No data" replaces a good price** (`quote_service.cc:33`): `DBL_MAX` is finite
   and not negative, so `IsValidPrice()` lets it through; the comment at line 100
   and `docs/tws-api.md:272` say it is dropped.
2. **A refused refresh disables all later ones** (`chart_service.cc:36`).
   `replacing_` is lowered only by the end of the batch or by a new chart.
3. **No fallback to the default providers** (`news_service.cc:192`) when the
   contract resolves before `newsProviders` has answered.
4. **A late position revives a closed portfolio** (`portfolio_service.cc:136`):
   a row is stored and its P&L subscribed to, with nobody looking.
5. **Commands do not reconnect after TWS closed the connection**
   (`ibkr_client.cc:379`): `Connect()` answers from its flag, which
   `connectionClosed()` leaves set; `docs/commands.md:177` says they do.
6. **ESC wipes out the connect failure it causes** (`main.cc:309`): the splash
   screen's `OnEnter()` sets it, `HandleEscape()` clears it in the same handler;
   `docs/screens.md:131` says it surfaces.

## 6. Observed, without a run

Seen while translating; in each the model does what the code does.

- A session begun between `Connect()` and `nextValidId` sends its contract request
  at once and again in `OnReady()`, under one id (`news_service.cc:47`).
- A row stored late survives the reset of an inactive portfolio and gets no live
  P&L on the next connection (`portfolio_service.cc:93`); this needs
  `Disconnect()` followed by `Connect()`, which `main.cc` does only at exit.
- A P&L message with size 0 keeps a row, so its account stays listed; rows that
  cancel out vanish from the snapshot with their market value.
- Symbols may contain digits, though the help and `docs/commands.md:27` say
  letters and `.` only.
- The parser has two copies of the symbol rules, for quotes and for charts
  (`function_bar.cc:178`, `:211`, and for continuous futures `:237`, `:253`);
  `Commands` has both, and `CommandsResolve` says that they agree.
- The test of the hovered row when the feed is cut (`news_screen.cc:145`) never
  fails, as the feed does not shrink within a session.
- `MouseYToBodyRow()` gives -2 rather than -1 above the body; no caller minds.
- While disconnected a screen may show the snapshot a service kept of another
  symbol; the message that the connection closed is never drained.
- `ToZone(now, "")` of the splash screen sets `TZ` to the empty string (UTC) and
  changes the time zone of the process while the reader thread may be logging.
- `JoinProviders()` may exceed its width by the " ..." it appends; the chart's
  lowest price label is not drawn when the window's height leaves half a cell or
  more over.
- A bare `&` with a `;` within eight characters is copied as it stands, a tag in
  between included; `HtmlText` assumes well-formed HTML.

## 7. Not modelled

- Drawing: `text_grid.cc`, `sdl_render_backend.cc`, candles and axes of the chart,
  columns and truncation of tables, flashing colours. Nothing but what is on the
  screen depends on it; the state it reads is modelled.
- Wording and formatting of numbers, times and messages, except where an outcome
  depends on it (the news status that marks a feed loaded).
- The log file, `redact.cc` (text replaced in what is
  drawn) and reading of environment variables.
- The three smoke tests: stand-alone programs that talk to a live TWS.
- The TWS API itself, beyond what it may send and when. The reader thread is
  modelled by what it does to the program: it closes the socket at any time.

## 8. What is left

The state-changing operations of every component are modelled, and every safety
property of the passing runs is proved. Left:

1. a refinement from the composition of `Terminal` with a full service, instead of
   one reduced to its request;
2. malformed HTML (section 6, last item): what `StripHtml` makes of it is in the
   code's model, and nothing is stated about it; so the articles of the runs do not
   reach a `&` whose `;` is more than eight characters away (`news_screen.cc:56`),
   and a tag means nothing, as in the code, where one between two words glues them.
