# Verification of token-profiler

token-profiler captures what the Codex CLI sends to its model provider: a local
proxy records every request as JSONL events, an analysis turns the events into
summaries, and a local API and a browser dashboard show them.  This directory
holds TLA+ models of that whole path, from the request that reaches the proxy to
what the dashboard shows, the TLC runs that check them on small instances, and
proofs that TLAPS checks for every value of the constants.  Paths below are
relative to the repository.

## 1. Inventory

| part (source) | state it keeps | operations | correct when |
|---|---|---|---|
| Session router (`src/adapters/codex/live-proxy/session-router.ts`, `codex-envelope.ts`) | in memory: run of each response id, run and last use of each prompt fingerprint, one profiler per run | `resolve`, `getProfiler`, `registerResponse` | stated ids win, an active prompt keeps its run, an idle gap starts a new one, a continuation joins the run it continues |
| Live proxy (`server.ts`, `recording.ts`, `transport.ts`) | handlers waiting for an append or for the upstream, `pendingObservations` | request handler, `onCompleted`, `close` | recorded before forwarded; usage stored before the client sees the end; runs in order; every request ends; shutdown loses nothing |
| Response observer (`transport.ts`) | text of the open block, text kept for the end, ids seen | `push`, `finish` | every completed response is reported once, in time, however the network cuts the body |
| Event store (`src/core/store/index.ts`, `src/core/capture/index.ts`) | `events.jsonl` per run | `append`, `readAll`, `readEventsFromRunDir`, `streamEventsFromRunDir` | readers get whole events while appends go on |
| Codex routing (`config.ts`, `runCodexConfig` in `src/surfaces/cli/proxy-commands.ts`) | the user's `config.toml`, a state file beside it | `codex enable`, `codex disable` | disable gives the user's document back; a routed config is usable |
| Proxy process (`proxy-commands.ts`) | `proxy-state.json`, the port, the process | `proxy start`, `stop`, `serve` | the file names the proxy that runs; start and stop report what is so |
| Daemon (`src/surfaces/cli/daemon-commands.ts`) | `daemon-state.json`, both services, the routing | `daemon start`, `ensure`, `stop` | a running daemon has both services; a stopped one has none, and the routing goes first |
| Artifact extraction (`live-proxy/artifacts`) | none | `extractResponsesArtifacts` and what it calls | an artifact keeps its item, order, call link and title, whatever else the payload holds |
| Events, privacy, storage modes (`src/core`) | none | the three `create…Event`, `validateEvent`, `applyStorageMode` | what a mode does not keep reaches no event |
| Analysis (`src/analysis`) | none: functions of the events of a run | cache attribution, accounting, exposure, persistence, turns, tasks, legibility, the summary and pages of a large run | amounts are conserved; turns and tasks tile the requests; the streaming summary agrees with the full analysis |
| Dashboard API (`src/surfaces/dashboard-api`, `src/core/store/session-catalog.ts`) | the catalog file, summary cache files, `rebuildingRoots` | session list, run view and details, large run, its pages | lists and pages agree with runs that grow or vanish while they are read |
| Dashboard (`dashboard/src`) | selection, session list, run, details, pages, calls in flight, the refresh | clicks, refresh, answers | what is on the screen belongs to the selection; nothing hangs |
| Log import, capture commands, setup, reports, tokenization | the runs they write; none | one-shot commands, `watch` | a repeated import adds nothing twice |

How they interact.  `daemon` calls `runProxy` and `runCodexConfig` in its own
process; `proxy start` spawns `proxy serve`, and from then on the two share only
the state file, the port and signals.  The proxy's handlers run on one thread and
interleave at every `await`; they share the router's maps and append to the same
files.  The dashboard API reads those files from another process while they grow.

What is hard here, and hard to test, is listed line by line in `PROJECT.json`
under `hazards`: the interleaving of handlers between appends, a client that is
faster than the bookkeeping of its previous answer, appends that fail in the
middle, shutdown with work pending, restarts that lose the router's memory,
responses cut anywhere, long lines written in pieces, state files read by one
command and removed by another, commands that die between two writes, catalogs and
summaries of runs that grow while they are read, ids that count positions in a
conversation that is compacted, usage that does not add up with the local estimate,
and answers that reach a page whose selection has changed.

## 2. Modules

| module | models | uses |
|---|---|---|
| `SessionRouter` | the router's maps and operations as actions | |
| `SessionTraffic` | the router under requests, answers, time and restarts | extends `SessionRouter` |
| `Capture` | abstract: what the proxy promises to a client and to an analyst | |
| `LiveProxy` | the proxy process with all its handlers, the runs and the environment | extends `SessionRouter`, implements `Capture` |
| `ResponseText` | the text of a response: documents, blocks and lines, and what `consume` and `finish` make of a text | |
| `ResponseObserver` | the observer of one response under arbitrary chunking | extends `ResponseText` |
| `EventStore` | appends in pieces, and the readers | |
| `CodexRouting` | both rewritings of `config.toml`, the commands around them, the user | |
| `ProxyDaemon` | concurrent `start` and `stop` commands, the process, port and state file | |
| `Daemon` | the daemon commands over routing, proxy and dashboard API | instances of `CodexRouting` and `ProxyDaemon` |
| `CodexArtifacts` | which artifacts a request payload yields: items, parts, instructions, tools, ids, call links, titles | |
| `RunEvents` | the events of a run and what a storage mode keeps of them; artifacts, exposure and persistence of a list of events | extends `CodexArtifacts` |
| `CacheAttribution` | token attribution of cached and fresh input, request accounting, the totals of a large run | extends `RunEvents` |
| `Legibility` | category, display name, kept text and tool link of an artifact | extends `CacheAttribution` |
| `TurnGroups` | task groups and turn groups with their titles | extends `Legibility` |
| `DashboardView` | the responses of the API made from the analysis of one run | extends `TurnGroups` |
| `RunAnalysis` | a conversation recorded by interleaved requests, and every analysis of every state of the log | extends `DashboardView` |
| `LargeRuns` | large runs that grow or vanish, their cached summaries, and clients that follow the pages | |
| `SessionCatalog` | the session list: scan, catalog, rebuild in the background, end of the process | extends `LargeRuns` |
| `DashboardHooks` | the browser page: hooks, selection, refresh, explorer of large runs | |
| `MC*` | the instances TLC checks: payloads, bodies, documents, symmetry | |
| `SessionTrafficProofs`, `CodexRoutingProofs`, `ProxyDaemonProofs`, `SessionCatalogProofs`, `DashboardHooksProofs` | theorems about the modules of that name | extend them |
| `LiveProxyProofs` | theorems about `LiveProxy`, that it implements `Capture` among them, and about `ResponseObserver` | extends `LiveProxy` and `ResponseObserver` |
| `EventStoreProofs` | theorems about a run: its file, of `EventStore`, and its analysis, of `RunAnalysis` | extends `EventStore` and `RunAnalysis` |
| `DaemonProofs` | theorems about `Daemon`, from those about its parts | extends `Daemon`, instances of `CodexRoutingProofs` and `ProxyDaemonProofs` |

Operators that a comment introduces with "Slip:" are plausible bugs, used only as
the `mutants` of `PROJECT.json`: each property is known to fail under one of them.

### How states and actions correspond to the code

**SessionRouter, SessionTraffic.**  A payload is the record of the fields `resolve`
looks at, each an id or `None`; `Stated` is their order of precedence.  The ids
`codexSessionRoute` derives are one field: which of the session, thread and window ids
of an envelope it takes comes with the envelope.
Sanitizing is the function `Safe`, which may make two raw ids one run.  The clock
counts ticks and `IdleMs` is inclusive, as `<=` in the code.  `createSessionId`
never repeats an id (it has 32 random bits).  A fallback run is entered in the
fingerprint map like a generated one.  Header ids of blanks only, which sanitize
to a generated id, are left out.

**LiveProxy.**  An action is what one callback does with the microtasks it queues.
`Receive` is the end of the body up to the first append; `AppendRecord` is one
append settling and the next one starting, or the request being forwarded;
`Completed` registers the response id and starts the usage append, which settles
in `AppendUsage`.  A failed append is a 502 before forwarding, a destroyed
response when `finish()` holds the observation, and an unhandled rejection, hence
the end of the process, when nothing does (Node's default).  `Close`,
`StopAccepting` and `Exit` are the three waits of the SIGTERM handler.  An append
is one step here; `EventStore` looks inside.  The proxy with a single profiler
and no router, which the command line never builds, is not modelled, nor are
responses without an id or with several completions.

**ResponseText, ResponseObserver.**  A body is a sequence of tokens, line breaks and
halves of documents among them, so that a chunk may end inside a delimiter or a document.
The loop of `consume` is a recursive function of the number of its turns, and a text of
n tokens has at most n blocks.  The definitions of the state machine are `ObserverInit`,
`ObserverNext` and `ObserverSpec`, apart from those of `LiveProxy`, so that one module can
prove about both.
UTF-8 sequences cut by a chunk are the decoder's concern, not this code's.

**EventStore.**  Node writes a file in pieces of 512 KiB, each appended at the end
the file then has.  A reader sees a prefix of the file; prefixes are earlier
states, so the properties read the whole file in every state.  The names begin with
`Store`, apart from those of `RunAnalysis`, for the module that proves about both.

**CodexRouting.**  A document is a sequence of lines; the appended provider table
is one line.  Blank lines and a missing line break at the end are layout and left
out.  A user rewrites the document, appends a line, or takes another provider,
between two commands.  One write of a file is one step.

**ProxyDaemon.**  Each `await` of a command ends an action, so steps of the process
and of other commands come in between.  The health answer and the decision on it
are one step; an answer without a pid, of an old version, is not modelled.  A
SIGTERM that finds no handler (before listening, or a second one while draining)
ends the process.  `Pids` has a pid for every start, as a machine does.  A signal
the user sends to the proxy directly is left out.

**Daemon.**  Daemon commands come one at a time, and services crash and machines
restart between them; what happens within a command is the subject of the two
modules it composes, of which it takes the very actions.  Only the dashboard also
lives and dies while a start waits for it: `DashboardPolls` and `DashboardAnswers` are
a round of the wait, `DashboardTimesOut` its end after three seconds, and
`DashboardListens` comes before, between or after them.  The port answers for whoever
serves on it, so a round may be answered by a dashboard that no command recorded
(`strays`): one that an earlier start gave up on, or one that the user serves by hand
(`ServeByHand`).  The new dashboard then boots on, and ends when it finds the port
taken.  The dashboard API has no signal handler, so SIGTERM ends it at once; another
program that has got its pid may end or not (`StopDashboardTimesOut`).  A program
other than a dashboard on the dashboard's port, and a poll that is never answered, are
left out.

**CodexArtifacts, RunEvents.**  A payload is a sequence of items with the fields the
mappers look at; texts are model values, and what is computed from a text alone (its
preview, its token count, a parsed command) is a constant function of it.  A hash is
the text itself.  Ids keep their structure, since the code tells artifacts by them:
position and type in the input, or the id an item brings.  `Kept` gives what each
storage mode leaves of an artifact; previews of tool outputs and commands are metadata
and are kept in every mode, as in the code.

**CacheAttribution, Legibility, TurnGroups, DashboardView.**  Each function of
`src/analysis` and of the view model is an operator with its name.  Token amounts are
integers: `Unit` makes the shares that the code computes in floating point exact, so
`TokensAreConserved` holds to the unit, and rounding for display is left out.  The
attribution walks the artifacts in the order of the request and cuts the one in which
the cached prefix ends.  `Math.min` caps the coverage at 1, so a usage below the
local estimate scales the places of the artifacts and gives no negative amount.

**RunAnalysis.**  The conversation is the environment: the user asks, and the assistant
replies or calls a tool, once or twice in one response.  What else may happen is one of
`Oddities`: the history is compacted, the profiler restarts in another mode, a request is
retried, carries no turn or does not go through the proxy ("unseen", so that a call and
its output come in different requests, the output first), and `record` writes an event
by hand.  Each storage mode and each oddity has `Limits` of its own on the events of the
file and the items of the conversation, of which the least applies.
`AppendNext` writes one event of one recording, so the recordings of concurrent
requests interleave, and every state of the log is one in which recordings broke off.
The analysis is a variable only so that it is computed once for each state.  It is
made in stages, as in `pipeline.ts`: each analyzer takes what the ones before it made
as a parameter, so that TLC computes every stage once.

**LargeRuns, SessionCatalog.**  A run is a sequence of pieces; an open line is a piece
that is not yet a whole event (`IsTorn`).  Files grow by pieces and runs are deleted.
Every `await` of `createDashboardSessionIndex`, of a summary and of a page ends an
action; between two awaits nothing else runs.  The state file of the catalog and the
summary caches survive; `rebuildingRoots` and requests do not.  The order and the
cursor of the session list are left out.

**DashboardHooks.**  An event of the browser with the render and the effects it causes
is one step, since nothing runs in between; the effects run in the order React runs
them.  Calls in flight are answered in any order and may fail.  Closures are modelled:
a refresh keeps the run, list and data of the render that began it.  The interval
timer and the button begin the same refresh; two refreshes at once are left out, and
of the view state only the selected run and the expanded artifacts are kept.

## 3. Runs

| run | question | bounds (distinct states) |
|---|---|---|
| `SessionTraffic` | which requests share a run, by stated ids, prompts and answers | 3 requests, 2 prompts, window of 1 tick over 2, a restart (108 000) |
| `LiveProxy_safety` | recorded before forwarded, runs in order, usage before the answer, continuations in their run | 2 requests of up to 1 artifact, by prompt, stated or continued; a failing append, a kill, a restart, an idle gap |
| `LiveProxy_fair` | does the proxy implement `Capture`; does every request end, does `close` end, and with what it waited for | 2 requests, a failing append, a departure, a kill; a fallback run |
| `ResponseObserver` | each completed response once, and in time, wherever the chunks end | all chunkings of event streams with either line end, JSON lines and JSON documents of up to 2 documents, below the cap of 10 MiB |
| `EventStore` | what readers see during appends | 4 appends at once of 1 to 3 pieces, 2 failures or crashes |
| `CodexRouting` | is the user's document given back; is a line ever lost | all documents of 3 lines, 2 edits, a command that dies; commands repeat without bound |
| `ProxyDaemon` | does the state file name the proxy; are the reports true; are strangers left alone; does every command end | 3 commands, 2 at once, a slow start and stop, a crash, a reboot (172 000) |
| `Daemon` | does a reported daemon run; is a stopped one gone; does a command know what it takes for granted | 3 daemon commands, a crash of either service, a dashboard given up on or served by hand, an edit, a reboot (1 513 000) |
| `SessionCatalog` | are lists whole and fresh, do pages tile, does the server live, does every scan end | 2 runs that grow and vanish, one list, the rebuild and a client that follows pages, 3 requests, a failing write |
| `RunAnalysis` | are amounts conserved, requests tiled, titles and links true, kept text the only text, does the interleaving matter, does the large-run summary agree | 2 prompts, 2 tool calls, 2 requests and one by hand, 2 in flight, one oddity, 2 storage modes; histories of 5 items and 8 events, with an oddity or without texts of 2 or 3 and 5 or 6 (113 000) |
| `DashboardHooks` | does the screen belong to the selection, does anything hang | 2 plain and 2 large runs on 2 pages, 2 calls in flight (410 000) |
| `DashboardHooks_refresh` | does a refresh keep a valid selection (no) | the same |

A property with several parts is one name for statements of one subject, each a
definition of its own with its comment: `RequestsShareRuns`, `ObserverInv`, `StoreInv`,
`RoutingInv`, `ProcessInv`, `ReportsAreTrue`, `DaemonInv`, `DaemonReportsAreTrue`, `ListsAreTrue`,
`PagesTile`, `TokensAreConserved`, `RequestsAreTiled`, `AnswersAreWhole`,
`DetailsAreTrue`, `SelectionIsShown` and the `IInv` of the runs.

Why these bounds.  Two requests are what the interactions of the proxy need: the
runs relate pairs of requests, and a third changes no pair.  One failure shows every
handler of a failure; a second one of the same kind finds the process gone or the
request ended.  Routing is by prompt and by time, so three requests give a window
that is renewed once and used at the end of the renewed one.  A document of three
lines has a provider line before, in and after a table.  Three commands are start,
crash, start and stop; a proxy that is slow to start is left to `ProxyDaemon` and, under
a daemon command, to the proof.  `CHECK_DEADLOCK FALSE` is set where the bounded environment
or a finished system really stops; `CodexRouting`, which never does, is checked for
deadlock.  In `RunAnalysis` two requests are the least that interleave, share an
artifact, or continue one another, and one oddity at a time tells what each of them
breaks; `TitlesAreOwn` is refuted by a continuation alone.  A plain conversation has room
for two calls with their outputs in one request, joined each to its own, and for two
requests with usage of which one carries a call with its output; a retry has room for two
different usages of one request, and "unseen" for a call that is recorded after its
output, in another request.  In
`DashboardHooks` two calls in flight are two answers that overtake each other, and two
runs of each kind are a selection that changes within its kind and across.  In
`SessionCatalog` a second run shows a list that is right for one run and wrong for
another; a page is one artifact, so that a run of three pieces has three.  The
inductive invariants `SessionTraffic!IInv`, `LiveProxy!IInv`, `ProcessInv` and
`DaemonInv` are invariants of runs as well.

**Fairness.**  `LiveProxy!Fairness`: the event loop runs ready callbacks, an append
settles or fails, an upstream that was asked ends its response or breaks off (the
code has no timeout towards the upstream: a request to one that hangs, hangs), and
the waits of `close` end when what they wait for has happened.  No client, signal or
clock has to move.  `ProxyDaemon!FairSpec`: a command goes on when its `await`
settles (the waits end after 3 s by `Date.now`), and a process starts, drains and
closes, which is what `LiveProxy_fair` shows.  `SessionCatalog!Fairness`: each await of
a scan ends; files and clients need not move.  `DashboardHooks` states no fairness: a
page may show "loading" for as long as the API does not answer.  What a fair API gives
is the invariant `NothingHangs`: whenever no call is in flight, nothing is loading and
no refresh is going on.

### Where the code departs from its documentation

`DashboardHooks_refresh` ends in a violation: a refresh is reconciled with the list of
the render that began it, and its reload replaces the list by its first page, so that a
run of the second page that is selected is deselected by the refresh after
(`DashboardController.tsx:37`; `specs/011-dashboard-shell-state-architecture/spec.md:86`
says that a valid selection is kept).

Six more statements of docs and tests are definitions of the modules and no property of
a run; adding one to the cfg named here gives the counterexample.

| statement | where it is made | refuted with | what happens |
|---|---|---|---|
| `LiveProxy!FailureStaysWithItsRequest` | `specs/002-source-adapters-capture/spec.md:118` | `LiveProxy_fair.cfg` | a usage append that fails while its response streams ends the process and all other responses |
| `EventStore!StreamReadsWhileAppending` | `test/large-run-store.test.js:17` | `EventStore.cfg` | two appends at once, one longer than 512 KiB, write a line no reader accepts |
| `ProxyDaemon!StartReportsItsOwnProxy` | `test/proxy-daemon.test.js:41` | `ProxyDaemon.cfg` | a start that gave up on a slow child lets the next start report that child as its own |
| `Daemon!StopStopsServices` | `docs/privacy-and-trust.md:85` | `Daemon.cfg` | a stop after a disable fails before it stops anything |
| `SessionCatalog!MatchingEntryIsCurrent` | `specs/023-session-catalog/data-model.md:10` | `SessionCatalog.cfg` | the entry is stat'ed after its run was read: it matches a run that has grown in between |
| `RunAnalysis!TitlesAreOwn` | `specs/018-codex-turn-request-drilldown/spec.md:94` | `RunAnalysis.cfg` | in a continuation an id is given to another prompt, and an earlier turn takes its title |

The other limits that the models show are conditions of the properties, named where
they are stated, or readings of the code that a reader of the properties should know:

* `IsInTurn`, `IsPatient` (`ProxyDaemon`, and with it `Daemon`): overlapping starts can
  leave a proxy that no state file names, and a stop that gave up on a draining proxy, issued again, reports
  it as not running.
* `~torn` (`EventStore`): up to the first piece that is written into an open line.
  One event that does not parse makes its whole run unreadable.
* `deaths = 0` (`CodexRouting`, `Daemon`): an enable that dies between its two writes, over the
  state of an earlier one, lets disable leave a provider line without its table.  A
  provider line inside a table is taken for the one that routes Codex, and given back.
* no stranger (`Daemon!EnsuredServicesRun`): ensure takes any process with the pid in
  `daemon-state.json` for the dashboard API, and stop ends it.
* `strays` (`Daemon`): a start that gives up on a slow dashboard leaves it alive and
  records nothing.  A daemon reported stopped may then have left it on its port, and the
  next start reports its answer as that of a dashboard which ends as soon as it finds the
  port taken.  `RecordedDashboardServes`, which makes no exception for strays, is refuted
  under `Daemon.cfg` in place of its properties, in fifteen states.
* `RawCap` (`ResponseObserver`): a JSON body longer than the text that is kept for the
  end is never reported.  `ObserverAssumption` takes such bodies no longer than that;
  event streams have any length.
* A usage append that fails after the upstream has ended destroys the response: it is
  `destroyed`, and `AnsweredKeepsUsage` speaks of answered requests only.
* `~raced` (`SessionCatalog!PagesTile`): a file that grows between the stat that gives
  the version and the read that makes the page mixes two versions, and the cached
  summary keeps the mixture under the older size.
* `removed = {}` (`ServerSurvives`): a run that is deleted while the catalog is rebuilt
  rejects a promise that nothing awaits, and ends the API process.
* `LargeRunAgrees`: the summary adds every usage event, the analysis takes the last of
  a request; the property compares them where each request has one.
* `TitlesAreOwnWhileIdsAre`: as long as no id is used for two artifacts.
* `SelectedRunIsShown` (`DashboardHooks`): a `getRun` that answers late, or a refresh,
  can put run A on the screen under selected run B; the property is stated for answers
  in order.  A detail of another run can be shown under an id the two share, until the
  call for the selected run is answered.  The pages of a large run have no guard against
  a selection that changed while they were read.
* `SessionListIsWhole`: for a reader who waits while the list loads; `loadMore` and
  `reload` share one list and one flag.
* A refresh does not read details again, and reads only the first page of the list; a
  large run of another page is then read whole, as if it were not large.

## 4. Proofs

The theorems hold for any sets of requests, payloads, ids, runs, commands, pids and
documents and any bounds, under named assumptions on the constants, which TLC evaluates
in the runs.  `RouterAssumption`, `TrafficAssumption`, `ProxyAssumption`,
`ObserverAssumption`, `DaemonAssumption`, `StoreAssumption`, `RunAssumption`,
`RoutingAssumption`, `LargeRunsAssumption`, `CatalogAssumption` and `HooksAssumption` type the constants and say that `None` is none
of the values it stands beside; generated ids differ from given ones, an event has at
least one piece, the provider the program writes is none of the user's, there are
finitely many runs, and the API's list has a page.  `ObserverAssumption` also says which
bodies an upstream sends: events of which each carries one document or none, one
document, or documents line by line.  `RunAssumption` has numbers as request ids, whose
order stands for that of the strings, at least as many turn ids as prompts, and `None`
none of the turn events.  `DaemonsAssumption` is that of
`Daemon`'s two parts and of its own bounds.

| module | theorem | states |
|---|---|---|
| `SessionTrafficProofs` | `RoutingAgrees` | `Spec => []IInv` |
| | `TypeCorrect` | `TypeOK` |
| | `RunsAreShared` | `RequestsShareRuns` |
| | `MintedRuns` | `MintedRunIsOneConversation` |
| `LiveProxyProofs` | `Invariance` | `Spec => []IInv` |
| | `TypeCorrect` | `TypeOK` |
| | `RecordedBeforeForwarded` | `ForwardedIsRecorded` |
| | `RunsStayInOrder` | `RunsInOrder` |
| | `UsageBeforeAnswer` | `AnsweredKeepsUsage` |
| | `ContinuationsStay` | `ContinuationStaysInRun` |
| | `PromiseIsKept` | `KeepsPromise`: the proxy implements `Capture` |
| | `ExitKeepsObservations` | `OrderlyExitKeepsObservations` |
| | `ObserverIsSafe` | `ObserverInv` |
| | `ObserverReportsAtOnce` | `ReportedWhenClosed` |
| `EventStoreProofs` | `Invariance` | `Spec => []IInv` |
| | `ReadersHold` | `StoreInv` |
| | `RunInvariance` | `Spec => []RunInv` |
| | `RequestsStayTiled` | `RequestsAreTiled` |
| | `RequestsStayInTheirTurn` | `RequestsKeepTheirTurn`, an action property |
| `CodexRoutingProofs` | `Invariance` | `Spec => []IInv` |
| | `RoutingHolds` | `RoutingInv` |
| | `LinesSurvive` | `UserLinesSurvive` |
| `ProxyDaemonProofs` | `ProcessesAreTracked` | `Spec => []ProcessInv` |
| | `ReportsHold` | `ReportsAreTrue` |
| | `StrangersAreSafe` | `StrangersAreLeftAlone` |
| `DaemonProofs` | `CommandsAreInformed` | `Spec => []DaemonInv` |
| | `ReportsHold` | `DaemonReportsAreTrue`, an action property |
| | `ProxyGoesLast` | `ProxyOutlivesRouting`, an action property |
| `SessionCatalogProofs` | `Invariance` | `Spec => []IInv` |
| | `ListsHold` | `ListsAreTrue` |
| | `PagesHold` | `PagesTile` |
| | `ServerLives` | `ServerSurvives` |
| `DashboardHooksProofs` | `Invariance` | `Spec => []IInv` |
| | `DetailsHold` | `DetailsAreTrue` |
| | `SelectionHolds` | `SelectionIsShown` |
| | `ListHolds` | `SessionListIsWhole` |
| | `NothingIsStuck` | `NothingHangs` |

**SessionTraffic.**  That two requests share a run says nothing of the maps `resolve`
looks into, so it is not inductive.  `IInv` adds what ties the two together: each use of
a prompt in this process is remembered, at least as recent as it was
(`UsesAreRemembered`); a minted run belongs to one entry, and the requests that came to
it by prompt have the prompt of that entry (`EntriesOwnTheirRuns`); answered responses
and routed requests name minted runs only (`AnswersAreMinted`, `RequestsAreRouted`), so
that the id `createSessionId` gives next is new to all of them.  The step is `Route`,
with a case for each branch of `resolve`; the clock, answers and restarts only weaken
what has to be remembered.  That Codex sessions keep their run needs no memory: it
follows from `RequestsAreRouted` and from `CodexSession`, that a stated session is
taken before a cache key or a previous response.

**LiveProxy.**  None of the four properties is inductive: that a forwarded request is
recorded depends on what its handler had written when it left the recording stage,
and that a continuation joins its run on what the router remembers.  `IInv` adds

* `HandlersInv`: the stage of a handler tells how many of its events it has appended
  and whether it can have a usage observation;
* `LogInv`: the runs hold exactly the events whose appends have settled, so that the
  next append of a request is larger than all its earlier ones and new to the run;
* `RoutesInv`: the router of this process remembers every response of a request it
  routed, no response belongs to two requests, and a request continues only a
  response that exists, so that registering one changes no earlier routing.

Each part has a lemma that says what keeps it (`RunsStable`, `RoutesStable`), one for
each step that really changes it (`ReceiveRuns`, `AppendRuns`, `ReceiveRoutes`,
`CompletedRoutes`), and one for `Next`, with a step per action.  The lemmas that say
what the router's operations return open both `LiveProxyProofs` and
`SessionTrafficProofs`, which extend different modules.

**The refinement.**  The end of `LiveProxyProofs` maps the stages of handlers and the runs to the
outcomes and the ledger of `Capture`.  Beside `IInv` it needs `ExitInv`: a recording
appends no more than its request has (`RecordingEnds`), an observation is pending only
in the stages that can still wait for it (`PendingStages`), and what `close` awaits had
begun and is settled when the proxy stops accepting (`AwaitedSettle`).  Then every
action is an action of `Capture` or changes nothing of what it shows.

**ResponseObserver.**  What was reported says nothing of the text that is still to be
read.  `ObserverIInv` adds that what has arrived, what is left and what is kept for the
end are parts of the body; that all that arrived is kept unless the cap was reached; and
that the text left and the reports are those `Consume` makes of all that arrived in one
chunk.  A chunk keeps this by `ConsumeInChunks`: to read a text, then to go on with what
is left of it and a chunk, is to read both at once.  That is so because a block that is
closed ends where it did when text is added behind it, since no delimiter begins inside
another (`DelimitersApart`, `BlockExtended`); then it is shown turn by turn of the loop
(`StatesByTurns`, from the least number of turns for which it would fail).  From where the turns of the loop have stopped (`Read`,
`ConsumedPart`) follows that each closed block was looked at, hence
`ReportedWhenClosed`.  `Finish` closes the last block of an event stream; a document,
or documents by lines, are no longer than what is kept, so that the last look sees all.

**EventStore.**  The readers are defined by the line feeds of the file, the appends by
the pieces they have written.  `IInv` ties the two by a function from the number of
settled appends to the places of the line feeds (`LinesFollow`): between two of them are
the pieces of one append, in order, and behind the last is what one append has begun, if
any has (`OnlyOneOpen`).  A piece goes on at the end, so it extends the open line or
opens one; the first piece written into an open line sets `torn`, and from there on
nothing is claimed.  The line feeds are then as many as the settled appends
(`PlacesInAll`), and the reader of streams returns `settled` (`StreamGivesSettled`).

**RunAnalysis.**  What a reader is shown is computed from the file, so two things are
proved: what the stages of the analysis make of any list of events, and which lists the
file can be.  For the first, `SortedIs` says that a finite set in an order becomes a
list of its members, each once, and everything the analysis sorts or filters is such a
list: the rows of the accounting (`RowsAre`), the groups of a key (`GroupsAre`,
`TurnsAre`), the starts of the tasks (`TaskStartsAre`).  The tasks are sorted by the
id of their first request, and put back by `dashboardTaskGroups` in the order of the
requests; there each begins where the one before it ends (`TasksAre`, `TaskViewsAre`,
`StretchesAreAll`).  So turns and tasks divide the rows of every list (`AnalyzeDivides`,
`TasksAreTiled`), whatever it says.  That a request is in the turn it was sent in is
not so of every list, and not inductive: a retry carries the turn that is going on then.
`RunInv` adds that the recording of a request is a list of its own events, and that as
long as none of them has told its turn, the next one to be appended tells the turn it was
first sent in (`TurnOK`); after that a later event is no earlier, as the clock does not go
back (`FileOK`, `FactStays`).  `RequestsKeepTheirTurn` follows from what an appended event
does to the earliest turn (`FactStays`) and to the rows (`RowsStay`).

**CodexRouting.**  The lines of a document are joined, replaced and searched; the first
part of the module says what that does to the lines of each kind (`KindsOfConcat`,
`ReplacedKinds`, `ContainsConcat`).  `Sound` holds whichever command dies: the document
has the user's lines, and a running command is about to write a document that has them.
`Sane` holds while no command has died: at rest the document is the user's own (`Whole`),
or that with the provider replaced or inserted and the table appended (`Routed`), or one
the user has taken to another provider since (`Rerouted`).  `RoutedBy` cuts a routed
document at the inserted lines, so that restoring it gives back what was between.

**ProxyDaemon.**  What a report promises is known to the command only step by step, and
other processes move at each `await`.  `ProcessInv` says for each step what still holds
(`StepInv`): at the reads things are at rest, that is a live proxy serves and is the one
of the state file; after the check a proxy that is not healthy is not alive; from the
spawn on no proxy lives but the one the command started; at the clear none lives.  It is
stated for commands that take turns (`CommandsTakeTurns`) and give up on nothing;
`SignalsAreMeant`, which keeps strangers safe, holds in all interleavings.

**Daemon.**  Each step of a daemon command is a step of `CodexRouting` and a step of
`ProxyDaemon`, or leaves either alone (`RoutingSteps`, `ProxySteps`), so their inductive
invariants hold of its variables without being proved again.  `DaemonInv` says what they
mean to a command that has come to a given step: what the proxy command reported is so
until the daemon command ends, since a proxy that is up crashes only between commands; a
dashboard that lives is the recorded one, the one about to be recorded, or one of `strays`,
and the pid about to be recorded has its process unless one of those serves; and a
stop reaches the services only with Codex on another provider.  The action properties
follow from what is known at the last step, when the command reports.

**SessionCatalog.**  A scan reads a run in up to four awaits, while files grow and runs
vanish.  `IInv` says of everyone who reads a summary that the version asked for is one
the run has had, and that the summary read is no older (`ReaderOK`); of a scan that the
runs it has rows for, is at, or has still to visit cover those there when it was called,
and that no row is older than the call (`ScanOK`); of a client that its pages are a
prefix of the list, and its cursor their number (`ListOK`).  Files only grow until they
are deleted, so what is said of the past stays so (`StepKeepsAll`).  `NumbersHavePlaces`
and `ArtifactsGrow` give that the artifacts of a request are numbered by their order, so
that a longer file has a longer list with the same beginning.

**DashboardHooks.**  `IInv` relates the state of each hook to its queue of calls, to the
selection, and to the refresh.  Every wanted detail has data, an error or a call, and a
call for another run is followed by one for the selected run (`DetailsOK`); a refresh
waits for exactly one call (`RefreshOK`); a list that is not loading is the concatenation
of whole pages (`ListOK`).  What reaches the next reader of an answer is said twice: for
answers in any order, and under `orderly`.  An event is a change of state, a render and
four effects; between the effects only part of the invariant holds (`Mid`), and each
effect restores its own part (`StatusEffectOK` to `LargeEffectOK`, then `RenderedOK`).

**Only model-checked.**

* Liveness: `EveryRequestSettles`, `CloseFinishes`, `CommandsFinish`, `EveryScanEnds`.
  They rest on fairness, hence on `ENABLED`, which the prover does not treat.
* Of `RunAnalysis`: `TokensAreConserved`, `LargeRunAgrees` and `InterleavingDoesNotMatter`
  say that two sums over the same events are equal, or that two orders of them give the
  same amounts.  They need induction over what is computed, and sums by `MapThenSumSet`
  are beyond the provers.  Where the recursion is a function or a fold over a sequence, as
  in `CodexRouting`, `DashboardHooks` and `ResponseObserver`, such inductions are done by
  hand, from the least member of a set of numbers (`LeastNumber`,
  `SequencesByAppending`).  `TitlesAreOwnWhileIdsAre`, `AnswersAreWhole` and
  `OnlyKeptTextIsShown` speak of names and texts merged over all inclusions of an
  artifact, and no proof has been tried.

## 5. Plan

Done: the path from a request to the screen, the commands that control the proxy, and
proofs of the safety of every component with processes in it.  What is left, in the
order in which it would add most:

1. Lemmas about the operators of `CacheAttribution` (what is attributed to the parts of a
   request adds up to it), and a proof that the answers of the API are whole.
2. `watch` with overlapping imports and repeated imports of Codex logs
   (`capture-commands.ts`, `log-import/index.ts`), `run codex` and `setup codex`.
3. The order and the cursor of the session list under runs that are written to, and a
   dashboard whose list changes between two pages.
4. Two refreshes at once in `DashboardHooks`, and the rest of the view state.
5. The queued `track` and `record` of `TokenProfiler` with `flush`.

### Not modelled

* Codex log import, `watch`, `run`, the demo, `setup codex`, `run codex`: one-shot
  commands over the output of other programs; `watch` starts an import every interval
  whether or not the last one has ended, and no model covers that yet.
* The merge of header and body metadata of a request, and of the first title candidate:
  functions of one request without state.
* Caveats, context clutter, aggregates, text reports and the layout of responses:
  thresholds and wording that nothing else reads.
* The tokenizer (third-party): a token count is a constant function of a text.
* Rendering, filters, sort keys and search in the dashboard.
* The pruning of the router's maps: `responseSessions` and `fingerprintSessions` grow
  with every response and prompt; the models bound the number of requests instead.
* Edits of `config.toml` between the read and the write of one command.
