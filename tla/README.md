# Dynacat in TLA+

Models of dynacat (`src/internal/dynacat`): how config changes take effect, who gets in and what they are
answered, how widgets fetch, share, keep and show what they fetched, how updates reach browsers, and how the UI
editor rewrites the config. TLC checks them on small instances; for most components TLAPS proves the safety
properties for every value of the constants.

`PROJECT.json` lists, machine readable, the components, the runs, the lines of code every definition stands
for, a bug per property that breaks it, the hazards and the theorems.

## 1. Inventory

Dynacat is one Go process that serves dashboard pages made of widgets, and the page script of the browsers
that show them.

```
 text editor ---> config files <--- UI editor (editorMu)      first run setup (before any application)
                     | fsnotify          ^
               configFilesWatcher        | POST
                     | onChange          |
                  serveApp -- stop/start --> http server of an application
                                              |  limits, sessions, rights, routes
     browsers <-- pages, widgets, SSE -- page (page.mu) and its widgets -- API clients
                                              |  update
                 sharedFetcher, worker pools, single flights, image cache, templates on disk
                                              |
                                          upstreams
```

| component | state | operations | hard because of | correct when |
|---|---|---|---|---|
| Shared fetch cache (`request-share.go`) | map of entries with a `done` channel, under `f.mu` | `do`, `pruneLocked` | callers of all pages at once; failures; per-caller ages | one request per key; nobody hangs; nothing older than asked for; no needless load |
| Config watcher (`config.go`) | inotify watches, debounce timer, last contents and includes, `mu` | events, timer callbacks | callbacks overlap; parse outside the lock; saves by rename kill watches | what is on disk is applied; every file of the config stays watched |
| Server life cycle (`main.go`, `dynacat.go`) | `stopServer`, `hadValidConfigOnStartup`, `exitChannel`, servers and their loops | `onChange`, start, stop | start runs in a goroutine of its own; one port | the last valid config, and only it, is served; nothing leaks |
| Widget scheduling (`widget.go`, `widget-container.go`) | `nextUpdate`, `updateRetriedTimes`, `ContentAvailable` | `requiresUpdate`, `schedule*Update`, `update` | five kinds of callers; early updates | fetched when due, never sooner |
| Page locks, routes and requests (`dynacat.go`, `api.go`) | `page.mu`; tables of slugs, widgets and lists, built per application | page, widget, list and API requests, prewarming | lock held for a whole update; a page outlives the application that built it | every request is answered, with what was meant, for those who may read it |
| Live updates (`sse.go`, `page.js`) | clients and their channels of 16 | loop, workers, broadcast, receive | check before lock; drops; late registration | events in order; browsers catch up |
| UI editor (`config-editor.go`, `editor-http.go`) | config files, `editorMu` | add, edit, remove and move pages and widgets; write, validate, roll back | many files per edit; includes; partial failure; text editors; indices of another version | an edit does what the screen says, entirely or not at all, by whom it is allowed |
| Image cache (`image_cache.go`) | files, `inFlight` | look, download, rename, fall back | check before lock; directory shared by two applications | whole files |
| Single flight (`singleflight.go`) | current call | `Do` | reset before close | one run at a time, a fresh result |
| Password login, sessions (`auth*.go`) | attempts per address, tokens in cookies | log in, check, renew, log out | slow check between count and clear; several tabs; clock boundaries; reload | limits hold; a session is deserved, and lasts |
| OIDC login (`auth_oidc.go`) | state and PKCE cookies, sessions | redirect, callback, sweep, logout | two requests and a third party | a session only for its own login |
| First run setup (`setup.go`) | `done`, `mu`, temporary server | create | two browsers, a text editor | one config, answered, then closed |
| Todo storage (`todo-storage.go`, `todo.js`) | SQLite table | load, replace | whole lists replaced, saves not awaited | no task lost but by a careless save |
| Worker pool (`widget-utils.go`) | channels | run jobs | rendezvous | results in place; all end |
| Speedtest (`widget-speedtest.go`) | running test, last results, kept server | trigger, test, render | shared by widgets; reads in two sections | one test, neighbouring results |
| Docker pulls and containers | pulls under way; none | pull, status; group | reads in three sections; labels | the status is true; problems are seen |
| Widgets that fetch (`widget-*.go`) | content, error, notice; caches, lists, tokens, sessions | a round: ask, ask again, log in, keep | partial failure; what is kept | clean means current; recovers at once |
| DNS graphs (`widget-dns-stats.go`) | bars | draw | lengths, 0 of 0 | bars are what was said |
| Dynawidgets (`widget-dynawidgets.go`, `dynawidgets-templates.go`) | templates and their metadata on disk | download, check, read | side by side; crashes | no version missed |
| Search (`widget-search.go`) | targets published by widgets | publish, filter | doubles on pages with other readers | all that is allowed, and no more |
| Config schema, themes, templates, logging, CLI, self-update, system information | none or files | sequential | - | not modelled |

How they interact: the watcher calls `onChange` of the life cycle, the first time from the goroutine of
`serveApp` and later from timer callbacks; an application owns its pages, their locks, tables and SSE loop;
every update of a widget goes through the shared cache, which outlives applications, as sessions do; an edit
writes config files, which the watcher then sees. PROJECT.json "hazards" names, at its line, what a test would
hardly reach in all this and which property is about it.

## 2. Modules

### Composition

Components that act on each other's state are composed step by step: `ConfigReload` makes a watcher's callback
the life cycle's `onChange`. Three further compositions, `Access`, `Editor` and `Services`, put components
side by side that do not: a variable (`part`, `level`) says which one a behaviour follows, the others stay where
they start. They are there so that one run covers them, and claim nothing about an interplay.

| module | models | state and actions in the code |
|---|---|---|
| `UpstreamCache` | abstract: what the cache promises | no code: who wants what, which keys are being fetched, when the latest good response came |
| `SharedFetch` | `sharedFetcher.do` | an action is one critical section of `f.mu` or the code between two: `Hit`, `Join`, `Miss`, `Store`, `Discard`, `Close`, `CloseErr`; `Call` and `Tick` are the callers and the clock |
| `ConfigWatch` | `configFilesWatcher` | `disk` and the inotify queue are the environment; the watcher goroutine's `Handle*`, the timer's `Fire`, a callback's `ReadFiles`, `Skip`, `Change` |
| `ServerLifecycle` | `serveApp`'s `onChange` and `application.server` | `BeginChange`, `Reject`/`Accept`/`Replace` in the caller's goroutine, `CreateServer` and `Listen` in the one it starts, `Exit` |
| `ConfigReload` | both composed | the watcher's change is the life cycle's `BeginChange`; `mu` is held until `onChange` returns |
| `PageUpdates` | a page, its widgets, requests, the SSE loop and browsers | `Lock`/`Update`/`Answer` are a request under `page.mu`; `Check` is the SSE loop's look without it; `StartWorker`, `SkipWorker`, `Render`, `Broadcast` its workers; `Apply` and `Receive` are page.js |
| `WidgetList` | abstract: lists edited by position | no code: what is on the screen |
| `EditorTree` | `mutateColumns` and the slots of includes | one action per operation, run under `editorMu` |
| `ConfigStore` | abstract: a config changed by one thing at a time | no code |
| `ConfigEditor` | `applyEditorMutation` on disk | one action per write, deletion and check of an edit; `HandEdit` is a text editor |
| `PageRights` | who may edit which page | `OpenEditor` is what a browser is shown, `EditPageAt` and `AddPageBy` are edits of any user at any position, shown or not, `Rewrite` a text editor, `LoadConfig` the reload that follows later |
| `Editor` | `EditorTree`, `ConfigEditor`, `PageRights` side by side | |
| `Sessions` | `auth.go`, `auth_session.go`, `auth_oidc.go` | a handler that reads and answers is one step (`Visit`, `LogIn`, `LogOut`, `OidcLogin`, `Mismatch`, `Callback`, `Reject`); its cookies reach the jar in `Receive` or never (`Lose`); `Exchange` is the end of a callback that waited for the provider; `Reload` swaps the config under it all, `Sweep` is the sweeper |
| `RequestLimits` | the limits of an address | `CheckPassword` counts, `RightPassword`/`WrongPassword` end the slow comparison; `AskApiPage` is an API request |
| `FirstRunSetup` | `handleCreate` and the server around it | `ReadExisting` before the lock, `Enter` under it, `WriteStarter`/`FailStarter`, `LeaveSetup`; `HandSave` is a text editor |
| `PageSlugs` | `newApplication`'s slugs | functions; a slug is a sequence of words |
| `PageRoutes` | `newApplication`'s tables and the handlers that look in them | one action per route; `Swap` is a reload under browsers that keep the page they have open |
| `Access` | `Sessions`, `RequestLimits`, `FirstRunSetup`, `PageRoutes` side by side | |
| `Singleflight` | `Singleflight.Do` | `JoinCall`/`StartCall` and `ResetCurrent` are its critical sections, `RunEnds`, `CloseDone`, `WakeUp`, `ReturnResult` the code between |
| `WorkerPool` | `workerPoolDo` | a rendezvous is one step of both sides: `Feed`, `RunTask`, `Collect`, `CloseQueue`, `WorkerEnds` |
| `ImageFiles` | `imageCache` and its directory | `Look` before the lock, `EnterOrWait`, `CreateTemp`, `RenameTemp`/`RemoveTemp`/`DownloadFails`, `LeaveFlight`, `CloseEntry` |
| `TodoLists` | `todo-storage.go`, `todo.js` | tabs load (`Loaded`, `LoadFails`) and save (`AddTask`, `DeleteTask`); a save is a transaction (`BeginTx`, `InsertRow`, `Commit`, `Rollback`) or fails before |
| `SpeedtestRuns` | `speedtestRunner` | `Trigger`, the steps of a test, its end, and a render's two looks |
| `DockerPulls` | image pulls and their status | `StartPull`, `SetLayerProgress`, `EndPull`, `ForgetPull`; a status is `FindPull`, `ReadEnd`, `ReadPercent` |
| `TemplateCache` | templates of dynawidgets | start with `Download`, `Save` and `Store` (the truncation and the write of `os.WriteFile`, and `WritePart` between them) or `SaveFails`, `Note`, `Stat`; an update with `Check`, then `AskFails`, `Unchanged`, or `Changed`, `Rewrite` or `WriteFails`, `Record`; `Look`, `Read`; `Crash` anywhere, `Stop` and `Start` for a reload |
| `SearchTargets` | what a search widget finds | `Publish` replaces a widget's targets; what is shown is a function of the state |
| `DnsGraph`, `ContainerGroups` | pure computations of two widgets | one step computes the whole, for every input within the bounds |
| `SourceAnswers`, `SourceRounds`, `WidgetRounds` | a round of every kind of widget that fetches | `SourceAnswers` says what a reply is to a kind, `SourceRounds` what the kind makes of the answers, `WidgetRounds` runs rounds (`Round`) while a source changes |
| `Services` | all from `Singleflight` on, side by side | |
| `SharedFetchProofs`, `PageUpdatesProofs`, `ReloadProofs`, `AccessProofs`, `ServicesProofs`, `EditorProofs`, `EditorPageProofs`, `SlugProofs` | theorems about `SharedFetch`, `PageUpdates`, `ConfigReload`, `Access`, `Services`, `Editor` (its disk; its pages and lists) and `PageSlugs` | |

`MC*` modules give instances (`config_reload` and `config_watch_overlap` need none). They hold starting states, configs and symmetry sets only.

### Abstractions

A response is its age and whether it failed, or, in `SourceAnswers`, one of twelve classes of replies; content is
which version of which source it shows. A config file is one of a few texts, with the property of including
another, of being invalid, or of naming another port; rendered HTML is the set of leaves of which it shows the
newest content; a page or widget of the config is one part. A slug is the sequence of the words between its
hyphens, numbers among them, which is what `HasPrefix(slug + "-")` and the number behind a taken slug look at. A
template is its version, of which some do not parse, or one of two torn ones, of which one does. Every write to its
file gives it another time of modification, so `templateModTime` is either that of the file or not (`seen`); two
writes within one tick of the file system's clock are not told apart there. A password hash matches or does not. Time is ticks: a
clock with a bound where ages are compared (`SharedFetch`, `Sessions`, `RequestLimits`, `TemplateCache`), and
otherwise a countdown or an age that stops at the largest value the code looks at.

Where the outcome of the code is not determined, the model takes any: in `PageUpdates`, a leaf's schedule
looked at while an update writes it may be seen due or not (`MayLookDue`, `MayLookNotDue`); in
`ServerLifecycle`, `stopServer` is written by the starter at its own time and read by `onChange`; in `DnsGraph`,
0 of 0 converted to an integer is whatever the machine gives.

Some variables are not in the code and only remember: who proved what and when (`proved`, `signedIn`, `seen`,
`given` of `Sessions`), what passed (`passed`, `asked` of `RequestLimits`), which lists were sent and which tasks
deleted (`TodoLists`), with which server a test failed (`broken`), what was answered last (`replies`). No guard
of an action reads them, but for bounds.

## 3. Runs

Bounds are named CONSTANTS of the modules. They are small on purpose: each is the smallest with which
the interesting overlap happens, and every property has a mutant that fails under the same bounds.

| run | asks | bounds, and why they are enough |
|---|---|---|
| `shared_fetch` | safety and liveness of `do`, and that it implements `UpstreamCache` | 3 callers (one fetches, one waits, one comes later), 2 keys with `PruneThreshold` 1 (so that pruning happens while the other entry is open, done or failed), ages -1, 0 and 2, `PruneAge` shorter than some of them, 2 ticks, one call each. The safety part is also proved without these bounds |
| `config_reload` | what is on disk is watched and served, all comes to rest | 2 files, 3 texts (plain; including and on another port; invalid); edits at rest and in the middle of reloads |
| `config_watch_overlap` | violation: an edit between a callback's parse and its re-watch is lost | 2 edits |
| `server_stale` | violation: two changes before the first starter ran leave the older config served | 3 applications |
| `page_updates` | who may fetch when, and in which order it shows | a group with a leaf polled by browsers and a lazy leaf outside of it, one browser, the API; periods 1 and 2; `RetryCap` 1; `QueueCap` 2, so that events of a leaf and of its group can follow each other; rendering and sending at any time |
| `page_updates_live` | no hanging, catching up | one leaf and its group (the two rivals for one render), prewarming; period 3, which is long enough for retries (`RetryCap` 2) at 1 tick and, capped, 3; `QueueCap` 1; fairness |
| `page_updates_api` | violation: the API fetches a failing lazy widget each time | as `page_updates` |
| `editor` | whose page, which place in which file, and how it gets to disk | tree: 2 lists, 2 files, 3 widgets, includes in a list, nested, in a block and still to be created, any number of edits; disk: main file and 2 more, one nested, 3 parts and an invalid one, 2 concurrent requests, 3 edits, 1 manual edit, every write may fail before or after it truncated the file; rights: 4 pages, two of one name, and one whose own slug is the one (`news-2`) that the second of these gets with its number, so that it becomes `news-2-2`; a free editor and one restricted to two slugs, 5 versions of the file |
| `editor_move`, `config_editor_torn` | violations, see 4 | as `editor` |
| `access` | who gets in, and what they get | sessions: 2 tabs, a password user and one of the provider, one reload that changes the password and the lists, tokens of 3 ticks renewed at 2; limits: 2 addresses, 2 checks at once, 2 attempts in 6 ticks, 2 API requests in 4, clock to 11, nearly two windows; setup: 2 browsers, 2 manual saves; routes: one browser, 2 reloads among three configs (open, login required, refused) with two pages of one name, a page without a slug, a list on two pages and a widget two containers deep |
| `services` | the helpers, the rounds and the widgets with state | pool: 3 workers, 4 tasks; single flight: 3 callers, 3 calls; images: 2 downloads of one application and one of another, one stale hour, 4 inodes; rounds: 3 sources, one of which changes; to-do: 2 tabs, 2 tasks, 3 saves; speedtest: 2 widgets, 2 servers, 3 results, 2 renders; pulls: 2 pulls, 2 askers; templates: 2 widgets, 3 versions, the second of which does not parse, 3 starts (a restart with both widgets, or one widget started twice), every write may fail or be torn, clock to 1, so that one check is due after another (the slow interval only makes checks rarer); search: 3 pages, 3 holders, every choice of readers; graph: 2 bars of 2 points, every series up to one point too long; groups: 2 containers, every choice of labels and options |

The safety properties do not lean on these bounds: none failed with larger ones tried by hand (5 edits and 6
applications in `config_reload`; 6 changes, 5 edits on disk and 2 by hand in `editor`; a clock of 17, tokens followed
over 2 reloads, 3 browsers in the setup and 3 swaps of the routes in `access`; a value more of each constant that
counts in `services`), not all of which could be searched to their end.

`CHECK_DEADLOCK FALSE` stands in all of them, because every one of these systems may stop: callers have made
their calls, the program has ended, nobody edits any more, or a pool has returned. That nobody waits for ever is
checked by the liveness properties (`Answered`, `RoundsEnd`, `ComesToRest`) and by `PoolDelivers` instead.

### Properties

* `SharedFetch`: `SingleFlight`, `StalenessBound` (own maximum age plus one client timeout), `LoadBound` (no
  request while the last good response is young enough for everybody), `Answered`, `KeepsPromise`.
* `ConfigReload`: `TakesEffectOnSave`, `AtomicSaveKeepsWatch`, `NoStaleWatch`, `NothingLeaks`, `SomebodyServes`,
  `EventuallyServed`, `ComesToRest`.
* `PageUpdates`: `NeverBeforeDue` (whoever comes second finds the leaf updated), `InOrder`, `RoundsEnd`,
  `Answered`, `KeepsUp`.
* `Editor`: `EditsArePermitted`, `EditsAreFaithful` (each operation against its counterpart in `WidgetList`, and
  the page that changes is the one that was shown), `RejectedChangesNothing`, `AcceptedLoads`, `EditsAreAtomic`
  (one step of `ConfigStore` however many files are written).
* `Access`: `GrantsAreDeserved` (who is logged in has proved it, from this browser, in time, under this config),
  `RefusedOnlyWhenDue` (whoever comes back in time never has to log in again, in whatever order answers to tabs
  arrive), `LastFlowGoesThrough`, `LimitsHold` (at most 2n+1 password checks and fewer than 2n API requests
  in any window, whatever overlaps), `RefusalsAreFair`, `SetupWritesOnce`, `AnswersAreDeserved` (what was meant,
  for those who may read it, on every route and across reloads).
* `Services`: `SharedRuns`, `PoolDelivers`, `ImagesAreWhole`, `CleanIsCurrent` (no error and no notice: nothing old
  is shown), `RecoversAtOnce`, `TasksSurvive`, `TestsAreSound`, `StatusIsTrue`, `TemplatesCatchUp`,
  `FindsWhatIsAllowed`, `DrawnAsTold`.

Each module also has a type invariant or declares the shape of its variables in comments; type invariants are
proved where there are proofs and are in no run.

### Fairness

* A goroutine that can go on does: weak fairness of each one's steps, not of the program as a whole. Requests
  to upstreams end because clients have timeouts, so the end of an update is one of these steps.
* A `sync.Mutex` is handed to everybody who waits for it, by its starvation mode: strong fairness of the step
  that takes it (`Lock`, `StartWorker`/`SkipWorker`, a callback's `Skip`/`Change`, the watcher).
* Tickers and timers fire. Nobody is made to call, edit, ask or disconnect.
* `KeepsUp` in addition takes it that an update is rendered, sent and read before the leaf is due again
  (`Prompt`), and is checked without API requests and polling and with one browser: a page load pushes
  nothing to anybody, so another browser that loads the page whenever a widget is due makes every update
  itself, and this one misses them all. A slower browser can miss an event for good when its channel
  is full, until that widget's next update; that is how the code is meant.
* `Answered` of the shared cache is about a bounded number of calls: with endless failing calls of others a
  waiter may lose every race for the next entry.
* `Access`, `Editor` and `Services` state safety only, and no fairness.

## 4. Findings

1. `config_watch_overlap`: a callback reads the files before it takes `mu` and re-adds watches after it. An
   edit in between, after a save by rename killed the watch, is neither read nor reported.
2. `server_stale`: `stopServer` is assigned by the goroutine that starts the server. A second change before
   that stops the server before it, or none; with the same port the newer application does not get it.
3. `page_updates_api`: the API fetches a lazy widget whose first update failed on every request, against
   `docs/docs/api.md:241`.
4. `editor_move`: moving the only widget of an included file to a place in front of the include shifts the
   include; `pruneEmptyInclude` then drops the one that now has its index, another file's, with its widgets.
5. `config_editor_torn`: a file whose write failed after it was truncated is not among those `rollback`
   restores.

The properties of the other runs leave these cases out explicitly: `TakesEffectOnSave`, `AtomicSaveKeepsWatch` and
`NothingLeaks` are about edits outside of a reload, the first asks besides that the files of the config are watched,
and `NoStaleWatch` is about edits that waited for the one before to be applied (see the next list);
`EditsAreFaithful` excepts `MissesInclude`; `RejectedChangesNothing` excepts files left cut off and
`NeverBeforeDue` the API's requests for lazy leaves.

Seen on the way, and part of the models as they are, or named under 6, with no run of their own because no
document or test says otherwise:

* The event of a watch that died may be handled when its file has left the config and come back meanwhile. Then the
  file is forgotten although it is watched, and stays watched when it leaves the config again; an edit of it
  costs one parse that changes nothing. It takes five edits outside of reloads, or three of which some fall into one.
* A list whose load failed is shown empty, and the next save of that tab replaces what is stored. That is the
  careless save `TasksSurvive` excepts; saves overtaking each other are the other.
* `setup.go`: a file with an empty `pages:` key is not taken over and not overwritten, so the answer is 422 each time.
* A pull's status is asked for with GET (`docker-controller.js:299`), while the route of actions is POST only
  (`dynacat.go:982`).
* Dynawidgets: `initialize` takes the modification time of a template after it has read it
  (`widget-dynawidgets.go:91-98`), and `refreshTemplate` before it knows whether the file parses (194-206); so what does
  not parse is looked at once, and the old template stays until the next write. A cached template that does not parse
  makes `initialize` fail at every start (130-133), with it the config; only a check of a widget that still runs
  replaces the file. A widget whose first download could not create the file uses it, and no check does anything
  (`dynawidgets-templates.go:178-182`) until the next start.
* `pageMatchesNode` (`config-editor.go:1388`) takes every slug that starts with another and a hyphen for one with a
  number: of two pages with one name, the rights of `news-archive` may decide about `news`.
* `widget-dns-stats.go`: an empty name makes `TopBlockedDomains[i]` (224, 758) go past its end; Blocky's series of
  blocked queries may have another length than that of all; a Pi-hole session is not kept by a round that
  fails in part; 0 of 0 becomes an integer the language does not define (273, 413, 599, 815).
* A container whose `parent` label names nobody is not shown; with two parents of one id, both show the child.
* The answer of an accepted OIDC callback that arrives late deletes the cookies of the flow started after it.
* A client of the event stream keeps the user it connected with; what is looked at again is only whether
  somebody is logged in, and only when login is required.
* A page whose title has nothing to make a slug of takes the place of the home page (`dynacat.go:257`). A to-do
  list on two pages belongs to the last one.
* `IsTesting` of a speedtest stays true in what is rendered when the first test failed.
* A guest token of Reddit is kept for 6 hours, even if it is refused; an extension's answer counts as content
  whatever its status.

## 5. Proofs

The modules whose names end in `Proofs` hold them. Each theorem is about the specification of the run that checks
the same property (`Spec`, `AccessSpec`, `ServicesSpec`), for every value of the constants that satisfies the
named assumptions, which TLC evaluates on the runs' values:

* `NamesAssumption`, `FilesAssumption`, `EntryAssumption` and the like say that names differ and `nil` is not one of
  them, and that numbers are numbers.
* `LimitsAssumption` takes both limits and both windows to be positive. They are constants in the code but for the
  limit of the API, and one that is not positive turns that limit off (`api.go:62-66`).
* `PeriodsAssumption` has tokens renewed before they expire (`auth.go`: 7 of 14 days).
* `PartsAssumption` collects what the parts of `Services` take for granted: a slot for every download and one more
  (`ImagesAssumption`; inodes are what a file system has enough of), a list that is stored at the start
  (`TodoAssumption`), at least one version of a template (`TemplateAssumption`), and at least one point of a DNS graph
  to a bar, where points are numbers (`GraphAssumption`; in the code a bar is 3 hours).
* `SettingsAssumption` has configs as the parser makes them: pages in a list, and every widget parsed once and on one
  of them; the first has a page, as `isConfigStateValid` wants.
* `SourcesAssumption`: a widget whose first source lists the others has others, for a list with content names some.
* `StartsAssumption` says that the configs an editor starts from are files of entries, and `Tidy`: every file that is
  included is there, and included once. A config with an include of a missing file does not load, and for a file
  included twice `AcceptedLoads` is false (see 6). `EntriesAssumption` tells files, parts and what is no text apart.
* `PagesAssumption` says that the pages of a config are a list and that a slug is a sequence of words;
  `NoneAssumption` that no request and no path is `nil`.
* `ListsAssumption` says that lists, files, widgets and what is no text differ, and that the pages whose widgets are
  edited load at the start (`WellWritten`): each include is of a file there is and nested within the limit, and every
  widget and every include is written once. A page that does not load cannot be edited; widgets are told apart by
  where they are written; for a file that is included twice see 6.

A part of `Access` or `Services` keeps its variables while another moves. So the proof for a part begins with a lemma
that every step of the whole is a step of the part or changes nothing of it (`FlightSteps`, `SetupSteps`, ...), then
has a lemma per action of the part, and ends with one that puts them together (`...Keeps`).

### Shared fetch cache

`SharedFetchProofs`, for every set of callers and keys, every set of durations, all ages, thresholds, timeouts
and bounds on time and calls:

| theorem | says |
|---|---|
| `TypeCorrect` | `Spec => []TypeOK` |
| `SingleFlightHolds` | `Spec => []SingleFlight` |
| `WaitersHaveOwnerHolds` | `Spec => []WaitersHaveOwner` |
| `StalenessBoundHolds` | `Spec => []StalenessBound` |
| `LoadBoundHolds` | `Spec => []LoadBound` |
| `Refinement` | `Spec => KeepsPromise`: `do` implements `UpstreamCache` |

The argument. `SingleFlight` is not inductive: a second caller must be kept from starting a request, which
only the map does. So the invariant `IInv` says that whoever fetches or is about to close owns the entry of
its key (`FetchersOwn`), that an entry under way has such an owner with that key (`OwnersFetch`), and that
entries in the map never hold an error (`NoErrorKept`), because a failed entry leaves the map under the lock
that reports it. `OwnersFetch` also gives a waiter its closer, and two fetchers of a key would both own one
entry. Pruning keeps this because it takes done entries only (`PrunedFacts`). For the ages, `TimesOK` and
`AgesOK` tie the clock, the start of a request and the time its response was stored together, bounded by the
client timeout, and `GoneMeansOld` says why there is no entry although there was a good response: that one
had become older than some caller's age, or than the prune age. `LoadBound` then follows at `Miss`.

There is one lemma per action (`CallKeeps`, ..., `TickKeeps`); `Invariance` puts them together. The
refinement maps the requests under way to `busy`, each caller's key to what it wants, and the failed callers
that have not returned to `failed`; `StepRefines` shows that `Miss` is `Start`, `Store` is `Succeed`,
`Discard` is `Fail`, `Hit` and `Close` are `Deliver`, `CloseErr` is `Report`, and `Join` changes nothing
that shows. It needs `IInv`, and that an idle caller has no key.

### Updates of a page

`PageUpdatesProofs`, for every page, browsers, periods and channel capacity: `TypeCorrect`, `InOrderHolds` and
`NeverBeforeDueHolds`. `TypeOK` has the mutual exclusion in it: who is updating or has rendered is the holder of
`page.mu`. `InOrder` needs in addition that what a worker has rendered is still all current when it sends it
(`RenderedIsWhole`): it holds the mutex, so nobody has updated meanwhile, and the event it appends is at least as new
as every event before it. A full channel drops the new event, which changes no order. `NeverBeforeDue` follows from
what is chosen under the mutex; `PrewarmsPages` is all it needs of the past.

### Reload

`ReloadProofs`, for any files, texts, includes, callbacks and bounds.

`SomebodyServesHolds`, with edits at any moment, in the middle of reloads too. `SomebodyServes` says what is so when
things have settled; the invariant (`IInv`) says what is so until then. An application is with the runner that built
it, and with no other, or was handed to a starter (`Handed`). One that was stopped does not listen
(`StoppedAreDown`). As soon as one was handed over, one is live, that is, on its way to listen or serving, and not
stopped (`SomeLive`): who stops one has another to hand over, and one that finds its port taken leaves it to one that
serves.

The other four are about edits that do not fall into a reload (`pace`), and rest on `ReloadInv`. Of the watcher
(`WatchInv`), always: every file it watches is there, and while no file was ever missing, each file it knows of is
watched or the event that takes its watch away is in the queue (`LostWatch`). Between reloads (`ParsedCurrent`,
`Noticed`): whoever has parsed, and not yet handed over, has what is on disk, and when the watcher is quiet there is
no file of the config it does not know of. Of the life cycle (`OneChange`): one change runs at a time, with no server
starting, and hands over what the watcher read last; nothing runs but what `stopServer` stops; what is served at rest
is what was read last. `ChangesMeet` ties the two, and is kept by edits inside reloads too. `NoStaleWatch` in addition
needs edits one by one (`OneByOne`): one event at a time, and no callback while there is one. TLC checks both
invariants on the instance of `config_reload`.

### Who gets in

`AccessProofs`, the three parts of `Access` that keep state.

* `SetupWritesOnceHolds` (`SetupInv`): who writes holds `mu`, alone, and nobody has written before (`OneWriter`); when
  it is done exactly one browser was told so (`OneCreated`); a writer that missed no save by hand knows the settings
  on disk, and finds no pages there (`WriterKnowsFile`).
* `GrantsAreDeservedHolds`, `RefusedOnlyWhenDueHolds`, `LastFlowGoesThroughHolds`, for any tabs, users, lists and
  periods and any order in which answers arrive (`SessionsInv`). A token in the jar or on its way to a tab was proved
  for its user and secret `Valid` before it expires (`ProvedToken`), and a session that is still kept was signed in
  when it was created (`SignedIn`). Cookies on their way to a tab are of now (`TabOK`), so what arrives later never
  shortens what a browser has: `SeenOK` and `GivenOK` say that whoever was accepted keeps a token that lasts, and
  whoever was given a session keeps it until it is old. While the cookies of the last flow are in the jar nothing is
  under way that clears them (`FlowOK`).
* `LimitsHoldHolds`, `RefusalsAreFairHolds`, for any limits, windows, addresses and simultaneous requests
  (`LimitsInv`). The times at which requests of an address passed are a set; the counter of its window, if it has one,
  bounds how many of them lie in it, and how many lie in the interval before (`LoginOK`, `ApiOK`). Any interval as long
  as a window meets at most two windows.

* `AnswersAreDeservedHolds`, for any configs, users and visitors (`RoutesInv`). What a browser keeps of this
  application is true of it. What it keeps of an earlier one has numbers below those of this one, so a widget
  that answers to a number is the one that was meant, or none (`ScreenOK`, `GoalOK`). The tables themselves are
  functions of the config: a slug finds its page because slugs are distinct (`SlugsAreDistinct`), a list its first page
  because where there is a page that has it, there is a last one written into the table.

`SlugProofs` says what `newApplication`'s slugs are, for any list of pages: no two the same, and each what its page
gives, or that with a number behind the whole of it (`SlugsAreDistinct`), also where another page has a numbered one for
its own. They are a recursive function, which the provers do not unfold: that there is a
function of the first `n` pages, and that its slugs are distinct, is shown by taking the least `n` of which it is
not so (`Least`, `LoopEnds`). The search for a free number ends, because of more numbers than there are slugs one is
free (`SomeFree`); all that is used of the words is that numbers are among them.

### The editor

`EditorProofs`, for any pages, users, files, parts, requests and bounds.

* `RejectedChangesNothingHolds` (`EditInv`): whoever edits holds `editorMu`, alone, and of every file nobody else
  touched it is as it was before, or the edit knows what it was (`KnowsHowItWas`): from its contents collected before
  the first write, or because it creates it (`CreatesItsFile`). An edit does not both create and change a file.
* `AcceptedLoadsHolds` (`TidyInv`, with `EditInv`). The config was validated before the doomed files were deleted, so
  the question is whether it loads without them. It does if only doomed files include doomed ones (`LoadsWithout`):
  then parsing goes through the same positions (`SameChains`, by the least depth at which it would not). That
  `prunePageContainers` dooms such files needs that each has one include (`PagesAreRemoved`), and this has to be
  kept through every write, failure and rollback: a config is tidy whenever nobody edits, each edit would make a tidy
  one of it (`EditsAreGood`, with a lemma per edit), and between them every file includes at most what it did before,
  or will after (`Within`, `DiskIsTidy`), also when it is torn or somebody adds to it by hand.
* `EditsAreAtomicHolds` (`StepInv`, with `EditInv` and `TidyInv`): the disk of `ConfigEditor` implements `ConfigStore`,
  whose config is the set of parts it loads to (`PartsOf`). Which files that reads, at which depth, is made explicit
  (`Stages`, `StagesExist`), so that the parts of two disks can be compared file by file: what one has and the other has
  not is in the files that were dropped or rewritten (`PartsAreKept`). Each edit, from the files it read to those it
  means to leave, therefore adds, drops or replaces one part (`EditsDiffer`), and this is decided before the first
  write (`Differ` in `StepJob`). As long as nobody else writes, what an edit has written says what it was to
  (`SaysIt`), so at its end the disk is what was meant; and until then it is not committed.

`EditorPageProofs`, for any pages, users, lists, files, widgets and depths of includes.

* `EditsArePermittedHolds` and `ShownPageChanges` (`RightsInv`): the page a server may let a user edit is one of the
  running application that matches the entry in the files. Matching leaves its name; and the slug of the page that
  matched is its own with or without a number (`SlugsKeepBases`, from `SlugsAreDistinct`). So an edit is of a page its
  user may edit, or of one with the name of such a page; while the application runs what the files say, every page
  matches itself at its position (`FindsItself`), and it is that very page. A browser is shown pages of one version
  of the files, or that there is one it may not see.
* `ShownListChanges` (`TreeInv`: the page is `Fine`, that is, it loads and has every widget and include once, and kinds
  are kinds). A merged list is computed by recursion over the depth of includes. That depth ends (`LevelsSettle`), so
  the merged lists of all places, the included files among them, are a solution of one equation: the list of a place
  is made of those of its entries, one after the other (`ShownSolves`). There is only one solution, by the least depth
  at which two would differ (`OneSolution`). What an edit does to the files is to put one entry into a place or to
  take one out; what it does to the screen is the same change in the lists of the places above it. That the changed
  lists solve the equation of the changed files is `Substituted`, and from it follow `PutShows` and `TakeShows`. So
  whatever `widgetInsertPoint` chooses is a place which leads to the position on the screen (`InsertPointLeads`), and for
  a move it still does when the widget has been taken out (`LeadsStill`). `pruneEmptyInclude` drops an include whose
  file shows nothing (`PruneShows`), unless the insertion shifted it, which is `MissesInclude`. That a new file nests
  no deeper than the limit is not a consequence but checked by the code (`Fits`).
* `PagesStayWellWritten`: so the page loads after every edit, the moves of `MissesInclude` included.
* `EditsAreFaithfulHolds` is `ShownPageChanges` and `ShownListChanges`.

### Helpers and widgets with state

`ServicesProofs`, part by part.

* `SharedRunsHolds` rests on `FlightInv`. That at most one caller runs `fn` follows from `CurrentIsHeld` and
  `OneHolder`: who runs it, or has run it and not yet reset `current`, holds the current call, and there is one. That
  everybody gets an answer which was not there when they asked needs that a call is current only while it is not
  closed (`CurrentIsOpen`): `done` is closed after `current` was reset (`ResetIsPast`), so whoever joins is in time
  (`Timely`).
* `PoolDeliversHolds` (`PoolInv`): a task handed out is with a worker or has its outcome (`Accounted`), nothing but
  its outcome is in its place (`InPlace`), and a worker leaves only when the queue is closed, all is handed out and
  its hands are empty (`LeftEmpty`). So the pool can always go on until nothing is under way, and then every place
  is filled.
* `ImagesAreWholeHolds` (`ImageInv`): an application downloads an image once at a time (`OneDownload`), and as long as
  the temporary file has its name, whoever truncated it last still writes to it and it is not the file that is served
  (`TempIsOpen`). So what is renamed is whole, and nobody of the same application writes it afterwards.
* `TasksSurviveHolds`. `RowsAreSent`: what a transaction has inserted is part of one save, so what it commits is
  a list that was sent, and what it rolls back changes nothing. `Careful` holds until a tab saves without knowing what
  is stored: a save leaves out only what was deleted, of what its tab had seen (`SavesDelete`, `TabsDelete`), and what
  its tab had seen is what is stored (`Known`).
* `TestsAreSoundHolds`. `OneTest`: `running` is set for as long as there is a test, which keeps a second one from
  starting. `KeptWorks`: a test measures with the kept server, which is forgotten when a test with it fails.
  `Neighbours`: a render that has taken the current result and not yet the one before is at most one test behind,
  because the test that just ended is too young for another to start.
* `StatusIsTrueHolds`. `Ended`: a pull leaves the map after its end, and an end that was read stays.
  `PercentBelowFull`: what is computed from the layers is never 100, so only the end makes it that.
* `TemplatesCatchUpHolds` (`TemplateInv`), for any versions that do not parse: a widget shows what was in the file
  when it last saw it, unless that does not parse, and never shows what does not (`ShowsWhatItSaw`); no etag is newer
  than the repository (`KnowsThePast`, `MetaOK`), one widget asks at a time (`LockOK`), and whoever has the newest etag
  speaks of the file as it is, unless a first download overlapped with another, or its file with a check (`EtagIsTrue`,
  `OneFirst`). What is torn has one writer and is no version, so no etag that is the newest can go with it: not
  after a write that failed, nor after a crash. The four steps that write to the file share `WritingKeeps`.
* `FindsWhatIsAllowedHolds` and `ProblemsAreSeenHolds` are about functions of the state: they say for every choice of
  pages and readers, or of containers and labels, what the runs say of the small ones. The latter is the half of
  `DrawnAsTold` that is about lists of containers.
* `DrawnAsToldHolds` is the whole of it, for any number of bars of any width and series of numbers of any length. The
  bars are sums by folds over functions, of which no theorem module of the library says anything: that such a fold
  exists and that a sum is any of its elements and the rest (`SumExists`, `TotalOfOneAndOthers`) is shown by a least set
  of which it is not so (`LeastSet`). So the hours of a bar may be counted from the last point, by their age
  (`TotalTurned`, `BarIsSum`), and there the cut, padded and whole series of all services agree (`PaddedIsAgo`,
  `DayIsAgo`, `PointIsSum`).
* `CleanIsCurrentHolds` and `RecoversAtOnceHolds`, for any sources, versions and rounds (`RoundsInv`). A round is right
  (`RoundIsRight`) if no error means that what it shows is current, and if there is no error when everything
  answers. That is shown of each kind by itself: first which answers the kind can get at all (`FirstAnswersAre`),
  then what it makes of them. Most kinds get content, nothing or a failure from each source, and differ in which
  failures they tell (`PlainKinds`). Feeds, videos, server stats, torrents and Reddit also keep, ask again or fall
  back, and have lemmas of their own. `SettledIsClean` ties the error to what the widget says.

### Only model-checked

* Liveness, all of it: `EventuallyServed`, `ComesToRest`, `RoundsEnd`, `KeepsUp` and both `Answered`. The provers
  have no rules for fairness and ENABLED.

Every other property of a run that passes has a theorem. Induction over data is out of the provers' reach as a rule,
for want of a scheme that takes a property. `SlugProofs`, `LevelsEnd`, `SumExists`, `ExpandEnds` and `RunsEnd` do it for
one function each, with a least counterexample, or for a set of numbers or sequences in the place of the property
(`NatInduct`, `SeqInduct`).

## 6. What is not modelled, and why

* Of the editor: styling and theme sections, which write one file; YAML itself; containers in containers; a
  file that is included twice, for which removing a page deletes the file under the other include; requests
  still running on an application that a reload replaced, which has an `editorMu` of its own; a text editor
  that saves between the editor's read and its write of the same file, whose change is overwritten; crashes in
  the middle of an edit, for which the code has no recovery. In each of the last three, nothing in the code tries
  to keep a promise that could be checked.
* Of the reload: what makes a config valid; errors of fsnotify itself; a parse that fails while a file is missing;
  a main file reached through a symbolic link.
* Of the updates: the cache types (only whether a period has passed), the 15 second check of a client's
  rights, more than one request of one browser at a time, and an answer to a request for one widget that arrives
  after a newer event for it. Actions of widgets and updates of one page are serial, by `page.mu`
  (`dynacat.go:793-825`).
* Of the routes: slugs with a slash or hidden by another route, `dynamic-updates` of a single page, static
  assets, themes.
* Of logging in: bcrypt, the signatures of tokens and of the provider, and addresses behind a proxy. They are
  yes or no here.
* Of the image cache: its configuration, and `.tmp` files around a reload beyond the two applications modelled.
* Of dynawidgets: other templates in the same metadata file, an existing file that cannot be read, what a template
  requires of the widget, and the notice of an update.
* Of the widgets that fetch: formats, and what depends on what a service's fields mean. Answers are classes
  (`SourceAnswers`) and one source changes per behaviour. Left out are the month a calendar keeps of releases
  although a service failed, a Reddit template of a request URL without a guest token, Deluge's reconnection of
  its daemon after a login, libraries of the latest media that fail one by one, and indexing into an empty
  reply (`Sunrise[0]`, `Quote[0]`). Twitch's token lives in `twitch-shared.go` and is part of its widget's round.
* Config schema and fields, the CLI, logging, system information, self-update, themes, static widgets and the
  template language: sequential, with no state that others share.

## 7. Plan

Done, because everything else passes through them: cache, reload, updates, editor, then access and the helpers
and widgets with state. What is left, in this order:

1. The calendar's cache of months, and a client of the event stream that keeps its user across a reload.
2. Containers in containers in `PageUpdates` and `EditorTree`, and two requests of one browser.
