# A verification project for the helmdeck control plane

TLA+ modules, TLC configurations and TLAPS proofs for the parts of the helmdeck control plane
(`src/cmd/control-plane`, `src/internal`) whose correctness depends on the order of events.
helmdeck runs *packs* (capabilities such as `repo.fetch` or `slides.narrate`) for agents that speak
MCP or REST, most of them in a session, a docker container of their own. The code that matters here
is the code that keeps runs, containers, clones and jobs consistent while callers race, contexts
expire, docker refuses, connections break and the process restarts.

1. [Inventory](#1-inventory)
2. [Modules and plan](#2-modules-and-plan)
3. [PipelineRuns](#3-pipelineruns) · 4. [Sessions](#4-sessions) · 5. [RepoCache](#5-repocache) ·
   6. [AsyncJobs](#6-asyncjobs) · 7. [McpTransport](#7-mcptransport) · 8. [Packs](#8-packs) ·
   9. [Services](#9-services)
10. [Runs and bounds](#10-runs-and-bounds)
11. [Fairness](#11-fairness)
12. [Proofs](#12-proofs)
13. [Where code and documentation disagree](#13-where-code-and-documentation-disagree)
14. [What is not modelled](#14-what-is-not-modelled)

To repeat the checks: `tlc -config PipelineRuns_life.cfg MCPipelineRuns` (and so on, see section 10),
`tlapm PipelineRuns_proofs.tla` (and the other `*_proofs` modules).

## 1. Inventory

| Component | State it keeps | Operations | What is hard |
|---|---|---|---|
| Pipeline runner (`pipelines/runs.go`, `runner.go`, `store.go`) | `pipeline_runs` table with a partial unique index on in-flight fingerprints; the registry (snapshots, cancel funcs, cancel flags, `startMu`); a goroutine per run | StartRun, Rerun, CancelRun, GetRun, RunSync, sweeper, ReconcileOrphans | single flight, a cancel against every point of a run, saves on dead contexts, wedged steps, restarts |
| Session runtime (`session/docker/runtime.go`, `session/watchdog.go`) | docker's containers; the table of sessions | Create, Get, List, Terminate, ExtendTimeout, TerminateByRunID, PruneOrphans, watchdog tick | docker requests are long and may fail, and the table is read and written around them |
| Pack engine (`packs/packs.go`) | none of its own, uses session, memory, artifacts | Execute: schema, session, CDP, cache, handler, artifacts, audit | which code an error gets and what the handler had done by then; the cache between callers; deferred termination |
| Builtin packs (`packs/builtin/`, `vision/`, `avenc/`) | none, but for the clones below | one handler each: checks, commands in a session, calls of models and providers, artifacts, notes | the order of checks, payments, pushes and failures |
| Repository cache (`packs/builtin/repo_fetch.go`, `repos/janitor.go`) | clones, lock files and markers on a volume all sessions mount | the acquire script, the janitor's sweep | a shell script and a Go process that share only files; kills in the middle of git; inode against name of a lock |
| GitHub webhook and swe.solve (`api/webhook_github.go`, `packs/builtin/swe_solve.go`) | branches and pull requests at the origin, the clone | dispatch, clone, solve, commit, push, pull request, comment | two deliveries for one repository, redeliveries, what the comment says |
| Asynchronous jobs (`mcp/jobs.go`, `webhook.go`) | the job registry, a goroutine per job | pack.start, pack.status, pack.result, tasks/get, webhook delivery, sweep | polls against the end, the sweep and each other; retries; nothing is durable |
| MCP transports and bridge (`api/mcp_sse.go`, `mcp_server.go`, `mcp/server.go`, `bridge/`) | per connection: a pipe, a channel of 16 frames, Serve's goroutine | open, POST, stream, write, close | back-pressure in both directions, peers that leave |
| CDP client factory (`api/browser.go`, `cdp/`) | chromedp clients by session | Get, Evict, the operations | Get dials outside its lock while sessions end |
| Marketplace (`marketplace/`, `packs/registry.go`) | install directory, pack registry, install records | Install, Uninstall, Refresh, boot loader | three stores, no lock around them, partial failures |
| MCP server registry (`mcp/registry.go`) | `mcp_servers`, cached manifests | CRUD, Manifest | a fetch in flight while the row changes |
| AI gateway and keystore (`gateway/`, `keystore/`) | provider registry, fallback rules, keys, metrics rows | Dispatch, Chain.Dispatch, key requests with hydration, Record | deadlines, retries and triggers along a chain; overlapping hydrations |
| Vault (`vault/`) | credentials, ACLs, usage log | CRUD, Grant, Revoke, Rotate, Resolve, hydration at boot | several statements per operation |
| Memory (`memory/`) | `memory_entries` | Put, Get with lazy expiry, List, Delete, forget routes | expiry against overwriting |
| Artifacts (`packs/s3store.go`, `janitor.go`) | objects and an index | Put, Delete, listings, sweep | two stores and failures between them |
| The rest | per request, or none | auth, audit, egress, templates, routers, CLI, web | little that depends on order |

How they interact: a REST or MCP handler calls `StartRun` or `Engine.Execute`. StartRun spawns the
goroutine that calls Execute once per step, with the run's id in the context; Execute creates a
session labelled with that id, looks into the memory cache, runs the handler (which talks to the
container through docker exec or chromedp, to models through the gateway, to the origin with a
credential of the vault), collects its artifacts, and terminates the session unless the pack preserves
it or the caller pinned it. CancelRun sets a flag, cancels the context and asks the session runtime to
remove the run's containers *by label*. The watchdog terminates sessions past their deadline, whoever
uses them; that and TerminateByRunID are what ends a docker exec that ignores its context. `repo.fetch`
works on a volume that outlives the sessions, and the janitor of the control plane evicts clones from
it. At boot `main` prunes containers, starts the watchdog, reaps the runs the last process left, and
only then listens. Everything is one process with one SQLite connection; nothing but the database,
docker, the volume and the bucket survives it.

What makes each component correct (and where it is stated):

* a request is executed once at a time, its callers are answered with its run, an ended run is
  reported ended for good, a cancel gets through (`PipelineRuns`);
* no container is forgotten, none outlives the call, run or deadline it belongs to, and none is
  killed before its deadline (`Sessions`);
* one worker at a time in a clone, only complete and clean trees are handed out, clones do not stay
  for ever (`RepoCache`);
* what is told of a job is true, no result is lost, every delivery settles (`AsyncJobs`);
* answers come in order and complete, and a server ends with its peer (`McpTransport`);
* a caller who is told to retry does nothing twice, one who is told to correct its input has paid for
  nothing, the cache serves what it should (`PackExecution`);
* each of the services in section 9 keeps its stores in step, as far as the code gets that.

`PROJECT.json` lists the hazards line by line, with the properties that cover them.

## 2. Modules and plan

The large components `X` have `X.tla` (the model and its properties), `XInv.tla` (its inductive
invariant), `X_proofs.tla` (the theorems), `MCX.tla` (what TLC needs) and configurations `X_*.cfg`.
Two abstract specifications say what callers rely on: `SingleFlight.tla`, which `PipelineRuns` implements, and `Dialogue.tla`,
which `McpTransport` implements. Definitions introduced by
the word *Mutant* in their comment, or described as what the code would be without a check, belong to no
specification: each is a plausible bug in the definition that follows it, and `PROJECT.json` names the
property that catches it.

| Modules | Composed in | Sections |
|---|---|---|
| `PipelineRuns`, `SingleFlight` | `MCPipelineRuns` | 3 |
| `Sessions` | `MCSessions` | 4 |
| `RepoCache` | `MCRepoCache` | 5 |
| `AsyncJobs`, `McpTransport` (with `McpTransportInv`), `Dialogue`; proofs of both in `AsyncJobs_proofs` | `MCAsyncJobs`, side by side | 6, 7 |
| `PackSteps`, then `PacksTools`, `PacksBrowser`, `PacksRepo`, `PacksMedia`, `PacksText`, then `PackCatalogue`; `PackExecution` | `MCPackExecution`: the engine with the catalogue as a constant | 8 |
| `CdpClients`, `McpServers`, `MemoryStore`, `Marketplace`, `Gateway`, `Vault`, `Artifacts`, `Webhooks`; `ServicesInv` and `Services_proofs` are of the six without secrets, `SecretsInv` and `Secrets_proofs` of `Gateway` and `Vault`; `WellOrder` has lemmas both use | `MCServices`, one at a time | 9 |

What is left of the plan:

1. Composition of `PipelineRuns` with `Sessions`, replacing the step's abstract wedge and kill by containers.
2. `Templates`: the references of a step's input as a recursive function over small templates.

## 3. PipelineRuns

The state is the table (`fp`, `row`), the registry (`reg`, `cancels`, `cancelReq`, `startMu`), a call per client
(`req`, `answer`), and per run the goroutine's place (`pc`), its Run struct (`loc`), its context (`ctx`) and its
step (`exec`). Each locked access to the registry and each SQL statement is one action.

* **StartRun, Rerun**: `CallStart`/`CallRerun`, `Coalesce` (the row found is the answer), `LookupMisses`
  (`startMu` is now held), `InsertRun`/`InsertFails`, `RegisterRun`. `AbandonStart` is a request that goes away.
* **RunSync**: `SetCancel`, `CancelledBeforeStart` (the race guard), `DecodeInputs`, `SaveRunning`, `BeginStep`,
  `ReportProgress`, `StepSucceeds`/`StepErrors`, `JudgeStepError`, `AllStepsDone`, `FinishSave`, `FinishPut`.
  `SetupFails` is StartRun's closure on RunSync's error.
* **A step** may wedge (`StepWedges`): a docker exec, begun on a live context, stops answering, in a session of the run or in one
  pinned from outside, which carries no run label ("outside"). `KillSessions` (TerminateByRunID) ends the former, unless docker fails
  the list ("missed") or a removal ("leaked", the entry is gone and nobody retries); `SessionExpires` (the watchdog) ends what is
  still in the table, the session pinned from outside included.
* **CancelRun**: `CallCancel`, `MarkCancelRequested`, `FireCancel`, `KillSessions`, in the code's order.
* **Sweep**, **Crash**, and at boot `ListOrphans`, `Reap`, `Listen`.

`Saved(r, s, c)` is SaveRun: database/sql refuses a context that is done. `Columns`/`Scanned` are the columns of a
row: the failure class has none. Assumptions: the database works (SaveRun on a fresh
context does not fail) and docker answers, if only with an error; ids are fresh; inputs are their fingerprint. The second lookup after
a UNIQUE violation (`runs.go:248-252`) is left out because `IndexNeverRefuses` shows that there is none. The sweep takes any
ended entry at any time, which covers every clock. A non-terminal SaveRun and the `reg.put` next to it are one
action, since only the two together are looked at.

`SingleFlight` says what callers rely on: each request has at most one owner, answers name the
owner, a new owner is admitted only when the last one settled, with a fresh id.
`ImplementsSingleFlight` maps `owner` to the run whose row is in flight, `used` to the runs with a row.

Properties: `NoDuplicateExecution` (two goroutines never work on one request), `AtMostOneInFlight`, `IndexNeverRefuses`
(the unique index is a second line of defence that is never needed), `InFlightRowsAccounted` (which histories
leave a row in flight), `HistoryConsistent` (steps and status tell one story, in table and registry),
`SettledViewFinal`, `KilledIsCancelled` (a killed step is no failure of the run, and what is reported cancelled was asked to be); liveness `CancelEndsGoroutine`, `EveryGoroutineEnds`, `StartReturns`.

## 4. Sessions

Two stores: docker (`container`, `runOf`, the run label) and the table (`limit`, `age`; an entry is a nonzero limit).
`call` says what each pack execution, REST request and the watchdog is doing; `kill`/`victims` follow CancelRun,
`stale` follows PruneOrphans. Each docker request is an action that may fail (`LeftBehind`, at most `MaxFailures`
times, remembered in `leaked`).

* **Create**: `RequestContainer`, `MakeContainer` (docker's own step), `CreateAnswered` or `CreateFails` (the caller gives up while docker may still make it), `StartContainer`, `InspectContainer`, `InsertEntry`; `AbandonCreate` cleans up.
  A cancelled run context makes docker refuse the next request (`CtxLive`).
* **Execute**: `PinSession`/`PinInspect` (Get), `ExtendTimeout` (compared with the copy by the engine, again under the lock by
  the runtime), `HandlerReturns` and the deferred Terminate.
* **Terminate**: `TakeEntry`, `StopContainer`, `RemoveContainer`, `TerminateFails`; from DELETE (`CallDelete`), Execute and the watchdog.
* **Watchdog**: `ListExpired` copies, `Doom` goes through the copy. **TerminateByRunID**: `CancelContext`, `ListRun`, `DropEntries`,
  `RemoveVictim`, `KillReturns`. **Restart**: `Crash`, `ListManaged`, `PruneOrphan`, `Listen`.

Properties: `NothingForgotten` (every live container is in the table, in somebody's hands, or `leaked`), `EphemeralSessionEnds`
(ADR 004), `CancelReclaims` (after CancelRun returns nothing of the run is left, a Create under way included, because the
context is cancelled first and containers are found by label; what docker makes only after the list is never used, and its creator removes it if it still waits), `EntryHasContainer`, `DeadlineNeverShrinks`, and
`EverySessionEnds` under fairness. `leaked` is in these properties because the code gives up on a container docker
refused to remove; `AbandonedIsCleaned` shows what that means. `strayed` and `late` are the containers whose create was still with docker
when its caller gave up, or when CancelRun listed the run's containers: the engine makes them afterwards and nothing but the next boot
removes them. `CreatesLeaveNothing` (section 13) says there are none, and is refuted.

## 5. RepoCache

The volume: `tree` (absent; partial, a clone killed before it had a HEAD; cut, HEAD resolves and files are missing; complete; torn by a
removal), `edits` (whose uncommitted files are in it), `kept` (whose commits or nested repositories are), `damaged` (a git command was
killed or failed in it, which may leave a stale `index.lock`), `reused` (`.hdreused`), `fresh` (`.hdaccess` within the TTL), `name` (which
inode `.lock` names), `foreign` (a lock file the janitor created) and `holder` (who holds the flock on an inode). `fetch` and `jan` are the
processes. One action is one command of the script or one system call of the janitor.

* **Script**: `OpenLock`, or `LockRefused` (a lock file of the janitor's, which a session may not open), `Lock`/`LockTimesOut`,
  `FindsGit`/`StartsOver`, `GitFetches`/`FetchFails`, `GitClones`/`CloneFails` (everything is removed, or, in the checkout, a tree with a
  HEAD is left), `CheckoutFails`, `ResetTree` or `ResetFails` (whose failure nobody is told), both with the touch and the unlock that ends
  the subshell, `ReadMarker` (after the unlock), `PrivateClone`, `Envelope`.
* **The session**: `Edit` (a file, or a commit or a nested repository), and its end, `Killed` or `KilledInGit`. The kernel drops a flock
  with the last descriptor.
* **Janitor**: `Discover`, `JanitorOpens`, `TryLock` (RemoveAll begins), `RemoveAll`/`RemoveFails` (the siblings are unlinked),
  `RemoveUnlocked` (the lock file cannot be opened), `Restart` (with some or all of the tree gone).

Abstractions: one fetch per session; sessions edit and commit but do not remove `.git`; a clone's age is within or beyond the TTL; over the
size cap the janitor may evict any superset of the stale clones, which covers every distribution of sizes. What a checkout or a reset
leaves half-way is one value, cut. `evicted` and `unlinked` are history. Properties: `OneWorker`, `HandedOutIsComplete`,
`LeftoversAreGone` say what the lock and the reset do guarantee, and under which condition: until the janitor has unlinked the lock file,
has touched the clone, or a git command was killed or failed in it. Each condition is needed: the statements of section 13 drop them one by
one and are refuted. `StaleCloneGoes` is liveness.

## 6. AsyncJobs

`state`, `outcome` are the job's fields under its own lock, `jobs` the registry under another; `call` is a client's request between the
lookup, the read, the removal (`pack.result` of a completed job) and the answer. `hook`, `told`, `attempts`, `received` follow a webhook: the goroutine
reads the ended job again (`BuildPayload`) and posts what it read; a POST is processed by the receiver or not, and answered with 2xx, with
the 2xx of a page it redirects to, with 4xx or nothing usable. A restart forgets every job.

Properties: `AnswersAreWhole` (what a client is told is the job's end, with its outcome), `NoneLostUnread` (within the hour a job leaves the registry only
by a pack.result that has read its result), `ReceiversHearTheSame` (what the receiver of a webhook processed and what every poll
tells is one end, and no poll that reads after the receiver heard of it is told that the job still works), and under fairness
`WebhookSettles`. The registry belongs to one transport: the websocket and the SSE endpoint each build a PackServer with a registry of its
own (`api/mcp_server.go:58`, `api/mcp_sse.go:126`), so a job started on one is unknown on the other; the module is one of them. Job ids are fresh. Jobs share
nothing but the sweep, which treats each by itself, so one job is enough for TLC; the proofs are for any number.

## 7. McpTransport

One connection of either kind. Over SSE, POSTs put lines into a pipe (`line`), `Serve` takes one at a time, writes
progress and the answer into a channel of `Room` frames (`out`), and the GET handler's loop (`pump`) delivers them.
Over a WebSocket a reader feeds the pipe, `Serve` writes to the socket, and the peer is the bridge, whose own two pumps are
`SendLine`, `StdinEnds`, `ConnectionBreaks` and `NextLine`. Lines are calls of a pack, lines answered at once, notifications, and
one that is longer than the scanner's buffer, which ends `Serve`. The peer may leave (`PeerLeaves`, `Disconnect`) at any moment; what
the handlers defer is `ClosePipe`, `DropSession` and `HangUp`.

Properties: `AnswersInOrder` (the peer hears answers in the order the lines were taken, each after its progress, none missing),
`ImplementsDialogue`, and under fairness `TakenIsAnswered` and `ServersEnd`: once the peer has gone `Serve` ends, or it waits for ever at a full channel whose loop has
ended (`Stuck`). That exception is real, see section 13. 
`Dialogue` is what a connection is for its peer: one line at a time is taken, reported on and answered, and a cut takes away the end of
what was said and nothing else. Whether an answer is owed is a matter of counting there: fewer answers were said than lines taken. The mapping
takes for said what the peer heard and, while it is there, what waits in the channel (`Stream`): a frame in the channel is as good as heard
until the connection is cut. A line that `Serve` still takes after the cut is asked of no one.

`TransportSpec` shares no variable with `AsyncJobs`; the run checks
both at once because a job registry is reached through such a connection.

## 8. Packs

`PackExecution` is `Engine.Execute` for any catalogue of handlers: `Begin`, `RefuseInput` (schema), `NeedsNone`/`Attach`/`Create`/`NoSessionFor`,
`ServeCached`, `Invoke`, the handler's steps (`Skip`, `Do`, `Fail`, `Panic`), `Return` (output schema, cache), `Finish` (deferred Terminate, audit row).
`EndContext`, `SessionEnds` and `EntryExpires` may come at any moment. `Wrap` is `wrap`/`Classify`: a code the handler chose stands, an untyped error (`Raw`) becomes any of the codes its cause or text can hint at,
and the bare error of an ended context (`Gone`) a timeout.

The memory has one namespace per caller, and per caller and session for a call that has one; all packs share it, and the cache's keys (`CacheKey`) are keys like any other. `memory_store`, a step of the kind *fact*, and
`StoreFact`, the REST route, write any key, that of an answer included; a handler's own notes have a key of their own.

A handler is a set of *paths*, the sequences of steps its control flow can take. A step does one kind of thing (`Kinds` of `PackSteps`: check, look,
dial, wait, work in the session, store an artifact, note or fact in memory, *pay* a metered provider for an answer - a model's, a voice, an image -, *act* on the outside world or start a program of the caller's choice) and names the typed errors it can end the handler with,
`before` it had its effect and `after`. So the model keeps what these properties tell apart - the order of checks, effects and failures with their
codes - and leaves out what is computed. Loops are one or two rounds; an optional step (`Maybe`) is skipped or not. The `Packs*` modules translate the
handlers, `PackCatalogue` has what main registers and what each pack declares (session, preserved session, cache).

Properties, proved for every catalogue that meets two assumptions and checked with the shipped one:

* `RetryIsSafe`: no code that pipelines call transient (`isRetryable`) is given to a call that acted - but for the two packs in `LateRetriers`. It rests on `HandlersTypeLateErrors`, which TLC
  evaluates on the catalogue: after an act, handlers type their errors, and not with a retryable code. `desktop.run_app_and_screenshot` returns the context's own error while it waits for the launched
  application, and `artifact_failed` if the picture cannot be stored; `swe.solve` does the latter with the trajectory of an agent that ran. Acts only: a retry after a payment pays again, and several packs fail in a retryable way after one.
* `RefusedIsClean`: `invalid_input` means nothing was changed or paid for - but for the thirteen packs in `LateRefusers`, which find a mistake in the input late, or blame it for what a model
  made of it. A request that no provider answered counts as not paid for.
* `CacheServesOwn`: what the cache serves the caller wrote itself, and an answer among it was computed for the same pack and input and passed the output schema. A fact the caller stored under the key of an
  answer is served as it is: `ServedFitsSchema` is refuted.

## 9. Services

Eight services keep small stores and share no state with each other. `MCServices` checks them in one run: each behaviour is of one of them (`part`), the others
rest; so the state space is the sum of the parts, and every invariant is checked where its service moves.

* `CdpClients`: the cache of browser connections. `Find`, `Dial` and `Insert` are Get's steps outside and inside `f.mu`; `Evict`, `Close`, `EndBrowser` are DELETE and the engine's defer;
  `Expire` is the watchdog or a cancelled run, which do not evict. `NoClientIsLost`: every open client is either cached, in exactly one place, or carried by the one request that will close or insert it.
* `McpServers`: rows and manifests, one action per statement, the fetch mutex. `ManifestIsOfConfig`: a cached manifest is of the row's config unless a fetch was `overtaken` by an Update.
* `MemoryStore`: `Get` reads, judges and drops in three steps; a forget deletes pattern by pattern, and each takes every key `LIKE` matches (`Matches`), which may be more than its scope means (`Meant`). `PutsStay`: what was put stays, with its expiry, until its own
  caller deletes or forgets it, unless a Get was about to drop its predecessor (`crossed`). List's own patterns leave `_` unescaped (`sqlite.go:311-322`): what it shows is not matched against a pattern here.
* `Marketplace`: `Install` from manifest to record (`LoadManifest`, `Clean`, `Clone`, `CopyFile`, `VerifyTrust`, `BuildPack`, `RegisterPack`, `Record`), `Uninstall`, calls
  that copy files, an author who publishes or takes a version back, `Reboot` with the loader. `InstalledIsWhole`: directory, registry and record agree after an install that met nobody;
  not that a call gets that version, which is refuted below.
* `Gateway`: `Ask`, `Backoff`, `NextCandidate` are the transport's retries and the chain, `KeyStep`s change keys and hydrate. `AsksAreDue`: nobody is asked more often than the
  policy allows, or out of the rule's order, or after an answer the rule does not name: the table `Fires` says what each trigger is for, 429 for `rate_limit`, and for `timeout` 504, the client's and the dialer's own
  time limits (retried first) and 408 (not retried); the metrics count providers; a lone hydration registers the newest keys. The chain is modelled although `main` wires none yet.
* `Vault`: statement by statement. `SecretsAreDue` is linearizability in three parts: a secret was readable at some moment of the call, none more specific was readable throughout, and a refusal means none was. Resolve tries the rows it listed, the most specific first (`FirstMatch`), and reads each grant as it comes to it.
* `Artifacts`: bucket, index, janitor, operator, restart. `HandlesStand`: a handle somebody has can be fetched until its TTL or a deletion, and the explorer shows it until a restart.
* `Webhooks`: deliveries to comments, with `swe.solve` in a private clone or in the one of the volume. `ToldBranchesStand`: what a job says it pushed is there, and is its own change when it has a clone of its own.

## 10. Runs and bounds

| Run (`module`, `cfg`) | Bounds | States | What it shows |
|---|---|---|---|
| `pipeline_singleflight` (`MCPipelineRuns`, `PipelineRuns_singleflight.cfg`) | 2 clients, 2 runs, 1 fingerprint, no bad inputs, 1 step, 1 crash, symmetry | 1263793 | `AtMostOneInFlight`, `NoDuplicateExecution`, `IndexNeverRefuses`, `ImplementsSingleFlight`. Two callers racing StartRun, Rerun and CancelRun on one request, with timeouts, wedged steps and a process crash, never get the request executed twice; the runner implements SingleFlight. |
| `pipeline_life` (`MCPipelineRuns`, `PipelineRuns_life.cfg`) | 2 clients, 1 run, 2 fingerprints of which one has bad inputs, 2 steps, 2 crashes | 86264 | `InFlightRowsAccounted`, `HistoryConsistent`, `KilledIsCancelled`, `SettledViewFinal`, `CancelEndsGoroutine`, `StartReturns`, `EveryGoroutineEnds`. The life of one run of a two-step pipeline, with good and bad inputs, through cancels, timeouts, sweeps and two crashes: what the table and GetRun tell of it; and, with the watchdog ticking, that every StartRun call returns, a cancel gets even a wedged goroutine to its end and every run goroutine ends. |
| `pipeline_durable` (`MCPipelineRuns`, `PipelineRuns_durable.cfg`) | 1 client, 1 run, 1 fingerprint, 1 step, no crash | until the counterexample | `ReportedEndIsDurable`. Refuted: A run whose context dies after its last step is reported ended, and reported running again once its snapshot is swept. |
| `sessions_containers` (`MCSessions`, `Sessions_containers.cfg`) | 2 calls, the watchdog, 2 sessions, 1 run, 1 limit, 1 docker failure, 1 crash, symmetry | 1477897 | `NothingForgotten`, `EphemeralSessionEnds`, `CancelReclaims`, `EntryHasContainer`. Two callers creating, deleting and cancelling two sessions, with a docker failure and a crash anywhere: no container is forgotten, outlives its pack, or survives its run's cancel. |
| `sessions_lifetime` (`MCSessions`, `Sessions_lifetime.cfg`) | 2 calls, the watchdog, 1 session, 1 run, 3 limits, no failure, 1 crash | 115706 | `DeadlineNeverShrinks`, `EverySessionEnds`. Two packs that share, extend and delete one session while the clock runs, through a restart: its deadline is never brought forward and its container goes in the end. |
| `sessions_abandoned` (`MCSessions`, `Sessions_abandoned.cfg`) | 2 calls, the watchdog, 1 session, no run, 2 limits, 1 failure | until the counterexample | `AbandonedIsCleaned`. Refuted: Docker refuses one stop or removal: the entry is already deleted, so no watchdog tick ever tries again. |
| `repocache_volume` (`MCRepoCache`, `RepoCache_volume.cfg`) | 2 fetches, the janitor, 1 clone, 3 inodes, size cap on, 1 failure of the janitor | 847661 | `OneWorker`, `HandedOutIsComplete`, `LeftoversAreGone`, `StaleCloneGoes`. Two sessions of one caller fetch one repository while the janitor evicts it and fails once, sessions are killed and the control plane restarts: what the per-clone flock does guarantee, and that a clone past its TTL goes or is fetched again though git may hang with the lock held. |
| `repocache_twoworkers` (`MCRepoCache`, `RepoCache_twoworkers.cfg`) | 2 fetches, the janitor, 1 clone, 3 inodes, size cap on, no failure | until the counterexample | `NeverTwoWorkers`. Refuted: The janitor unlinks a lock file that a session has open: the next two sessions lock different inodes and work in one tree. |
| `async_jobs` (`MCAsyncJobs`, `AsyncJobs_jobs.cfg`) | 2 clients, 1 job, TTL 1, 2 delivery attempts, 1 restart; beside it 2 lines, a channel of 1 frame, 2 progress frames per call | 324226 | `AnswersAreWhole`, `NoneLostUnread`, `ReceiversHearTheSame`, `AnswersInOrder`, `WebhookSettles`, `TakenIsAnswered`, `ServersEnd`, `ImplementsDialogue`. Two clients poll one job with a webhook, with all three tools, while it ends, is delivered and expires and the process restarts: every answer and every delivery is true, no result is lost unread and deliveries settle.  Beside it one connection of either transport, whose peer may leave at any moment: it implements Dialogue, answers come complete and in order, every line taken is answered, and what becomes of Serve once the peer has gone. |
| `webhooks_current` (`Webhooks`, `Webhooks_current.cfg`) | 2 deliveries, 1 commit of others to main | until the counterexample | `CloneIsCurrent`. Refuted: Two webhook jobs on the shared clone, with a commit on main between them: the second job starts from the first one's commit, for nothing pulls. |
| `pack_execution` (`MCPackExecution`, `PackExecution.cfg`) | one call of any pack (66, with all paths); or 3 packs, 2 calls at once of 2 callers, 3 calls and stored facts in a row; 1 session, 2 inputs, symmetry | 1630993 | `RetryIsSafe`, `RefusedIsClean`, `CacheServesOwn`. Every pack this repository ships, along every path of its handler, with every error a step can end in, panics, a session that dies and a context that ends anywhere: but in the packs named, an error a pipeline calls transient comes from no handler that changed the outside world, and a refused input has cost nothing. And three packs, one cached, one that stores artifacts, one whose session is kept, called by two callers with two inputs over one session, while facts are stored under any key of the same memory and entries expire: the cache serves each caller what it wrote, and an answer only to the question it answers. |
| `services` (`MCServices`, `Services.cfg`) | 3 visits, 1 browser; 4 calls, 1 MCP server; 3 operations of 2 callers, 3 memory keys each; 2 errands, 2 versions, 2 files; 1 chat or 2 key requests, 2 providers, 2 keys; 2 vault calls, 2 credentials, 1 crash; 2 artifacts, 1 restart; 2 deliveries, 1 merge | 1999237 | `NoClientIsLost`, `ManifestIsOfConfig`, `PutsStay`, `InstalledIsWhole`, `AsksAreDue`, `SecretsAreDue`, `HandlesStand`, `ToldBranchesStand`. Eight services that share no state, each with overlapping requests: the cache of browser connections loses no client, the manifest cache serves no other configuration's manifest, the memory store keeps what is put, an install leaves a whole pack, the gateway asks the right providers with the right keys, the vault hands out the credential its caller may read, an artifact can be fetched as long as its handle promises, and a branch a webhook job told of is there - with the races the code does not rule out named in each property. |

Why the bounds are enough. Races in `PipelineRuns` are between callers of one fingerprint: two clients and two run ids let a request be
executed, end, and be started again while the first caller is anywhere. Two fingerprints occur in the run where one has bad inputs. Two steps
distinguish first, middle and last step; two crashes a reaper that dies. In `Sessions` every property is about one session and those who touch it: two calls, the watchdog, one cancel, and a second
session to show that nothing spills over. In `RepoCache` one session holds the lock and another waits for it or comes anew, which with the janitor reaches two inodes of one lock (`repocache_twoworkers` does); a third inode is for the name after the next unlinking. In `AsyncJobs` two clients are a reader and
a remover; jobs share nothing but the sweep, which treats each by itself. Two delivery attempts, where the code has three, are a first one and a retry. In `McpTransport` a channel of one frame is full as soon as
one of sixteen is, and two lines are one being answered and one that waits in the pipe. In `PackExecution` two properties are about one call, so one call of each pack shows every path; what calls share (cache, artifacts,
a kept session) is covered by three packs that meet in up to three calls of two callers with two inputs. In the services two or three requests meet, with one more where a third actor comes between two (a Get, a Put and a second Get; a fetch, an Update and a second fetch).
Counters are bounded by `MaxCrashes`, `MaxFailures`, `MaxRestarts` and the like (guards of the failing actions) and ages stop at the
largest limit. Safety is proved for every value of these constants where section 12 says so.

Symmetry is used in safety runs only, on sets whose members are interchangeable. `CHECK_DEADLOCK FALSE` stands where the system may come to rest
(every session used up, every job done); the `PipelineRuns` runs check deadlock.

## 11. Fairness

* `PipelineRuns!FairSpec`: weak fairness of each goroutine's own progress (the Go scheduler) and of the boot sequence; strong fairness of a StartRun call, because
  `startMu` is taken and released by others again and again and a Go mutex in starvation mode hands itself to the oldest waiter. No fairness for calls, wedges, the
  timeout, the sweep or crashes. The watchdog ticks for as long as the process lives; that is no part of `FairSpec` but a hypothesis of `EveryGoroutineEnds`, so that
  `CancelEndsGoroutine` is shown to hold without it.
* `Sessions!FairSpec`: the clock, the watchdog, the boot and every goroutine between its docker requests are weakly fair. A handler may run for ever.
* `RepoCache!FairSpec`: the janitor sweeps every hour and the watchdog ends every session; git may hang, so the script itself has no fairness.
* `AsyncJobs!FairSpec`: the clock, the sweeper, the webhook goroutine (bounded sleeps and a client timeout) and request handlers. A pack may never return.
* `McpTransport!TransportFairness`: Serve and the loop of the stream run on (the Go scheduler), a peer that is there reads, and a pack returns - its session ends by the watchdog at the
  latest (`EverySessionEnds`). Nothing makes a peer send, leave or stay.
* `PackExecution` and the services have no liveness property and no fairness.

## 12. Proofs

TLAPS proves the following for every value of the constants that satisfies the modules' assumptions (named `ASSUME`s: the bounds are natural numbers, at least one step,
limits positive since `withDefaults` replaces zero, `None` is no member of the other sets, `Nowhere` is no commit; a channel has room for a frame, a chain has a candidate, patterns are scored by numbers, the keystore is finite).

| Module | Theorems |
|---|---|
| `PipelineRuns_proofs` | `TypeCorrect`, `OneRowPerRequest` (AtMostOneInFlight), `NoDuplicate`, `IndexIsIdle`, `RowsAccounted`, `CancelIsTruthful` (KilledIsCancelled), `RunnerImplementsSingleFlight` (the refinement), `HistoryIsConsistent`, `SettledIsFinal` (an action property) |
| `Sessions_proofs` | `TypeCorrect`, `ContainersAccounted`, `SessionsAreEphemeral`, `CancelLeavesNothing`, `TableIsTrue`, `ExtensionsOnlyExtend` (an action property) |
| `RepoCache_proofs` | `TypeCorrect`, `LockExcludes`, `HandOversAreSound`, `ResetIsThorough` |
| `AsyncJobs_proofs` | `TypeCorrect`, `AnswersAgree`, `ResultsAreKept`, `DeliveriesAreTrue`; of the connection `AnswersAreInOrder`, `TransportImplementsDialogue` (a refinement) |
| `PackExecution_proofs` | `TypeCorrect`, `RetriesAreSafe`, `RefusalsAreClean`, `CacheIsPrivate` |
| `Services_proofs` | `ClientsAreNotLost`, `ManifestsAreOfConfigs`, `PutsDoStay`, `InstallsAreWhole`, `HandlesDoStand`, `ToldBranchesDoStand`: each the property of its service in section 9, of that service's own specification |
| `Secrets_proofs` | `AsksAreAlwaysDue`, `SecretsAreAlwaysDue` |

Each follows the same line: the invariant of the `Inv` module (`IInv`, or `CdpInv`, `McpInv` and so on where a module has several) holds initially, one lemma per conjunct says that every step preserves it (one step per action), and the
property is a conjunct or a consequence of it. TLC checked each of these invariants, as an `INVARIANT` of a passing run's configuration, before it was proved;
the `MC` modules extend the `Inv` modules, so a reader can do the same. What the invariants add to the properties:

* `PipelineRunsInv`: where a goroutine is determines its Run struct (`LocInv`) and that its row and snapshot are in flight (`ActiveInv`), so that distinct rows in flight
  mean distinct goroutines; a call past its lookup holds `startMu` and has no rival (`CallInv`); a trace of a cancel leads back to its flag (`CancelInv`); a row left behind
  has a dead context or a requested cancel (`StrandedInv`); nothing runs while the process boots (`DownInv`).
  `HistoryInv` stands on these: what a goroutine has recorded of its steps at each place (`StoryInv`), and that a row and a snapshot that both ended agree (`EndInv`).
  For the refinement, `OwnerSound` gives `Owner` its meaning from AtMostOneInFlight, and every step is an Ask, an Answer, an Admit, a Settle (one row leaves flight) or not seen.
* `SessionsInv`: a session under creation has one creator, no entry and no terminator, one being terminated has no entry any more (`PhaseInv`); what a kill has listed covers
  what is left of the run (`KillInv`); while booting, the pruner's list covers all containers (`DownInv`); a container docker has yet to make has a creator that waits, or strayed (`AskedInv`).
* `RepoCacheInv`: who works in a tree holds the lock it opened and the holder is inside (`HolderInv`); as long as the name was not unlinked all descriptors are of one inode
  (`NameInv`) – the two together are the exclusion; only the janitor tears trees and only git cuts them short, which marks them damaged (`TreeInv`); an undamaged tree handed out holds no uncommitted file of sessions that were over at its lock (`EditInv`).
* `AsyncJobsInv`: what a job in each state looks like (`JobInv`), and what a request has seen at each place (`CallInv`).
* `PackExecutionInv`: what is left of a handler's path keeps what the whole path promises (`RestKeeps`), and once an effect has happened what is left spares the errors
  that would contradict it (`RestSpares`); every entry is in its maker's namespace, and an answer under the key of what it answers (`EntriesAreOwn`). Each is a fact about one call, so one lemma (`OneCall`) carries every action.
  The theorems are for any number of calls, callers and sessions and any catalogue that satisfies `WellFormed`, `LateErrorsTyped` and `InputsCheckedFirst`; TLC evaluates the three on the shipped one.
  The model assumes that the text of a panic contains none of the words `Classify` looks for.
* `McpTransportInv`: a line is taken once and the last one taken is the one `Serve` is busy with (`TakenInv`); the channel is empty where it is not used (`QuietInv`); heard and channel
  together are in order, hold one answer per line taken but for the one being worked on, and a frame of a call that is over is followed by its answer (`StreamInv`). AnswersInOrder speaks of the channel
  only while the peer is there and does not say the last part, so it is not inductive: the next line's first frame may follow only an answer. For the refinement, opening and delivering are no
  steps, `Serve` taking a line is a Take, what it writes is a Report or an Answer, and a peer that leaves or is hung up on is a Cut whose remainder is what was in the channel. That a busy `Serve` is the same as
  an answer owed in `Dialogue` is the count in `StreamInv`.
* `ServicesInv`: *CdpClients* – cached clients are open, each cached once, a carried one is cached nowhere and has one carrier (`OnePlaceInv`). *McpServers* – a fetch under way asks with
  the config its row has, unless overtaken (`FetchInv`). *MemoryStore* – what an entry can be if not what was put (`EntryInv`), and that what a Get is about to drop is expired (`GetInv`).
  *Marketplace* – what an errand that met nobody has copied, verified and registered at each place (`AloneInv`), an install has a version once it has its manifest and files once it has cloned (`VersionInv`), and while the
  installation counts as whole nobody has begun to touch it (`IntactInv`). *Artifacts* – an object is there until overdue or asked to go, and only overdue ones are swept (`ObjectInv`).
  *Webhooks* – whose changes are in which clone (`CloneInv`), that a change which is both in a clone and at the origin is there as that clone's branch of the name (`BranchInv`: a later push
  of that name by the same clone brings nothing less), that a private clone holds its own change on its own base (`OwnChange`), and what a job has made and pushed at each place (`Dispatched`).
* `SecretsInv`: *Gateway* – a key request that is alone has listed what is there and registered what it has done (`RequestInv`); what the log of a call says, and what the candidate asked now adds to it
  (`LogInv`, `NowInv`): no more entries of a candidate than tries, and the last one retryable or named by the rule. *Vault* – ids are not reused and names are of one row (`RowInv`); a call that is still trying has everything it could read
  throughout among the rows left, or has chosen one at least as specific (`AskOK`).
* `WellOrder`: sets of naturals have a least element and finite ones a greatest. `Least`, `NewestKey` and `FirstMatch` CHOOSE such an element, and what they return is known only once one exists.

The type invariants are proved and not repeated in the runs. With these, every safety invariant, action property and refinement that a passing run checks is proved for all values of the constants.
Only model-checked: the liveness properties `CancelEndsGoroutine`, `StartReturns`, `EveryGoroutineEnds`, `EverySessionEnds`, `StaleCloneGoes`, `WebhookSettles`, `TakenIsAnswered` and `ServersEnd`, since liveness under
fairness and ENABLED are beyond the installed provers; and that the shipped catalogue satisfies the assumptions of `PackExecution`, which is a fact about 66 constants that TLC evaluates.

## 13. Where code and documentation disagree

Each of these runs checks one statement of a doc or comment, and TLC finds a behaviour of the code that breaks it. Four have a run:

| Run | The statement | What happens |
|---|---|---|
| `pipeline_durable` | "Terminal runs are evicted after runTTL; durable history always lives in pipeline_runs" (`runs.go:69`): `ReportedEndIsDurable` | `finish` saves the end on the run's own context. When that is dead (timeout, or a cancel after the last step), the row keeps `running` while GetRun reports the registry's end; after the sweep GetRun reports `running`, and identical StartRun calls coalesce onto the dead run until a restart. |
| `sessions_abandoned` | "Abandoned sessions are cleaned up by the watchdog after the default 5-minute timeout." (`docs/PACKS.md:110`): `AbandonedIsCleaned` | Terminate deletes the table entry before it asks docker. If docker refuses, or the DELETE request goes away, neither the watchdog nor another Terminate knows the container; it stays until the next boot. |
| `repocache_twoworkers` | "guarded by an flock so two sessions can't corrupt the same tree" (`repo_fetch.go:378`): `NeverTwoWorkers` | The janitor unlinks the lock file while a session waits on its inode; the next session locks a new file, and both run git in one tree. |
| `webhooks_current` | "`git fetch && git checkout <ref> && git pull`" (`docs/adrs/040-persistent-repos-volume.md:61`): `CloneIsCurrent` | A clone on the volume is fetched, and then reset to its own HEAD (`repo_fetch.go:449`); nothing pulls. A later job works on the commit of the first fetch, or on the branch the job before it left. |

More statements are defined in the last section of their module. The project keeps one run per component, for the weightiest; to see
TLC refute one, name it as `INVARIANT` (or `PROPERTY`, for those marked *) in a configuration of the module with the constants of its passing runs.

| Definition | The statement | What happens |
|---|---|---|
| `PipelineRuns!GoroutineWritesTheEnd` | "The run goroutine writes the terminal RunCancelled status (via RunSync's race guard)" (`runs.go:364`) | A cancel after the guard and before `SaveRun(ctx)` makes that save fail; the closure sees `cancelRequested` and writes nothing: the run stays pending. |
| `PipelineRuns!ReapedRunIsTransient` | "Each reaped run is marked failed (with failure_class "transient")" (`runner.go:97`) | SaveRun has no column for the class; GetRun returns a reaped run without it. |
| `Sessions!WatchdogUsesCurrentDeadline` * | "so the watchdog uses the longer deadline" (`docker/runtime.go:369`) | The tick works through copies, one blocking Terminate after the other; an extension that lands in between is answered with success and ignored. |
| `Sessions!CreatesLeaveNothing` | a failed creation is cleaned up after "so we don't leak the container" (`docker/runtime.go:255`) | `ContainerCreate` returns the context's error while the engine still makes the container; `Create` returns at once (`docker/runtime.go:250-253`) and nobody has its id until the next boot prunes it. |
| `RepoCache!HeldIsNotEvicted` | "The repos janitor never evicts a clone a session currently holds." (`docs/reference/packs/repo/fetch.md:176`) | The flock is held by the acquire script, not by the session that works in the clone afterwards. |
| `RepoCache!NoLeftoversEver` | "The reuse path resets to a known-clean ref" (`docs/adrs/040-persistent-repos-volume.md:73`) | A killed git leaves `index.lock`; the next `reset --hard` fails and is ignored. Commits and nested repositories survive even a reset that succeeds. |
| `RepoCache!CutShortIsNotHandedOut` | a clone is handed out only when it is whole (`HandedOutIsComplete` without its exception) | git sets HEAD before it checks the files out: a clone killed in the checkout is fetched, its reset refused and ignored, and `rev-parse` succeeds. |
| `RepoCache!WorkIsSafe` * | "two sessions can't corrupt one tree" (`fetch.md:176`) | A second session of the same caller resets the clone a first one works in. |
| `RepoCache!ReusedIsTruthful` | "`true` when this call hit an existing on-volume clone" (`fetch.md:31`) | The marker is read and removed after the unlock: one fetch takes another's. |
| `RepoCache!PersistentIsTruthful` | "`false` for an ephemeral `/tmp` clone" (`fetch.md:30`) | The flag is computed before the script runs; the fallback to `/tmp` does not change it. |
| `AsyncJobs!SameNamespace` | "derives the same namespace it would for a sync call" (`mcp/jobs.go:196`) | `pack.start` passes no Caller, so the job runs in the namespace of nobody. |
| `AsyncJobs!DeliveredIsProcessed` | "2xx response → success" (`docs/integrations/webhooks.md:165`) | `http.Client` follows a 301, 302 or 303 with a GET without the body; the 2xx of that page ends the delivery. |
| `AsyncJobs!KeptForAnHour` | "The job result is still available via `tasks/get` / `pack.result` for one hour" (`docs/integrations/webhooks.md:170`) | The first `pack.result` of a completed job drops it before the answer is written: another client, or the same one after a broken connection, gets `unknown_job`. |
| `McpTransport!EveryServerEnds` * | "cancel() tears down PackServer when the SSE stream closes" (`mcp_sse.go:56`) | A server that writes into the full channel waits for ever once the loop has ended, and with it a pack and its session's call. |
| `McpTransport!BridgesEnd` * | "the first error wins and the other goroutine unblocks when we close the connection" (`bridge.go:130`) | The other goroutine waits for stdin; the next line is swallowed. |
| `PackExecution!EveryRetryIsSafe` | "isRetryable reports whether a failure class is safe to auto-retry" (`pipelines/classify.go:77`) | `desktop.run_app_and_screenshot` (`desktop_run_app.go:118-120`) and `swe.solve` (`swe_solve.go:396-398`) fail with a timeout or `artifact_failed` after a program ran. |
| `PackExecution!ServedFitsSchema` | a cached answer passed the output schema: otherwise it "would be served as success on the next call, bypassing validation" (`packs.go:792-794`) | So is a fact stored under the key of an answer, by `memory_store` or the REST route. |
| `PackExecution!ArtifactsAreOwn` | "collect artifacts the handler wrote during THIS run" (`packs.go:807`) | The scope is the time alone: two executions of a pack at once report each other's. |
| `PackExecution!EveryCallHasRow` | "Writes one row per Execute call" (`packs.go:571`) | The row is written on the call's context: none for a call whose context has ended. |
| `PackExecution!PinIsUsed` | content.ground rewrites a file of the session the caller names (`docs/reference/packs/content/ground.md:9,32`) | The pack does not declare NeedsSession, so the engine gives its handler no executor; file mode always fails. |
| `CdpClients!EndedBrowsersHaveNone` | an ended session has no cached client (`browser.go:33-42`) | Watchdog and TerminateByRunID do not evict, and a Get may insert behind Evict. |
| `McpServers!ManifestAlwaysOfConfig`, `UpdateKeepsOthers` * | "Updating config invalidates the cached manifest" (`registry.go:167-171`) | A fetch under way stores the old config's manifest after the Update; an Update that names no config writes back the one it read. |
| `MemoryStore!ForgetsWhatIsMeant` * | "Also accept a literal memory key" for "forget this run" (`api/memory.go:328-329`) | The key goes through `DeletePrefix`: every longer key that begins with it is forgotten too, in upper or lower case (`sqlite.go:217-219`). |
| `MemoryStore!PutsAlwaysStay` | Put replaces an entry | A Get that found the old entry expired deletes by key, the new one too (`sqlite.go:132-135`). |
| `Marketplace!RecordedHasFiles` | "The caller holds the install-mutex via the REST path" (`install.go:245-246`) | There is none: two installs, or an install and an uninstall, leave a record without its files. |
| `Marketplace!NewestIsInstalled` * | a call that names no version gets the pack as it was installed last | `Register` puts a lower version beside a higher one (`registry.go:40-57`): after an author has taken a version back, the call gets the higher version's pack with the lower one's files. |
| `Marketplace!CallableHasFiles`, `RunsOneVersion` | a registered pack can be run | Uninstall unregisters the newest version only; a failed upgrade removes the files of the registered one; a call may copy files of two versions. |
| `Gateway!DeletedKeysAreDead`, `RestedKeysAreLive` | "Re-running this function converges the live registry to the keystore state" (`hydrate.go:74-76`) | Providers of deleted keys stay registered; of two overlapping hydrations the older may register last. |
| `Vault!OldestIsFirst` | "Ties are broken by credential creation order (oldest first)" (`vault.go:532-534`) | By name, the order List returns. |
| `Vault!EveryResolveIsLogged` | "every Resolve call writes one row to credential_usage_log" (`vault.go:26`) | Not when a statement fails, and the row itself is best effort. |
| `Vault!RotationsStay` * | "never clobber a user-managed entry" (`hydrate.go:18-20`) | A hydrated credential keeps `source: env` through a rotation, so the next boot reverts it. |
| `Artifacts!ShownIsThere` | what the explorer lists can be fetched | Delete removes the object first; a failure, or a reader, comes before the index. |
| `Webhooks!RerunsDontCollide` | "derived from a short sha so re-runs don't collide" (`swe_solve.go:418-419`) | The sha is of the commit the job started from: a re-run is refused until main moves. |
| `Webhooks!FailedPushedNothing` | "_No changes were pushed._" (`webhook_github.go:343`) | The pull request may fail after the push. |
| `Webhooks!PullsAreOwn` | a pull request has its job's change | On the volume a second job starts from the first one's commit. |

Met while translating, without a definition of their own:

* packs: swe.solve looks for the notes of earlier jobs in a namespace that has the new session's id in it, so it never finds one (`packs.go:720`, `swe_solve.go:680-709`); the text of a panic
  *is* formatted into the error (`packs.go:763-766`, `850-857`); fs.patch reads and writes in two commands; `artifact_failed`, which pipelines call transient, is also the verdict of the strict lints;
  podcast.generate may run out of resources, retryable, after the speech is paid for; blog.publish swallows some failures of Ghost; a failed call of a pack that preserves its session leaves one nobody can name.
* webhook: a redelivery, and a comment of helmdeck's own, dispatch again; the bounded queue, the 503 and the audit entry of ADR 033 do not exist; the comment shares the job's 30 minutes.
* transport: the context of a hijacked request does not end with its connection, so a pack runs on ("tears down on first error", `mcp_server.go:73`); the end of stdin closes the bridge's connection with answers outstanding.
* gateway: a deadline of the caller's own never falls back although `fallback.go:23` names it; `fallback_used` is never set (`recorder.go:34`); metrics have a row per Dispatch, not per attempt (`docs/howto/inspect-audit-logs.md:14`),
  and none on a dead context; the chain is wired nowhere.
* vault, keystore, registry: a grant at hydration is lost by a crash in between; Rotate and Update do not look at RowsAffected; `hostScore` counts dots although its comment speaks of wildcards only.
* memory: DeleteExpired, "the bulk sweep the janitor calls" (`sqlite.go:25-26`), is called by nobody. Artifacts: a Put whose URL cannot be signed leaves an object nobody knows until its TTL;
  after a restart the explorer is empty; the store does expose ListAll, though `api/artifacts.go` says not. CDP: AutofillForm's deadline per field is not used (`cdp.go:301-312`).

## 14. What is not modelled

`PROJECT.json` lists every component with its status; section 2 has what is left of the plan. Left out for good: encryption, JSON and provider formats, command lines of ffmpeg and git beyond what they change,
prompts and their budgets, routing, authentication and egress rules, the web interface and the command line, which compute or forward and keep no state that two actors share. Pipeline templates and seeds are pure text
substitution and single statements. Within the modelled components: contents of inputs, outputs and messages; image pulls and resource limits; negative timeouts (see the hazards); SQLite failures where no
property depends on them; the data race on `Spec.Timeout` in `Runtime.Get`. The services are checked apart: that a pack's credential, model call, artifact or memory entry fails is an outcome of a step in the pack
modules, not a step of the service's own module.
