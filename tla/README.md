# TLA+ models of fast_go

fast_go is a Go workspace for web applications: `fast_base` (configuration, logging, a task pool), `fast_db`
(gorm set-up, snowflake IDs, paging), `fast_utils`, `fast_web` (gin server, filters, sessions, static files, a
forward proxy) and `fast_wgen` (a route generator). This directory models its stateful parts in TLA+, checks them
with TLC on small instances, and proves the most important results with TLAPS for every value of the constants.

    tlc -workers 2 -config MCSnowWorker.cfg MCSnowWorker      # one run; all of them are in PROJECT.json
    tlapm SnowProofs.tla                                      # one proof module

## 1. Inventory

| Component (source) | State | Operations | What is hard | What makes it correct |
|---|---|---|---|---|
| Snowflake ID worker (`fast_db/InitDBSnowFlake.go` 12-87) | `mu`, `timestamp`, `number` of each worker | `NewSnowWorker`, `GetId`, `GetIdStr` | concurrent callers; sequence overflow within a millisecond; a wall clock that may go back; bit fields that are OR-ed without a mask | no ID twice; IDs of a worker sorted by time |
| Worker registry (same file, 17-59, 89-110) | map from table to worker, a mutex | `GetIdForTable`, `GetIdForStruct` | map reads outside the lock, double-checked creation | one worker per table; every call ends with an ID |
| Session tokens (`fast_web/SecTokenManager.go` 99-265, filter in `SecFilter.go` 40-81) | in-memory cache of tokens, and of the current token of each user | `CreateNewToken`, `RefreshNewToken`, `GetAccessToken`, `GetRefreshToken` | each is several cache operations, and requests interleave; expiry; eviction; a header string that becomes part of a key | the recorded session is alive; an old session is revoked |
| Session persistence (same file, 24-97) | the file, the saver goroutine's copy | `Init`, `saveCacheToFile`, `loadFromFile` | iteration over a changing cache; a crash or an error while the file is rewritten | what is saved was once in the cache; it is eventually saved; a restart restores it |
| Task pool (`fast_base/TaskPool.go`) | bounded channel, two WaitGroups | `Build`, `Add`, `Wait` | full channel, close racing with sends, draining | every accepted task executed once; `Wait` returns after all of them |
| Token bucket (`fast_web/web/RateLimit.go`) | `availableTokens`, `latestTick` | `Take`, `TakeMaxDuration`, `Wait`, `TakeAvailable`, `Available` | lazy filling, waiting callers that overdraw the bucket, a clock read before the lock, rounding | the rate limit; order of service; same as a bucket filled at each tick |
| Filters (`fast_web/SecFilter.go`) | one shared limiter (golang.org/x/time/rate) | `LoadLimit`, `LoadLimitByPassword`, `LoadLimitByToken`, `RateLimitMiddleware`, `CORSMiddleware` | apply only to routes registered later; decided per request from path prefixes | a function is reached only through every filter before it |
| Server life cycle, proxy (`fast_web/InitWeb.go`, `fast_web/web/proxy/Server.go`) | the global servers, the service thread | `Run`, `RunAsService`, `Shutdown`, the shutdown route, `StartProxy`, `StopProxy` | goroutines reading a global after it was replaced; a stop racing with a start | at most one proxy serves; what was stopped stays stopped |
| Request pipeline (`fast_web/InitWeb.go` 49-352, `Handler.go`, `InitWebEx.go`) | the engine's middleware and routes; the context of a request: position, keys, status, body | `LoadWeb`, `LoadRouter`, `HandlerFuncWrapper`, `JSONHandler`, `JSONHandlerWithToken`, `customRecover` | order of set-up; refusals and panics at every handler; results that cannot be encoded; a recovery that does not abort; pooled contexts | one answer; a function gets its session's token; panics stay inside the request |
| Static files (`fast_web/web/HttpFs.go`, `InitWebStatic.go`) | none between requests; an open file, its old `Stat` and a pipe during one | `serveFile`, `checkPreconditions`, `serveContent`, `parseRange` | files replaced meanwhile; precedence of conditional headers; byte arithmetic of ranges; the multipart goroutine; the compressed twin; redirects; files that do not open | the declared ranges are what is sent; a 304 is true; a copy put together from ranges is of one version; every request ends |
| Route generator (`fast_wgen/gr.go`) | the router file, a temporary file | `MakeRouter`, `ParseAPIMultiSearchDir`, `ParseRouterAPIInfo`, `findLimit`, `writeGeneratedFile` | sources edited, runs killed or next to each other; two dropped errors (the scan's, the walk's); a temporary file that is itself a source | the router file is replaced as a whole, by one with every annotated function of what it could read |
| Paging (`fast_db/InitDBUtils.go`, `fast_base/Model.go`) | none | `QueryPageListByDB`, `QueryPageListBySql` | the count and the list are two queries | page and total agree when nothing changes between them |
| Database set-up, configuration, logging, dictionary, validation, JSON extension, utilities | set once at start, or none | start-up calls, pure conversions | little beyond external libraries | - |

How they interact: a request passes the pipeline (logger, recovery, CORS), then the filters. `LoadLimitByToken` looks
its token up in the session cache on every request while logins and refreshes rewrite it and the saver walks it.
Handlers create records whose IDs come from the worker registry, and so from a worker object. The token bucket, the
task pool and the proxy are used by the application, independently of each other.

`PROJECT.json` lists the hazards, each with its line and the properties that cover it, or why none does yet.

## 2. Modules

| Module | Models | Checked with | Proved in |
|---|---|---|---|
| `SnowWorker` | `GetId` of several worker objects with several callers | `MCSnowWorker`, `MCSnowOverflow.cfg` | `SnowProofs` |
| `SnowTables` | `GetIdForTable` and the registry | `MCSnowTables.cfg`, `MCSnowTablesNil.cfg` | `SnowProofs` |
| `TokenManager` | login, refresh, look-up, expiry, eviction | `MCTokenManager` | `TokenProofs` |
| `TokenStore` | extends `TokenManager` with the saver, the file, crash and restart | `MCTokenStore.cfg` | `TokenProofs` |
| `TaskSet` | abstract: what a user of the pool relies on | as property `KeepsPromise` of `TaskPool` | `TaskPoolProofs` |
| `TaskPool` | `Build`, worker loop, `Add`, `Wait` | `MCTaskPool.cfg` | `TaskPoolProofs` |
| `EagerBucket` | abstract: the bucket the comments describe | as property `FillsEagerly` of `TokenBucket` | `TokenBucketProofs` |
| `TokenBucket` | the lazily filled bucket | `MCTokenBucket` | `TokenBucketProofs` |
| `ServerLife` | `RunAsService`, `Shutdown`, the shutdown route, `StartProxy`, `StopProxy` and their goroutines | `MCServerLife.cfg` | `ServerLifeProofs` |
| `Pipeline` | set-up of middleware and routes, and a request through them | `MCPipeline` | `PipelineProofs` |
| `StaticFile` | the static file handler, a client, and a disk that changes | `MCStaticFile` | `StaticFileProofs` |
| `RouterGen` | runs of the route generator, a developer who edits, kills | `MCRouterGen` | `RouterGenProofs` |

Operators commented "Mutant of ..." are wrong versions of a definition: no specification uses them. They say which
plausible bug each property would catch (`mutants` in `PROJECT.json`).

### SnowWorker
A step is what happens between two reads of shared state: `Lock`, then the clock reading together with the branch it
decides (`SameMillisecond`, `OtherMillisecond`; `mu` is held, so nobody can come between), each turn of the waiting
loop (`Spin`), and `Emit`. The clock is a variable of its own that advances (`Tick`) or is stepped back (`StepBack`:
`time.Now().UnixNano()` is the wall clock). An ID is kept as its three bit fields; `ID` computes them from the
unmasked OR of the code, where a number past 4095 sets bit 0 of the worker field. `numberMax` is a constant, so that
overflow happens with small numbers. Worker ids come from configuration; those TLC uses are {2, 4} and {3}.
The code guards `GetId` against nothing when the overflow ends: `number` and `timestamp` are not reset, so the next call
in the new millisecond starts again at 0, and a clock stepped back afterwards may let `number` grow further. `TypeOK`
bounds how far.

### SnowTables
`Read` and `Check` are the two unlocked map reads (45, 46), `LockTables` to `Unlock` the critical section (47-55), where the
map assignment has a beginning (`Create`) and an end (`Assign`). During it an unlocked read is a data race: it returns
either value, or the runtime kills the process (`Throw`). `Check` and `Lost` decide by a
second look at the map and keep the value of the first, as the code does, and `UseNil` is the call on it. The `used` ghost relates tables and workers.

### TokenManager and TokenStore
One action per cache operation: bigcache locks a shard for each operation and nothing longer. Keys are the four
prefixes of the code; UUIDs are numbers in order of creation. A look-up takes its key from a header: the prefix and any string,
and with the string `user_<id>` that is the key of a user's own entry (`UserKeys`), whose value counts as an expired token (`Stale`) and is deleted. `call[p]` holds what a request has read and is to use
later, such as the copy of an old token that `SetGrace` writes back. `Evict` may drop an entry once it is older
than its life window. In `TokenStore` the saver visits the keys in any order, between any two steps of the requests; its
`Value` may fail on an evicted entry; the write is a truncation and then the contents, and `os.WriteFile` may fail
before the first (`SaveOpenFails`) or after it (`SaveWriteFails`); its error is dropped, and the saver goes on. The ghost `saved` is what the last completed save wrote, as long as no write was cut short since. `Crash` loses all memory and runs
`Init` again. Sleeping 10 s is not timed: the saver may wake at any moment.

### TaskPool
The channel is a sequence of at most `Capacity` tasks, a blocked `Add` is a producer "sending". A WaitGroup is the set of
workers it still counts. `Close` makes blocked and later sends panic, which ends that producer.

### TokenBucket
The operations that read the clock under `tb.mu` are one step each; `Available` reads it before the lock and is two. Time
is `tick * FillInterval + part`, so that waits that end inside a tick and waits compared with `maxWait` are exact.
`grants` records every successful take with the tick it was promised for.

### ServerLife
The k-th start makes web server k, its goroutine (`starter`), and, if a proxy port is configured, proxy k with its goroutine
(`runner`). Each read of `c.HttpServer` and `httpProxyServer` is a step of its own, in the order of the code: the test, the
call and the assignment of `StopProxy` are three. Of `net/http` only the shutdown mark and the listener are kept: `Shutdown` marks
for good and closes the listener, `ListenAndServe` looks at the mark before it takes the port (`Listen`, `ListenClosed`) and
after it (`Serve`). A port has one holder; a second listener makes the web server call `log.Fatalf` (`ListenFatal`)
and the proxy log an error (`ListenFails`). A method call on the nil variable ends the process (`StopNil`, `ListenNil`).
The shutdown route only sets the exit off (`ShutdownRoute`);
`Exit` comes two seconds later, whatever was shut down or started since. Starts and shutdowns alternate, as a service manager makes them.

### Pipeline
`Init` is `LoadWeb`; `Load` is a loader of `SecFilter.go` or the application's own `Use`, `LoadRouter` the registration of all
its routes: each route keeps the chain there is then (`chains`), a request without a route runs `used`. gin's loop is
`NextHandler`: `index` is `Context.index`, and since a handler that calls `Next` and one that returns without it both let the
loop go on, a step `Pass` stands for both; `Abort` sets the index past every chain. A panic (`pc = "panic"`) unwinds to the
recovery if that is among the handlers inside `Next` (`protected`), which answers and returns to the loop that called it
(`customRecover`). `JSONHandler` is one step up to the call, `Bind` and the token included; `HandlerFuncWrapper` fills its
parameters one by one (`WrapperArg`), where a JSON body can be read only once. What was bound is not kept, only whether it was
accepted; every answer is a status and a count of bodies. A result that the encoder
refuses, or that cannot be written, leaves the status without a body and makes gin's `Render` abort (`JSONIter`, `Answer`). `Session` is what logins and expiry (see `TokenManager`) do to
the client's session, between any two steps. The ghosts `passed`, `valid` and `mishaps` say what happened earlier in the request.

### StaticFile
A file system of three nodes: the name `x`, its twin `x.gz` and the page `x/index.html`, each an inode or nothing. `Place` renames a new
file over a node (an open inode stays what it was), `Overwrite` writes into an inode that may be open. Content is a version number per byte,
so a mixture shows. The handler's steps are its file-system calls (`Open`, `TwinFails`, `OpenPlain`, `OpenIndex`, `List`), each of which may fail, with the branch it
decides, the header (`ServeContent`), then one byte at a time (`Send`), or, for several ranges, `Transfer` through the pipe
from the goroutine (`WriterRead`, `WriterFails`). `Return` is the deferred closes. Headers are what the code tells apart: dates, a
tag that matches nothing (no handler sets an `Etag`), a star. The client keeps a copy, asks whether it is still good (`Revalidate`),
and resumes one that was cut short (`Resume`) on one of four conditions; what it does with answers is `Kept`.
Only GET is modelled, since `LoadStaticFs` registers nothing else; so the branches for HEAD and other methods cannot be taken. Times are whole seconds.

### RouterGen
Each run is a process: `MakeRouter` (the directories exist), `WalkDir` and `ParseFile` alternate over the listing of each search directory. A directory
that cannot be read, the search directory included, is missing from the listing with all below it (`below`; the ghost `readable` keeps what was not), and where `go list` fails, which is only a
warning, the files of a search directory have another package path (`relative`). Files are the paths they are found under: one that is reached by an absolute and by a relative search path is two files.
`ParseRouters` is the second phase, `Render` the text, and `CreateTemp`, `Write`, `Rename`, `RemoveTemp` are `writeGeneratedFile`, each of
which may fail. A source file is the list of its annotated functions, or does not parse. The temporary file of any run is in the listing of a directory that
holds the output, as in the code, whose walk skips hidden directories but not hidden files. `Edit` changes a source at any time,
`Kill` ends a run at any step. A file that is removed during a walk can only end the run (`Vanished`). The deferred `os.Remove` is taken to succeed (its error is dropped). `InOrder` is `sort.Slice`; `Limits`, `FindLimit`, `RangeFiles` are the pure parts; `Complete` is the reference they are checked against.

## 3. Runs

| Run | Bounds | Distinct states, shows |
|---|---|---|
| `snow_worker` | 2 callers, workers {2, 4}, 2 numbers a millisecond, 2 ms, 1 step back | `UniqueInEpoch`, `TimeOrdered`: overflow, the spin across it, and a step back all occur |
| `snow_overflow` (violation) | 2 callers, worker {3} | finding 1 |
| `snow_tables` | 3 callers, 2 tables | 80 616 states: `OneWorkerPerTable`, and `CallsEnd`: nobody waits for ever for the lock |
| `snow_tables_nil` (violation) | 2 callers, 1 table | finding 2 |
| `token_manager` | 2 requests of one user, 3 tokens, lifetime 2, grace 1, 2 s | 3 314 300 states: `CurrentSessionAlive` under every interleaving; `OneSessionUnlessDisturbed` |
| `token_store` | 1 request, 1 user, 1 token, 2 crashes | 1 089 810 states: `SnapshotOfThisSave`, `EventuallySaved`; `RestartRestoresUnlessTorn`: a crash costs nothing that was saved unless a write was cut short |
| `task_pool` | 2 workers, 2 producers, 5 tasks, capacity 2 | `WaitedForAll`, `KeepsPromise` with its liveness |
| `server_life` | 2 starts, with or without a proxy | 102 206 states: `StoppedStopsServing`, `StoppedStopsProxy`, `CleanWhenSettled`, `StartServes`, `NothingLeft` |
| `token_bucket` | 2 callers, capacity 3, quantum 2, takes of 1, 2, 4, 4 grants, 3 ticks of 2 | `RateBound`, `ServedInOrder`, `FillsEagerly` |
| `pipeline` | 6 routes (a raw function, three reflective ones, two generic ones), 4 loaders in every order, with or without CORS | 569 986 states: `FiltersPassed`, `TokenFresh`, `AnsweredOnce`, `PanicContained` |
| `static_file` | files of 0 and 2 bytes, 2 versions, dates 0 to 2, 5 Range headers | 681 795 states: `CopyPure`, `NotModifiedCurrent`, `AnswerAsDeclared`, `RequestEnds` |
| `router_gen` | 2 runs, 2 files with 2 and 3 texts, 2 directories, one below the other | 1 901 836 states: `OutputWhole`, `TempsRemoved`, `AllOrNothing`, `AloneIsComplete` |

Why the bounds are enough. Two callers are all a mutex, a spin or a lost update can tell apart; a third is used where
one caller's creation may be watched by two others (`SnowTables`). Three tokens are an old session and two new ones
racing to replace it; a second user shares no key with the first. The overflow needs one more ID than a millisecond
has numbers, a full channel one more task than its capacity plus the workers' hands. A request of 4 tokens exceeds
the bucket's capacity of 3, so that a waiting caller overdraws it by more than it can hold, and the quantum does not divide the
capacity. Two starts are enough for goroutines of two starts, and the manager, to meet in `StopProxy` and at
a port. A request of the pipeline is answered before the next begins, for requests share nothing but the pooled context; the routes
have each kind of parameter, two that read the body, a token with and without a filter before it, and no result, one and two. Two versions of a file are all a replaced
file, or a twin next to its original, needs; two bytes give a range that is a part and one that is past the end; the
headers ask for one range, for three of which one is past the end, for none that is inside, for more than the whole, and for no range at all.
Two runs of the generator are one and its neighbour; two functions of different files name one limit, and a file is found twice, under two
package paths where `go list` has failed. Symmetry is used for callers, requests and runs of the generator only, and only in runs without liveness.
Every bound on a counter (`MaxClock`, `MaxEpoch`, `MaxTokens`, `MaxTime`, `MaxCrashes`, `MaxTasks`, `MaxGrants`,
`MaxTick`, `MaxStarts`) is a constant marked "bound" and stands in the guard of the action that counts.

Deadlock is checked except in `SnowTables`, `TaskPool`, `ServerLife` and `RouterGen`, where the process may end, the pool be done with, or every run be over.

## 4. Fairness

Assumed only where a liveness property needs it.
- `SnowTables`: weak fairness of each caller's own steps while the process lives. A goroutine that can run does run. That
  weak fairness is enough for the lock holds because the tables are few: each is created once, so the lock is contended finitely often.
- `TokenStore`: weak fairness of the saver alone; requests, time and crashes need not happen. `EventuallySaved` speaks of
  a cache that has stopped changing and of a disk that takes what is written: an eviction during each save, or a failing write, could make every save fail.
  That writes stop failing some day is an assumption about the disk, not one the code enforces. The last
  state may be one where the saver is between truncation and contents, for it saves again and again.
- `TaskPool`: weak fairness of each worker (its `fc` returns) and of `Wait`'s return. Nobody has to add a task or to call `Wait`.
- `ServerLife`: weak fairness of every starter and runner, and of a `Shutdown` that has begun; it includes that open
  connections end, for which `Shutdown` waits without a limit. The manager need not start or stop anything.
- `StaticFile`: weak fairness of the handler, of the goroutine of a multipart body and of the client's receipt. Go schedules both goroutines, and a
  handler that was called runs to its end; nobody has to ask, to hang up or to deploy. A redirect is followed at once. `RequestEnds` assumes that the twin does not go on failing to open (`TwinFails`) for ever:
  next to a directory, a twin that opens for the one form of the URL and fails for the other sends the client in a circle. Deployments
  are finitely many (`MaxVersions`), so that they cannot keep a redirect going for ever.
- `SnowWorker`, `TokenManager`, `TokenBucket`, `Pipeline`, `RouterGen`: none; all properties there are safety properties.

## 5. Proofs

Liveness, and everything that rests on ENABLED, is only model-checked: `CallsEnd`, `EventuallySaved`, the liveness half of
`KeepsPromise`, `StartServes` and `NothingLeft`, `RequestEnds`. Every other invariant and action
property of a passing run is also a theorem.

**SnowProofs** (any callers, workers, clock and number of steps back; from `ConstantsAssumption`).
`TypeCorrect`: the mutex gives at most one caller per worker inside the call, and `number` exceeds `NumberMax` by at most
one plus the steps back so far: the invariant that makes the OR stay within bit 0 of the worker field. `TimeSorted`:
the last ID issued by a worker in this epoch is not later than `timestamp` or than the reading of a spinning
caller. `Unique`, under the further assumption `EvenWorkers` (all worker ids even), shows that two IDs of one epoch differ;
the invariant relates `timestamp` and `number` to the largest numbers used in each millisecond. Without the
assumption it is false: finding 1, and workers 2 and 3 also collide with each other after an overflow.

The second part of the module is about `SnowTables` (any goroutines and tables; from `TablesAssumption`).
`TablesTypeCorrect` and `WorkerIsUnique`, by an invariant that says who holds the lock in which
part of the critical section, that a map entry never changes again once it is set, that a local `worker` that is not nil is the entry of its table,
and that two entries differ.

**TokenProofs** (any requests, users, tokens, lifetime and grace time). `TypeCorrect`, `SessionStaysAlive` and `OneSession` follow from one
inductive invariant of `TokenManager`. Its parts: `CacheInv`, what each kind of entry may hold; `CallInv`, which locals of a
request are set at each step, and that they name tokens of its user; `PendingInv`, that a token is known to nobody but the request that creates it until
`SetAccessUser` records it; `RetiredInv`, that an access token is shortened or deleted only if its lifetime is over, or a request that
read it as the current one is still under way, or it is not recorded and never will be; `SessionInv`, how far the one request of a user has come in
replacing the old session. `RetiredInv` carries `CurrentSessionAlive`: the last write of a request ends its claim on the old
token, and by then another token, or none, is recorded. `SessionInv` carries `OneSessionUnlessDisturbed`; it needs that the requests of other users,
look-ups of tokens, evictions and time only ever shrink what counts (`Shrinks`, `KeepsUser`). TLC checked these invariants on the instance of `token_manager` first.
`SavesASnapshot` and `RestartRestores` are action properties of `TokenStore`: while the saver iterates, `seen` has the whole present cache and every entry copied so far
(`SnapshotInv`); and outside the write the file is the last completed save, unless one was cut short since (`FileInv`), which is where `StoreAssumption` is used:
`Unreadable` is not a map of the keys. Neither needs anything about what requests do but that each of their steps sets one entry at most (`NextMap`).

**TaskPoolProofs** (any workers, producers, capacity, number of tasks). `TypeCorrect`, `WaitIsComplete`, and
`PoolImplementsPromise`: each step of the pool is a step or a stutter of `TaskSet`. The invariant says in which one
place each task is (being sent, buffered, with one worker, executed), and which workers each WaitGroup counts in each
stage of the main goroutine.

**TokenBucketProofs** (any callers, capacity, quantum, interval, counts). `TypeCorrect`, `RateLimited`, `InOrder`, `Implements`. The invariant
relates the ghost ledger to the bucket: for each grant, what was taken since it, plus what is left now, is at most a full
bucket and the ticks since; and what is owed by an overdrawn bucket equals what was promised for later ticks. The key
lemma is that bringing the bucket to an earlier tick and then to the current one is the same as bringing it there at once.

**ServerLifeProofs** (any number of starts). `TypeCorrect`, `ServiceStops`, `ProxyStops`, `SettledIsClean`. The invariant: the only web server that is not marked
is the current one, and only while the service is up; whoever accepts connections does so for a server that is not
marked; and a start not yet made has left no trace (`FreshInv`), which `RunAsService` needs. For the proxy, `OrderlyInv` says what
holds as long as no Shutdown has overtaken a StartProxy: one goroutine at most is between the test of StopProxy and the new proxy,
and a proxy that is not marked is the one in the global. `SettledInv` says that, if every Shutdown came to servers that were up, a goroutine on
its way there belongs to the current start and finds its own server; so the port it takes is free.

**PipelineProofs** (any routes, any order of set-up). `TypeCorrect`, `NothingSlipsPast`, `TokensAreFresh`, `OneAnswer`, `PanicsAreContained`. The
invariant has a part for the set-up (every chain starts with the logger and the recovery, ends in the handler of
its route, and has no such handler before its end) and one for the request: which handler the index may be at in each state, that
every filter before it was passed or the request aborted, that the answer is unsent while no mishap happened and the chain
goes on, and that the recovery is gone only after a middleware panicked. The token of a wrapper needs more: each
parameter filled so far that is a token was set, or `unset` is true.

**StaticFileProofs** (any files, sizes, headers, dates). `TypeCorrect`; `RangeInside`, the arithmetic of ranges; `NotModifiedIsCurrent`, by the
invariant `Dated`: whatever carries a version (an inode, the stat of the open file, the copy) carries the date that version was deployed with. So, as
long as dates rise strictly, a version whose date is not later than the copy's is no newer than the copy.
`AnswersAreWhole` and `CopiesArePure` share the invariant `BodyAndCopy`. `BodyInv` follows the body: each part received so far is a beginning of the
range that was declared, of the version in the header unless the open file was written to (`PartsInv`, `SourceInv`); a body straight from the file lacks
what `left` counts (`SingleInv`), and in a multipart body `left` is the sum of what the pipe has still to pass (`PipeInv`, `Owed`), so that `left = 0`
means that every part is whole. `CopyInv` follows the versions: carriers of the same version agree on its size (`SizeInv`); without compression,
what a URL names never becomes older than what the handler opened or the client has a part of (`OrderInv`, with `FormInv`, the steps each form of the URL leads to);
and a 200 sends the whole file, a resumed 206 the rest of it, of the copy's version unless a case that `CopyPure` excludes occurred (`ServedInv`).
What decides is that, as long as dates rise and no two versions share one, equal dates mean equal versions, and that an If-Range that fails sends the whole file.

**RouterGenProofs** (any runs, sources, directories). `TypeCorrect`, `ReplacedAtomically`, `NoLitter`: a temporary file is full when its run gets to the rename, and is
there only between its creation and its removal, or after a kill. `RendersAllOrNothing`, `AloneWritesAll` speak of the files a run could read, and have two halves. One is about the runs (`RoutesInv`): as long as nobody edits,
each file it could read is found, or still on the list of the directory it is in (`WalkInv`), so that the second phase starts from all of them (`FoundInv`, `Collected`);
the routes are lost only on the way over a parse error, which a run on its own meets in a source alone (`AloneInv`). The other half is about data (`AllComplete`): if each has one package path, `RangeFiles` lists every
source once in path order (`FoundListed`, `Lists`; `InOrderLists` says it of a directory, from the ranks of a finite order), the first n of them flatten to the routes of their functions, each at its place (`FlattenPrefix`), and the first
route with the name of a limit is that of the first function with it (`FirstNamed`). The induction over n goes by a least counterexample (`SetInduction`, from the well-foundedness of `<`
on the numbers), since the library's induction theorem cannot be instantiated.

Assumptions are the named ASSUMEs on constants, which TLC evaluates in the runs, and `EvenWorkers` in `Unique`. Those
that a proof asked for say what the code's values are anyway: no user is called like the absent value (`TokenAssumption`), a Range header is a sequence of
range specs (`StaticAssumption`), a file that cannot be read is not a map (`StoreAssumption`), runs and the files of a directory are finitely many and
the functions of a file a sequence (`FilesAssumption`).

## 6. Findings

1. `snow_overflow`: after 4096 IDs in a millisecond the worker counts on past the 12 bits of the number. With an odd
   worker id the extra bit is lost in the OR and later IDs repeat. With even ids it makes the ID of the next worker.
2. `snow_tables_nil`: a caller reads nil from the map (45), and by its second, equally unlocked read (46) another caller has put a worker there. So it skips
   the lock and calls `GetId` on the nil it has (58). A caller that gets to the lock and finds the worker there (48) ends the same way.

More observations. A `Shutdown` that overtakes `StartProxy` leaves the proxy running, and one that overtakes the proxy's
listening can make the runner call a method on nil: `StoppedStopsProxy` and `CleanWhenSettled` say when this cannot happen. A clock stepped back may repeat IDs, and the properties of `SnowWorker` are stated for the readings of one epoch of the clock;
and the comment at `RateLimit.go` 309-311 asks for a tick after `latestTick`, which `Available` does not guarantee: `FillsEagerly` shows that it does no harm.

Sessions. Two overlapping logins of one user both stay logged in, though the comment at `SecTokenManager.go` 115 has a login kick out the earlier one;
and a look-up with the header `user_<id>` finds that user's own entry, takes it for an expired token and deletes it (208), so that the next login has nothing to kick out.
`OneSessionUnlessDisturbed` says that a second session takes one of the two. A process that dies inside `os.WriteFile`, or after one that failed half-way
(its error is dropped, 108), restarts with no session; `RestartRestoresUnlessTorn` says that nothing else loses what was saved.

Task pool. An `Add` that is blocked when `Wait` closes the channel panics; unless the application recovers it, that ends the process and not only the producer.

Pipeline. `customRecover` answers but does not abort, so that after a panic of a middleware the handlers behind it run all the same,
without the recovery, which that panic has unwound: the answer of the handler follows that of the recovery, and a second panic cuts the
connection. The properties name this case (`"skip" \in mishaps`). A result that cannot be encoded is answered by a 200 without
a body (`"unsent"`). Filters have no effect on the routes of `LoadWeb` itself,
which are registered first. A reflective route with a token parameter and no token filter always panics into a 400; one with two parameters from a JSON body always refuses.

Static files. A suffix of no bytes (`bytes=-0`) gives a 206 with an empty part. The twin is preferred even if it is older than the file. A twin `x.gz`
next to a directory `x` hides it, and leads in a circle of redirects while it opens for `x/` and not for `x`. Dates in
whole seconds cannot tell two versions of one second apart, and If-Unmodified-Since lets a copy be mixed when dates go back or a
twin appears; `CopyPure` and `NotModifiedCurrent` name these cases (`Twins`, `Backward`), the second by demanding dates that rise.

Route generator. `MakeRouter` drops the error of the scan: behind one file that does not parse, a good router file is replaced by an empty one. The temporary file of a
killed run is such a file when it is torn, until somebody removes it. An empty comment line before `@limit` makes `findLimit`
panic. Line 274 ignores the error of the walk: a directory that cannot be
read is skipped, and the router file replaced by one without its routes, where the wiki (page on the code generator, 277-279) has an inaccessible directory end the run; `readable` in `AllOrNothing`
and `AloneIsComplete` names this case. Where `go list` fails for one of two search directories that overlap, a file below both is collected under two package paths and each of its functions is
routed twice (`OnePackageEach` names this case). The wiki page's line 287, by which the old file is deleted first, is out of date: ARCHITECTURE.md:31 and CHANGELOG.md:27 promise the atomic
replacement that `OutputWhole` shows. The first route that names a limit decides its numbers; the assignments meant to fill in missing ones change a copy.

## 7. What is not modelled, and the plan

1. Proofs: the safety half of further refinements.
2. Paging (`InitDBUtils.go`): the count and the list are two queries without a transaction; almost all of it is gorm.
3. Of `RouterGen`: the choice of parameters in `main`, the wrapper flag, receivers, a deferred `os.Remove` that fails. Of `StaticFile`: HEAD, and the other file systems of the library copy
   (`FS`, `ioFS`, `Dir`), which nothing uses.

Left out for good: database set-up and migration, configuration, logging, validation, JSON conversion (start-up or pure
calls of external libraries), `NewBucketWithRateAndClock` (floating point), a pool that is built or waited for twice, a second `Init` of the token manager, the blocking `Run`,
what the proxy does with a request, and 64-bit overflow of the token bucket's products.
