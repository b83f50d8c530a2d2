# AskSQL: a TLA+ verification project

AskSQL turns a question in natural language into a read-only query, has a guard
judge it, shows it, and runs it on the user's database. This directory holds
TLA+ modules translated from the source, TLC runs of them on small instances,
and TLAPS proofs of the properties that matter most for every instance. Paths
below are relative to the repository's `packages/`.

Contents: [inventory](#inventory) · [modules](#modules) · [runs](#runs) ·
[findings](#findings) · [fairness](#fairness) · [proofs](#proofs) ·
[not modelled](#what-is-not-modelled-and-why) · [plan](#plan)

To repeat a check: `tlc -config X.cfg M` for a run (the table under *Runs* pairs
them), `tlapm M.tla` for the eight `*Proofs` modules.

## Inventory

### Components, their state and operations

| component | state it keeps | operations that change it |
|---|---|---|
| `core` engine, connections and catalog (`engine.ts`) | per connection id: `connected`, `connecting`, `catalogCache`, `inflight`, `catalogGeneration`, `staleRefreshAt` | `ensureConnected`, `getCatalog`, `mayRefreshForStaleness`, `close` |
| `core` engine, questions (`engine.ts`) | locals of one `ask`: attempt, one-shot retries, prompt, notes, verdict; the history and few-shot stores | `ask` and the `run` it returns, `execute`, `explain`, `explainSchema`, `suggestFix`, `recordFeedback` |
| `core` model call (`llm.ts`) | locals of one `callModel`: attempt, timers, `omitTemperature` | send, time out, re-send, back off, classify |
| `core` guards (`guard.ts`, `strip.ts`, `row-cap.ts`, `scope.ts`, `mongo/guard.ts`) | none (pure) | a verdict on a statement or a pipeline; the row cap edited into it |
| `core` catalog pruning and semantics (`catalog.ts`, `semantics.ts`, `grounding.ts`, `identifier-case.ts`) | none (pure) | which tables and columns a prompt shows; which flaws a statement has |
| `core` stores (`history.ts`) | `buckets` and `byConn`: per connection and user a capped list, newest first | add and list history rows; `recordFeedback`, retrieve examples |
| `core` Mongo engine (`mongo/`) | `cached`, `inflight`, `generation`; locals of one question | `catalog`, `invalidateCatalog`, `ask`, `execute`, `explainSchema` |
| connectors (`postgres`, `mysql`, `oracle`, `sqlite`, `duckdb`, `mongodb`) | a pool or one connection, per-statement cancel state, type-name cache | `connect`, `introspect`, `execute`, `close` |
| `server` (handler, express and CLI adapters, dynamic connections) | `byId`, `mongoById`, `mongoEngines`, `dynamicIds`, `creatingIds`; per response an event queue and an abort controller | create, remove, list, chat, execute, close |
| `react` (hook, client, components), `widget` | turns, in-flight token, abort controller | ask, run, approve, cancel, reset |
| `vscode` (engine manager, chat view, extension, webview) | connectors, engines, open files and catalogs of a generation; the running turn, its pending approval, results and history; the page's own turn | `engineFor`, `catalogFor`, `reset`, tests; ask, approve, stop, clear, dispose |
| `browser-extension` | stored connections, file handles, permissions | options and side-panel pages |
| `mcp` | none | one engine call per tool |
| `jetbrains` (Kotlin) | connection and Mongo client registries with leases and generations; a port of the engine; panels | `withConnection`, `invalidate`, `closeAll`; ask/run; JDBC execution under a hard timeout |

### How they interact

A host (server, VS Code, browser page, IDE, MCP) calls `ask`. The engine makes
sure the connection is there, takes a catalog from its cache or reads one through
the connector, and enters a loop: `callModel`, extract, guard, a row of semantic
floors, probes of coded values, and either an answer or another prompt. The
answer carries `run`, which guards the statement again and calls the connector's
`execute`; a database error may go back to the model once. Everything is joined
by promises (or coroutines in the IDE) and by abort signals passed down, so the
shared state is: the engine's maps between concurrent callers, the connector's
pool between concurrent statements, the hook's gate and turns between an operation
and the stopped ones behind it, the server's maps between requests, the extension's
engines between turns and resets, and the IDE's registry between threads.

### What is hard here

* **Interleaving.** Concurrent callers between two awaits of `getCatalog`;
  statements sharing a pool with the cancels sent through it; IDE threads between
  two accesses of the registry; requests of the server between the awaits of a
  create and a removal; chat turns and `reset()` between the awaits of a build;
  messages between an extension host and its page.
* **Timeouts and cancellation.** Every layer races its work against a timer and a
  signal, and an abort may come before, during or just after each await.
* **Long sequences.** The repair loop has three retries that give their attempt
  back, two kinds of repair that carry data, and floors that either repair or
  annotate, depending on the attempts left.
* **Partial failure.** An introspection with warnings, a history store that
  throws, a shared type-name query killed by its owner's abort.
* **Boundaries.** The row cap: no limit, a limit below, at and above it, a result
  that exactly fills it, guarded twice; texts where a comment, a string and a
  statement's end meet; probe and sample budgets at their limit; a schema over the
  prompt's budget by one table or one column; a store at its cap.

The full list, each hazard at its line with the properties that cover it, is
`hazards` in `PROJECT.json`.

### What makes each part correct

*Catalog*: one pool, one introspection per generation, a refresh really fresh, no
older schema put back, every waiter woken. *Questions*: a bounded number of model
calls; what is returned was allowed by the guard and names what exists; caveats
belong to the statement shown; row data leaves only with the opt-in; truncation is
told; history records what happened. *Model call*: bounded waiting, a timeout and
a cancel are final, it always settles. *Connector*: pooled clients are clean, a
cancel hits its own statement, an aborted call returns no rows. *Registry*: what
is handed out is open, nobody's connection is closed under them, none is leaked.
*Hook*: one live operation, Stop is final, no turn spins for ever, rows shown belong
to the statement shown. *Server*: an id names one connection, a stream that ends has
told everything, every request ends. *Extension*: nothing made for old settings is
kept or served, a secret goes where it was saved for, a cancelled turn stays so.
*Rules*: what the guards pass is capped and otherwise unchanged, hints and column
names say what the data says, a catalog says what it lacks, a pruned schema keeps the
best table and the keys its joins need, a store gives back what it was given, to whom.

## Modules

Conventions: JavaScript runs to completion between awaits, so one action is the
code between two awaits; Kotlin coroutines run on several threads, so there one
action is one access to shared state. A definition commented *Mutant* is a
plausible mistake in the definition below it; it is used by no specification.

### `EngineCatalog` (`core/src/engine.ts`)

`ensureConnected`, `getCatalog` and the staleness re-read of `ask`. Every map is
keyed by connection id and no operation touches two keys, so one connection is
modelled. A catalog is the schema version its introspection observed; the database
moves to new versions at any time.

| model | code |
|---|---|
| `connected`, `connecting`, `cache`, `inflight`, `generation`, `staleRefreshAt` | the engine's maps, for one id |
| `pc`, `refresh`, `waits`, `read`, `gen`, `seen`, `held` | a caller's continuation and locals |
| `pools`, `dialing`, `staleReads`, `floor` | history, for the properties only |
| `Call`, `ConnectSettles` | entering `catalog()`/`ask()` through `ensureConnected` |
| `CatalogFromCache`, `JoinInflight`, `StartRead` | the three ways out of `getCatalog`'s synchronous part |
| `Observe`, `ReadSucceeds`, `ReadFails` | the introspection, its `then` and its `finally` |
| `AskKeepsCatalog`, `AskRefreshes` | whether `ask` re-reads a catalog that lacks a table it needs |

### `AskPipeline` (`core/src/engine.ts`, row cap of `guard.ts`/`row-cap.ts`)

One question and the executions of its answer. A statement is what the code tests
of it: the spellings the guard allows (names and aliases quoted, names only, the
model's own text), the flaws each spelling has, its own limit, the coded columns to
probe. The guard and the floors read one spelling (`JudgedSpelling`, the first that is
allowed), and `sql` records the one `ask()` returns (`FinalSql`), so that the two can be
compared. A prompt is the row data it carries. Both signals abort at any moment.

| model | code |
|---|---|
| `AskRefused`, `AskWritten`, `AskPrompts` | the routing before the loop: refusals, a query written from the catalog, the first prompt |
| `StartCall`, `RequestFails`, `RetryRequest`, `CallFails` | the call of `callModel` (its inside is `CallModel`) |
| `ReplyOverflow`, `ReplyImpossible`, `ReplyNoSql`, `ReplyBlocked`, `ReplyFlawed`, `ReplyAccepted` | one action per way a reply leaves the loop body |
| `OneShot`, `Repair`, `Throw` | a free retry, a paid one, giving up |
| `Probe` | `codeValuesOf` and what its result leads to |
| `Run`, `RunWritten`, `Execute`, `ExecuteBlocked`, `ExecuteOk`, `ExecuteFails` | `run()`, the caller's own `execute`, `executeGuarded` |
| `CaseFix`, `AskForFix`, `FixReply`, `ThrowDbError` | the repair after a database error |
| `JudgedSpelling`, `Blocked`, `FlawsJudged`, `FinalSql` | the verdict used and its spelling, what the floors read of it, the text returned and run |
| `Caps`, `Guarded`, `Truncated`, `RecordHistory` | the row cap, the statement it leaves, the truncation rule, history |

### `ModelCall` and `CallModel` (`core/src/llm.ts`)

`ModelCall` is what a caller may rely on: a bounded number of requests, none after
a cancel or after settling, no reply to a cancelled caller. `CallModel` is
`callModel`: `Promise.race` of the provider, a soft timer that aborts the request,
a hard timer that gives up on it, and the caller's abort; one re-send without
`temperature`; retries after a backoff. Time is in ticks, and a timer that is due
fires before time goes on. `KeepsPromise` is the refinement.

### `PostgresExecute` (`postgres/src/index.ts`)

`execute` and `warmTypeNames` over one bounded pool. pg's pool and the server are
external: a client handles one query at a time, a statement may run for ever, and
a cancel is itself a query that waits for a client of the same pool. Actions follow
the awaits: check-out, type-name query, `BEGIN` and settings, the statement racing
its deadline, `COMMIT` or `ROLLBACK`, release; `Abort` runs the listener,
`CancelRuns`/`CancelLost` are the fate of a `pg_cancel_backend`.

### `ConnectionRegistry` (`jetbrains/.../db/ConnectionRegistry.kt`)

`withConnection` with `acquire`, `invalidate` and `closeAll`, one access to the
map, a lease count, a flag or a connection at a time. The driver is external: an
open fails or succeeds, a blocking open does not hear `cancel()`, a connection may
turn out broken or drop.

### `Conversation` (`react/src/useAskSql.ts`, `react/src/client.ts`)

The hook over either transport. An operation is one call of `ask`, `run` or
`editSql`; SQL is a version number and a result the version that was run. A stopped
operation keeps its place (`pc`) until its transport settles, which it may do with
an answer.

| model | code |
|---|---|
| `inFlight`, `abortRef` | `inFlightRef` (the token), `abortRef` (the controller), as the number of their owner |
| `aborted`, `settled`, `code`, `generated` | locals of an operation: `controller.signal.aborted`, `settled`, `askErrorCode`, `generatedSql` |
| `phase`, `sql`, `result` | the turns |
| `stopped` | history, for `StopIsFinal` |
| `StreamSql`, `StreamError`, `StreamCloses` | the events of `chat()`, and what `ask` does once the stream has ended or thrown |
| `HttpCloses`, `LocalCloses` | how each transport's stream may end |
| `FallbackAnswers`, `FallbackFails` | `explainSchema` after a failure that it can answer |
| `ExecuteSucceeds`, `ExecuteFails` | the end of `doRun` |
| `Run`, `EditSql`, `Cancel`, `Reset` | the hook's other operations; unmounting is a `Cancel` |

### `MongoEngine`, `StageFields`, `SchemaAnswer` (`core/src/mongo/`, `engine.ts`)

`MongoEngine` is `createMongoAskSql`: the cached catalog with its in-flight read and
generation (`Catalog`, `Introspect`, `ReadEnds`, `Expire`, `InvalidateCatalog`), the
question loop (`MongoAsk`, one `Model...` action per way a reply leaves it), name
resolution (`ResolveCollection`, `RewriteJoinTargets`) and `MongoExecute`/`Aggregate`.
A collection is a word in a spelling. `StageFields` walks `firstUnknownStageField`
stage by stage and keeps beside what the walk believes (`available`, `narrowed`) what
a document really may hold (`holds`). `SchemaAnswer` is `explainSchema` of both
engines, `explain` and `suggestFix`: a reply is the set of marks that the code's tests
find in it, and `FirstReply`, `ChallengeReply` and `NamesReply` are the three passes.

### `ServerConnections`, `ServerRequest` (`server/src/`)

`ServerConnections` keeps the handler's maps and the requests suspended at their
awaits: `StartCreate`/`Connected`/`ConnectFails`, `StartDelete`/`Deleted`/`DeleteFails`,
`Ask` and `Execute` with their audit, and `close()`. `SpecAllowed` is the table of
`dynamicConnections.ts`. `ServerRequest` is one request through either adapter: body
chunks and limits, routing and errors, and the generator that drains the queue into
which the engine pushes (`Push`, `Settle`, `DrainOne`, `Sleeps`, `SendDone`), with a
client that may stall or leave at every step. `due` is history: the events to be told,
in the order they were pushed.

### `PooledExecute`, `EmbeddedExecute`, `EmbeddedFiles` (connectors)

`PooledExecute` is MySQL and Oracle: `connect`, `close`, and each call of `execute`
from check-out to release, with the sessions (`link`), the KILLs under way and the
pools that have ended. `EmbeddedExecute` is DuckDB (node with its queue, browser
without) and Mongo's cursors; `EmbeddedFiles` the life of their handles, registered
files and dumps, and SQLite's `query_only` flag on a handle that is the caller's. The
driver may refuse each of its steps: the first read of the flag, setting it, reading it
back, and clearing it in `close()`, where the refusal is swallowed (sqlite/src/index.ts:227)
and the memory of the flag goes all the same. `offRefused` is history: it tells a handle
such a `close()` left read-only from one that was given back.
Drivers and servers are external, and a statement may run for ever.

### `Introspection`, `MongoCatalog`, `ColumnHints` (catalog reads)

`Introspection` is the five relational `introspect` functions as a machine of phases
(sections, objects, samples, hints); a loop is the set of what it has left, and each
turn of it an action: sections that may fail, the sampling pass, the hint pass with its
budget, and Postgres' transaction and savepoints. In `MongoCatalog` a document is the
set of its visits, each a key in an object; the walk counts them up to the caps and
tells maps from records, in the connector and in the IDE. `ColumnHints` is what a
probe's cells are turned into.

### `SchemaPrune`, `Stores` (what a prompt carries)

`SchemaPrune` is `pruneCatalog` (`core/src/catalog.ts`) loop by loop, and the second,
tighter pruning after a context overflow (`Shrink`, engine.ts). A word of the question is
how it meets a table, text is its size in tokens.

| model | code |
|---|---|
| `SendWhole` | the fast path: everything fits |
| `StartClosure`, `Hop` | seeds by score, then two hops over foreign keys and guessed joins |
| `RankCandidates`, `Keep` | candidates by score into the table and token budget |
| `Measure`, `TrimTable`, `trimColumns`, `keyNames` | trimming the columns of what is still too long, keys first |
| `Return`, `Marker` | the counts and markers by which the result tells what it left out |

`Stores` is both in-memory stores with `recordFeedback`, which guards an approved
statement before it is kept: `AddRow`/`listRows`, `recordFeedback`/`retrieve`. The logs
`rowLog` and `approved` remember every call, oldest first, for the properties. A list
that the code sorts is the list of what comes before what (`Sorted`), so that ties keep the
order they are gathered in, as `Array.sort` does.

### `SqlText`, `SqlGuard`, `PipelineGuard` (guards of core and of the IDE)

`SqlText` runs the scanners of `strip.ts` and `SqlLexer.kt` over every text of a
small alphabet, symbol by symbol, and appends the cap. `SqlGuard` decides over the
shapes of statements, rule by rule, for both implementations, and applies the guard
a second time to its own output as the engine does. `PipelineGuard` does the same
for pipelines and evaluates how many documents a capped pipeline can return.

| model | code |
|---|---|
| `Step`, `Scan` | the scanners' loops: where a reader is after each symbol |
| `StagesOf`, `Offends`, `Violation` | `walkPipeline`: a stage at any depth that breaks a rule, and the rule of the first |
| `Held`, `ScanValue` | `scanValue`: what a stage's value may not hold, its sub-pipelines included, and the depth |
| `LimitDecision`, `CapStages`, `InFacets` | `capPipeline`: a part and the branches of facets in it |

Pipelines nest, and the guard recurses. Here a pipeline is the function of its parts by
their place, so that the recursion is a quantifier over the places and can be proved
about; `maxDepth` counts the levels of JSON in the code, of sub-pipelines here.

### `EngineManager`, `ChatTurns` (`vscode/`)

`EngineManager`: builds of connectors (`build`, one record per build), the engines and
catalogs made from them, and `reset()`, refreshes, tests and edits of settings and
secrets at every await. A password is the endpoint it was saved for, so that where it
is sent can be compared with where it belongs. `ChatTurns`: the extension host and the
page with the two queues of messages between them; a message knows the turn that
posted it, the page does not.

### MC and proof modules

Parts that share no state are checked in one run as alternatives: `MCQuestions`
(SQL question, Mongo question, field walk, prose), `MCServer` (connections, request,
model call), `MCConnectors` (Postgres, pooled, embedded queries, embedded files),
`MCChat` (hook, engine manager, panel) and `MCRules` (the eight rule modules) choose a
`focus` in the initial state, and a behaviour then takes steps of that part only. The
other parts stay in one initial state, so nothing is multiplied and nothing is lost.
`MCAskPipeline` and `MCConnectionRegistry` name sets and symmetries.
The eight `*Proofs` modules hold the theorems.

## Runs

| run | module, cfg | distinct states | shows |
|---|---|---|---|
| `catalog` | `EngineCatalog`, `EngineCatalog.cfg` | 122 339 | one pool and shared reads (`WorkIsShared`), fresh refreshes, no regression of the cache, every call settles |
| `ask_loop` | `MCAskPipeline`, `AskLoop.cfg` | 215 134 | bounded calls, answers in the spelling that was allowed and grounded, every question settles |
| `ask_run` | `MCQuestions`, `AskRun.cfg` | 797 033 | notes, row data, signals around executions, history and truncation (`RunToldTruly`); the Mongo catalog after an invalidate and the pipelines it lets through; provable absences; honest prose |
| `server` | `MCServer`, `Server.cfg` | 144 704 | one connection per id, complete streams, `callModel` refines `ModelCall`, requests and model calls end |
| `connectors` | `MCConnectors`, `Connectors.cfg` | 387 021 | clean and quiet idle sessions, cancels and interrupts that hit their own, no rows after an abort, a borrowed handle given back as it was or, its driver refusing, left read-only, statements end |
| `registry` | `MCConnectionRegistry`, `ConnectionRegistry.cfg` | 2 890 514 | nothing handed out closed, what was leased is closed in the end |
| `chat` | `MCChat`, `Chat.cfg` | 1 330 063 | the hook's gate and Stop; nothing stale and no secret astray in the engine manager; approvals, cancels and clears of the panel |
| `rules` | `MCRules`, `Rules.cfg` | 675 494 | row caps of four guards, true hints, column names that are fields, catalogs that say what they lack, pruned schemas that keep what joins need, stores that keep users apart |
| `ask_written_truncation` | `MCAskPipeline`, `AskTruncation.cfg` | violation | see *Findings* |
| `registry_in_use` | `MCConnectionRegistry`, `RegistryInUse.cfg` | violation | see *Findings* |
| `conversation_edit` | `Conversation`, `ConversationEdit.cfg` | violation | see *Findings* |
| `mongo_newest` | `MongoEngine`, `MongoNewest.cfg` | violation | see *Findings* |

### Bounds, and why they are enough

* `catalog`: two callers. The races are between one read and one other caller that
  joins it, refreshes past it or finishes behind it. Three generations (0, 1, 2) let a refresh
  overtake a refresh; the clock runs over the short lifetime, the long one and the
  cooldown; two schema versions tell before from after.
* `ask_loop`: two repairs as in the code (`MAX_REPAIRS`), more coded columns than
  `CODE_MAX_PROBES`, one flaw of each kind the floors tell apart (`FlawKinds`: refused at
  once, fatal at the last attempt, noted, left to the database), in every combination.
  The guard allows any of the three spellings, and a flaw is in all of them, in one only
  or in all but one; the other runs have statements with nothing to quote. `FetchStyle` is
  true here and false in `ask_run`, so both branches of the row cap are taken.
* `ask_run`: one repair, a cap of two rows, limits of none, below, at and above it,
  and as many row totals; two executions, so that an answer is run, failed,
  repaired and run again. `AllowDataInPrompt` is false here, true in `ask_loop`.
  Mongo: two callers, two reads and one invalidate, so a read is cut loose while
  another caller waits on it or starts the next; one word in two spellings gives
  siblings that differ in case. Fields: three roots, any number of stages (the state
  is finite). Prose: every set of reply marks through the three
  replies, for every combination of five question marks; the two that only lead to a
  canned answer (`capability`, `noTables`) are off here and covered by the proof.
* `server`: two requests over one configured and one free id, three connectors (create,
  remove, create again); a body one chunk over the limit; three pushed events, so that
  pushes fall before, between and after drains; for the model call the code's two
  retries and three ticks of timeout against backoffs of zero to two.
* `connectors`: Postgres with two calls and two clients: a call waiting for the slot of
  the other, a cancel waiting behind both, a backend reused, a discarded client. MySQL
  and Oracle with two calls over a pool of one, so a KILL has to wait for the session
  its own call gives up. Three embedded queries: one running, one queued, one aborted
  in the queue. Two connects for a connect that failed and is tried again.
* `registry`: two calls, one invalidate, one closeAll, one drop, and six slots; the run
  never creates more than five (`OpensBounded`), so that bound
  cuts nothing.
* `chat`: three operations of the hook, so that a stopped one unwinds behind a live one
  and a third waits at the gate; the two properties do not look at which SQL version is
  shown, so one version is enough (`conversation_edit` has two). Two calls, two resets, two builds, two
  events of the window, over one SQLite and one Mongo connection; `ATTEMPTS` is two (three
  in the code), as many as two resets can use up. Two turns, and limits
  of results and history that two turns can exceed.
* `rules`: all texts of four symbols (an opener, its content, its end, and a separator or
  what follows); counts below, at and above the cap; pipelines of two stages with
  sub-pipelines, and facets in facets and lookups to one level past `MaxNesting`; three
  cells and three objects, two documents of one or two keys, with budgets that they
  exceed. So few cells and documents reach neither the 40 % share of `jsonShapeOf` nor the
  reuse threshold of map keys; the theorems are for any number of them. Pruning: three
  tables, two of one name in two schemas, narrow and wide, with and without foreign keys, scores and partitions, against limits that the
  wide ones exceed. Stores: three texts of which two share a word, two connections, a
  user and none, three calls over caps of two, so that each store drops something.

### Deadlock

`catalog`, `ask_loop`, `registry` and three of the violation runs check it; where
such a system is finished a `Done` stutter says so. The runs over several parts say
`CHECK_DEADLOCK FALSE`, because their behaviours really end: a request is answered, a
statement is judged twice, a catalog is read, a panel has asked all its questions.
What should not stop there is stated as liveness (`RequestsEnd`, `StatementsEnd`) or
as a state property (`PanelSound`: Cancel never points at nothing).

## Findings

Each is a run that TLC must find violated, with the sentence of the repository it
contradicts quoted in `PROJECT.json`.

1. `ask_written_truncation`: the `run()` of a query written from the catalog passes
   no ask-time verdict (engine.ts:648), so a listing cut by the injected LIMIT is
   reported complete. The option's own comment describes this failure.
2. `registry_in_use`: `invalidate()` tests the lease count and closes in two steps.
3. `conversation_edit`: `editSql()` while the turn's old statement runs (or was
   stopped and settles with rows all the same) only patches the turn; the old
   statement's rows then appear under the edited one, which is never run.
4. `mongo_newest`: the `finally` of a read clears `inflight` whichever read it holds,
   so after an invalidate two reads of one generation overlap and the older may be the
   one that stays cached, against the comment above the test.

Properties that are stated and do not hold, without a run of their own. Each is a
definition of its module and can be named in a cfg to see the behaviour:

* `PostgresExecute!TypingAccurate`: the type-name query that all first statements share
  runs on its first caller's client; that caller's abort publishes an empty map for good
  (postgres/src/index.ts:184);
* `ConnectionRegistry!OneConnection`: a slot of another generation is replaced without
  being closed (ConnectionRegistry.kt:72);
* `ServerConnections!Removable`: of two removals of an id around a create, the slower
  takes the new connector out of the maps unclosed, or its id out of `dynamicIds`, and
  then nothing can remove it (handler.ts:401-402, and the comment at 346);
* `SqlGuard!IdeWithinCore`: SqlGuard.kt:32 calls the port a strict subset of core's
  guard; core also knows the suffixes of compressed files and the unbounded recursive
  query of SQLite. `CapHolds` excludes `NestedAll`: of two `LIMIT ALL`, one in a
  subquery, core caps the first;
* `ColumnHints!UnitOfTheRest`: a column with a sentinel and mixed units gets the unit
  of its low end (column-hints.ts:61);
* `MongoCatalog!CutAnnounced`: paths dropped at the cap before maps are collapsed go
  unannounced (mongodb/src/introspect.ts:291);
* `Introspection!SampleFailureIsLocal`: Postgres samples in one transaction without
  savepoints, so one failed sample costs the later ones theirs
  (postgres/src/introspect.ts:462); `Introspection!ViewsNotSampled`: with the view list
  unreadable MySQL and DuckDB sample views as tables (mysql/src/introspect.ts:186);
* `EmbeddedFiles!HandleAlwaysGivenBack`: a driver that refuses `PRAGMA query_only = OFF`
  leaves the caller's handle read-only; `close()` swallows that and forgets the flag, so
  a later connect and close do not clear it either (sqlite/src/index.ts:227-230).
  `HandleAsGiven` is what is left of it;
* `EmbeddedFiles!RegisteredExist`: `registered` survives `close()`, and a connect that
  failed on a configured file resolves when tried again without that file.

Also seen while modelling, without a run of their own:

* `codeValuesOf` (engine.ts:402) sends a statement during `ask()` that the guard never
  saw, against the header's "the guard runs on every SQL string";
* `timeoutMs` is re-armed per attempt (llm.ts:279), so it is not the "overall per-call
  ceiling" types.ts calls it. The bound that does hold is `WaitBounded`;
* Oracle attaches its listener without asking the signal again, so an abort during the
  check-out is noticed only when the statement ends; DuckDB misses one during prepare;
* two direct `connect()` calls (MySQL, Oracle, SQLite, Postgres) each open a pool or a
  handle and keep the later; under the engine `OnePool` excludes it. MySQL and Oracle
  publish a pool before it is verified, and `close()` forgets it after its await;
* DuckDB's introspection and file registration run outside the queue, where an
  interrupt of a query can stop them; in the browser build a late `cancelSent` can stop
  the next query; an aborted Mongo aggregate may return its partial rows as complete;
* two concurrent `registerFile` calls of one name fail instead of taking versions, and a
  dump claims the tables that were created while it ran;
* the field walk reads `{a: {b: 0}}` as an inclusion and drops `_id` for
  `{a: 0, _id: 1}`: `AbsenceProven` is checked and proved for the other forms
  (`ProjectForms`);
* in `explainSchema`, the reply of the name-repair pass is taken without stripping a
  sentinel bolted to it or testing that it says anything;
* the repair after a database error passes only the ask's signal to the model
  (engine.ts:1180), although the comment at 1141 speaks of both: cancelling the
  execution during that call's backoff still sends a request. `NoRequestAfterAbort`
  states what does hold;
* `pg_cancel_backend` goes through the same bounded pool (postgres/src/index.ts:241),
  not a fresh connection as the file's header says: with every client busy it waits
  for one to be free, which `CancelLost` and `CancelRuns` model;
* the type-name query, `BEGIN`, `SET` and `COMMIT` are awaited without the deadline
  the statement has;
* in `acquire`, the cancellation of one waiting call removes the slot its siblings
  wait for, and `cancel()` of a blocking open leaves the connection it returns to
  nobody. `MongoClientRegistry` has the same shape;
* a key with a dot whose object was cut at `MAX_PATHS` is kept as a column by the node
  connector (mongodb/src/introspect.ts:181), data or not: `NamesAreFields` speaks of
  samples whose objects were all counted;
* "Columns targeted by any table's foreign key survive trimming" (catalog.ts:526) holds
  for a table with at most `MIN_COLUMNS_KEPT` key columns, as `JoinsShown` says; no caller
  reads the `strategy` by which catalog.ts:546 has it warn of a trimmed table, and after
  the pruning for a context overflow (engine.ts:713) no second warning is given. With a
  configured budget below that pruning's floor it loosens the limits.

## Fairness

* `EngineCatalog`: weak fairness of the shared connect and of each caller's next
  step. The event loop runs every ready continuation, and drivers bound their own
  connects and introspections. Nothing is assumed of the clock, the schema or of
  new calls.
* `AskPipeline`: weak fairness of the model's and the execution's steps, because
  `callModel` settles (that is `CallSettles`) and connectors bound their statements
  (`StatementsEnd`). The caller is free to stop.
* `CallModel`: weak fairness of the timers, the clock and the engine's own steps,
  and none of the provider: `CallSettles` holds although the model never answers.
* `PostgresExecute`: weak fairness of the call's own continuations, its deadline,
  the pool's connect timeout, and of the server's answer to everything except the
  statement. The last is an assumption about the server: the code sets no client
  side bound there.
* `ServerRequest`: weak fairness of the server's own steps, of the engine's settling
  (`QuestionSettles`), and of the client's ending its body or leaving, which Node's
  request timeout enforces. Nothing is assumed of the client's reading.
* `PooledExecute`, `EmbeddedExecute`: weak fairness of each call's continuations,
  its timer where it sets one, the driver's and the server's answers to everything
  but a statement, and of a KILL that has a session. A MySQL statement may run for
  ever; Oracle's is ended by the driver's `callTimeout`.
* `Conversation`, `EngineManager`, `ChatTurns`, `ServerConnections`: safety only. That
  an operation settles is up to what it awaits; `NoSpinner` and `PanelSound` say that
  nothing else is needed.
* `ConnectionRegistry`: safety only; `withConnection` waits for a blocking open that
  nothing in the registry bounds.

## Proofs

All theorems are stated for every value of the constants under the named `ASSUME`
of the module (the bounds are arbitrary naturals; the sets of callers, clients,
flaws, limits, documents and schemas arbitrary). TLC checks the properties on the small
instances, and evaluates the assumptions in every run. Where a property has an inductive
invariant, TLC has checked that one too before it was proved.

Induction is over the naturals, by the least counterexample: a set of naturals that has 0
and the successor of each member is `Nat` (`InductionOnNat`). What a recursive function of
a model computes at each place (`Scan` of a text, `Docs` of a pipeline) follows from that,
and so does counting: the members of a finite set have as their ranks exactly the numbers
below its size (`RankOnto`), which is what a sorted, filtered or numbered list rests on.

**The engine's catalog** (`EngineCatalogProofs`)

* *EngineCatalog.* `CatalogInv` adds to the properties what makes them inductive:
  an entry in `inflight` belongs to a running read of the present generation, a
  running read that is not in `inflight` is of an older generation, what a read
  saw lies between the schema when it started and the present one, a connect is
  under way exactly while `connecting` is set, and the re-reads counted so far fit
  into the windows since the start. From it: `OnePool` and `OneReadPerGeneration`
  (together `WorkIsShared`), `StaleReadsAreRare`, `RefreshIsFresh`, `AnswersAreReal` and
  the action property `CacheNeverRegresses`; `TypeOK` is proved first.
**Questions** (`QuestionProofs`)

* *AskPipeline, the question.* `AskInv` accounts for the model calls: each is paid for
  by the first attempt, by a consumed attempt or by one of the three one-shot retries,
  so `calls` never exceeds attempts plus one-shots plus one (`LoopInv`); notes are
  empty until a statement is accepted and are then the notes of its flaws
  (`NotesInv`); the spelling returned is the one judged (`SpellingJudged`,
  `GuardedKeeps`); a prompt carries row data only with the opt-in (`PromptInv`). From
  it: `ModelCallsBounded`, `AnswerIsGrounded`, `NotesMatchAnswer`,
  `RowDataNeedsOptIn`.
* *AskPipeline, its runs.* `RunInv`: every run that has settled is counted, and stored
  or lost (`CountInv`); a limit that is not the statement's own is the policy's cap, was
  put there by the guard and is flagged, at the first guard and after the second
  (`LimitInv`). From it: `RunToldTruly` and `NoRequestAfterAbort`.
* *MongoEngine.* `MongoInv`: the in-flight read is running and of the present
  generation, a cached catalog and what a caller waits for were begun no earlier than the
  generation they are used in. It needs both the caller's side (`CallerInv`) and the
  cache's (`PresentInv`), since a caller may join a read or find it cached. From it:
  `NothingFromBefore`. `SoundInv` pays for the calls of a question as `LoopInv` does.
  From it: `PipelineSound`.
* *StageFields.* `WalkInv`: once the walk is narrowed, what a document may hold is among
  what it believes available. From it: `AbsenceProven`, under
  `ProjectForms \subseteq {"in", "out"}`.
* *SchemaAnswer.* `ProseInv` counts the calls by pass and says that nothing is returned
  before the end; each return then makes `ProseIsHonest` true.

**The server and its model calls** (`ServerProofs`)

* *CallModel.* `CallInv` charges the elapsed time to the requests sent and the
  backoffs taken (`TimeInv`) and ties `pc` to the flags (`ControlInv`). From it:
  `RequestsBounded`, `WaitBounded`, `TimeoutIsFinal`, and `KeepsPromise`: the
  initial states map to initial states of `ModelCall` and every step to one of its
  steps or a stutter.
* *ServerConnections.* `OwnerInv`: an id under creation is reserved, by one request, and
  not listed. From it: `OneOwnerPerId`.
* *ServerRequest.* `StreamInv`: what is on the wire is a prefix of what is due, and what
  is queued to be forwarded is the rest of it in order, although other entries lie
  between (`QueueInv`: each carries its place; the first the next place, neighbours
  successive ones). From it: `StreamTellsAll`, for any number of events.

**Connectors** (`ConnectorProofs`)

* *PostgresExecute.* `PoolInv` says who owns a client (`OwnInv`), that whatever is
  not owned is clean or closed (`CleanInv`), and that a cancel under way is aimed at
  a client its caller holds or has discarded (`CancelInv`). From it: `IdleIsClean`,
  `CancelHitsOwn`; with `OpenInv` (no outcome before the end), `AbortedGetsNoRows`.
* *PooledExecute.* `PooledInv`: a session is held by one call from check-out to release
  (`HoldInv`), nothing runs on it outside the statement (`RunInv`), and a KILL outlives
  its caller's hold only on a session that is destroyed (`KillInv`). From it:
  `IdleIsQuiet`.
* *EmbeddedExecute.* `DuckInv`: who has a listener or a timer has a statement under way
  (`ArmedInv`), and the connection takes statements in the order of the queue, one at a
  time (`OrderInv`). From it: `InterruptHitsOwn`, for any queue.
* *EmbeddedFiles.* `LiteInv`: what is to be restored is the flag the handle came with,
  until a `close()` is refused; from then on the flag stays set and is never remembered
  as cleared. From it: `HandleAsGiven`.

**The IDE's registry** (`ConnectionRegistryProofs`)

* `RegistryInv`: a connection is closed only by someone whose slot has left the map and
  carries the superseded mark. From it: `InstalledIsOpen`.
* `LeaseBooks`: the lease count is the number of calls between the lease and its end
  (`LeaseInv`), and the close of a superseded connection that was leased is owed by some
  actor that is not done (`OwedInv`): a holder, a call about to test the flag, or whoever
  marked it. From it: `LeasedThenClosed`.

**Front ends** (`FrontEndProofs`)

* *Conversation.* `ConversationInv` adds that an operation not started yet has left
  no trace (`StartedInv`), and that a question whose stream has settled leaves its turn
  spinning only when another operation works on that turn (`StreamInv`). From it:
  `OneAtATime`, `StopIsFinal`, `NoSpinner`.
* *EngineManager.* `ManagerInv`: a promised build is of its path and in no `reset()`'s
  hands (`BuildInv`), an engine is made of the connectors still promised (`EngineInv`),
  an attempt of the present generation awaits what is promised or was rejected since
  (`AttemptInv`), and a catalog read brings nothing older than what its waiters asked for
  (`CatalogInv`). From it: `NothingStale`; `SecretStaysHome` is an invariant by itself.
* *ChatTurns.* `ChatInv`: only the running turn is live, and only it awaits an approval
  (`HostInv`); whatever locks the page, its state or a message under way, has something
  behind it that will unlock it (`LockInv`); after a "Cancelled." shown or under way
  nobody answers until another turn is opened (`StopInv`). The last two are about every
  place of the queue, since a message is read long after it is posted. From it:
  `PanelSound` and the action property `CancelledIsFinal`.

**Catalog reads, prompts and stores** (`RulesProofs`)

* *ColumnHints.* `HintInv` (what is said is what the probe computes), on lemmas about
  `epochUnitOf`, `jsonShapeOf` and `jsonArrayElementOf`. From it: `HintsTrue`.
* *MongoCatalog.* `NamesInv`: where a path was last seen is where a sampled document has
  it. From it: `NamesAreFields`, for any documents and caps.
* *Introspection.* `ScanInv`: the budget keeps a share for every table still ahead
  (`ScanReserve`), no table to describe falls out of the loops undescribed (`ScanCovers`),
  a failed section has its warning (`ScanTold`). From it: `IntrospectionSound`.
* *SchemaPrune.* `PruneInv`: the closure holds what a hop or two reaches or is full
  (`ClosureInv`), candidates are kept in order of their score (`OrderInv`, `FillInv`), a
  trimmed table still has its keys (`KeysInv`), the result says what it left out
  (`ResultInv`). From it: `PruneSound`, for any schema, question and limits.
* *Stores.* `StoresInv`: the rows are logged in the order of their times (`LogInv`); there
  is one bucket per key, and it lists its user's rows of the log, newest first, up to the
  cap (`BucketsInv`); a user's examples are, of each question, the last approval
  (`ShotsInv`). `ListsNewest` says of a list and of any part of a log that the entry with n
  later ones stands at place n + 1; adding at the front and cutting keeps it (`ListAdd`),
  taking a question out keeps it for what is left (`ListDrop`). From it: `StoresSound`, for
  pages of one user, of a whole connection (`ConnectionRows`: the buckets merged by time)
  and of examples sorted by their words (`Retrieved`).

**The guards** (`GuardProofs`)

* *SqlGuard.* `GuardInv`: what a guard allowed is clear of every rule that refuses, and
  its limits are the statement's with the cap on its own (`CapsTo`), or, of two
  `LIMIT ALL`, with one replaced (`OneReplaced`). A list of rules is reasoned about
  through the one that is named first (`RuleNamed`, `NoRuleApplies`). From it: `CapHolds`,
  for both guards, both passes, any cap and any counts.
* *SqlText.* `TextInv`: what left the guard is what it computes of the text. A text and
  the same text with something appended are scanned alike up to there (`ScanPrefix`); on
  an undisputed text the reader of core and the database's are at the same place
  (`ScanAlike`), so the body ends where the database's statement does (`SameEnd`), after
  code, and the appended limit is read as code (`LimitRead`). From it: `CoreCapBinds`, for
  texts of any length.
* *PipelineGuard.* `PipelineInv`: what is allowed was walked without a violation and
  capped. A part that ends in a limit returns the lesser of that and what comes before
  (`ReturnedLimit`), a prefix of a part passes on the same (`DocsPrefix`), so a capped part
  returns what it would have, up to the cap (`PartCapped`); no stage offends, so none at
  any depth is denied (`PipelineClean`). From it: `PipelineBounded`, for pipelines of any
  length and depth, any cap and whatever a `$unionWith` brings.
* *MCRules.* The three together are `RowsCapped`.

Every safety property and action property of a passing run is proved. Only model-checked are
`CallsSettle`, `QuestionSettles`, `RequestsEnd` and `StatementsEnd`: liveness under fairness
is outside the prover's reach.

Some properties are proved and have no run of their own, because a stronger or broader
one took their place: `OnePool`, `OneReadPerGeneration`, `StaleReadsAreRare`,
`AnswersAreReal`, `RequestsBounded`, `TimeoutIsFinal`, `WaitBounded`, `NoSpinner`,
`CapHolds`, `CoreCapBinds`, `PipelineBounded`.

## What is not modelled, and why

Wording, formatting, prompts, token text and rendering; the SQL parsers and the text
scanning of replies (their verdicts are inputs of the models); drivers and providers,
except for how the code uses them; constant tables and type declarations. The pages of
the browser extension, the widget and the React components show state that the hook
keeps; the MCP tools call the engine. How words are matched against names
(`schema-match.ts`) and how a prompt is worded (`prompt.ts`) are left out: the models
take the score of a match and the size of a text as inputs. Each component with its
status and reason is in `PROJECT.json`.

## Plan

Done: the engine's shared state and both question loops, what they call (model call,
guards, connectors, catalog reads, pruning, stores), the hosts (React hook, server, VS
Code) and the IDE's registry and guards; every safety property of a passing run is
proved. Left:

1. The IDE's own engine (`EnginePipeline.kt`, `MongoEnginePipeline.kt`,
   `JdbcExecutor.kt`, `HardTimeout.kt`), against the properties of `AskPipeline`;
   `MongoClientRegistry` beside `ConnectionRegistry`, with which it shares a protocol.
2. `connect` and `close` of the Postgres connector, `close` of the engine, the file store
   of the history.
3. An abstract specification of a turn (one question's events in order, nothing after
   its cancel) that `Conversation` and `ChatTurns` implement.
