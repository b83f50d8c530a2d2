---------------------------- MODULE EngineManager ----------------------------
(***************************************************************************)
(* EngineManager (packages/vscode/src/engine.ts) and the commands and      *)
(* events of extension.ts that drive it: the connectors, engines, catalogs *)
(* and SQLite handles of one window, shared by chat turns, the schema tree *)
(* and connection tests, and all dropped by reset().                       *)
(*                                                                         *)
(* One JavaScript thread: what stands between two awaits is one step.  The *)
(* MongoDB connectors and engines are built on a path of their own.  A     *)
(* connector is lazy: building one dials nothing, a SQLite file excepted.  *)
(***************************************************************************)
EXTENDS Integers

CONSTANTS
  Conns,        \* connectionConfigs(), by id
  Mongo,        \* the MongoDB connections
  Files,        \* the SQLite connections
  Calls,        \* calls of catalogFor, testConnection, engineFor and explain
  Resets,       \* calls of reset()
  MaxEvents,    \* bound on resets, refreshes, tests and changes of settings
  MaxBuilds,    \* bound on builds of a connector set
  ATTEMPTS      \* tries of engineFor: 3 in the code

ASSUME EngineManagerAssumption ==
  /\ Mongo \subseteq Conns /\ Files \subseteq Conns \ Mongo
  /\ MaxEvents \in Nat /\ MaxBuilds \in Nat /\ ATTEMPTS \in Nat \ {0}

Paths == {"sql", "mongo"}
PathOf(c) == IF c \in Mongo THEN "mongo" ELSE "sql"
OfPath(p) == {c \in Conns : PathOf(c) = p}
Servers == Conns \ Files
Builds == 1 .. MaxBuilds
NoBuild == 0
NoCall == "nobody"
Never == -1

(* What an engine is cached under: the model, and for MongoDB its          *)
(* connection too.  One model is modelled.                                 *)
KeyOf(c) == IF c \in Mongo THEN c ELSE "sql"
Keys == {"sql"} \cup Mongo

VARIABLES
  generation, catalogGeneration,
  promise,     \* connectorsPromise and mongoConnectorsPromise: a build, or none
  build,       \* each build's path, generation, config, and connections opening and opened
  nbuilds,
  failures,    \* the generation of the build that recorded a failure, or Never
  handles,     \* sqliteHandles, as <<build, connection>>
  openFiles,   \* the handles that are open
  engines,     \* engines and mongoEngines: the build an engine is made of, or none
  catalogs,    \* when the cached catalog was read, or Never
  inflight,    \* catalogInflight: the call that reads, or nobody
  endpoint, secret,  \* where the settings point a connection (its endpoint, or for a connection
               \* string the scope that defines it), and what its secret was stored with
  call,        \* the calls: where each is, and its locals
  conn,        \* the connection each call is for
  lastDrop,    \* when a connection's catalogs were last dropped
  rpc, held,   \* where a reset() is, and the builds and handles it holds
  closed,      \* builds whose connectors a reset() has closed
  events,
  logins       \* <<where a connector dials, where its password belongs>>

callVars == <<call, conn>>
settings == <<endpoint, secret>>
resetVars == <<rpc, held, closed>>
buildVars == <<promise, build, nbuilds, failures, handles, openFiles, logins>>
catalogVars == <<catalogGeneration, catalogs, inflight, lastDrop>>
engineVars == <<engines>>
managerVars == <<generation, buildVars, catalogVars, engineVars, settings, callVars, resetVars, events>>

NoHeld == [sql |-> NoBuild, mongo |-> NoBuild, files |-> {}]
NewCall == [pc |-> "idle", op |-> "catalog", gen |-> 0, catalogGen |-> 0, build |-> NoBuild,
            attempt |-> 0, on |-> NoCall, read |-> Never, since |-> 0]

ManagerInit ==
  /\ generation = 0 /\ catalogGeneration = 0 /\ nbuilds = 0
  /\ promise = [p \in Paths |-> NoBuild]
  /\ build = [b \in Builds |-> [path |-> "sql", gen |-> 0, at |-> [c \in Servers |-> "home"],
                                opening |-> {}, ok |-> {}]]
  /\ failures = [c \in Conns |-> Never] /\ handles = {} /\ openFiles = {} /\ logins = {}
  /\ engines = [k \in Keys |-> NoBuild]
  /\ catalogs = [c \in Conns |-> Never] /\ inflight = [c \in Conns |-> NoCall]
  /\ lastDrop = [c \in Conns |-> 0]
  /\ endpoint = [c \in Servers |-> "home"] /\ secret = [c \in Servers |-> "home"]
  /\ call = [t \in Calls |-> NewCall] /\ conn \in [Calls -> Conns]
  /\ rpc = [r \in Resets |-> "idle"] /\ held = [r \in Resets |-> NoHeld] /\ closed = {}
  /\ events = 0

-----------------------------------------------------------------------------
(* Building the connectors                                                 *)

(* sharedConnectors() and buildMongoConnectors(): the build under way or   *)
(* done, or a new one, which reads the settings now.                       *)
Shared(p, b) ==
  \/ /\ promise[p] # NoBuild /\ b = promise[p]
     /\ UNCHANGED <<promise, build, nbuilds>>
  \/ /\ promise[p] = NoBuild /\ nbuilds < MaxBuilds /\ b = nbuilds + 1
     /\ nbuilds' = b /\ promise' = [promise EXCEPT ![p] = b]
     /\ build' = [build EXCEPT ![b] = [path |-> p, gen |-> generation, at |-> endpoint,
                                       opening |-> OfPath(p), ok |-> {}]]

(* The SQL set rejects when it has connections and none of them opened.    *)
Rejected(b) == build[b].path = "sql" /\ OfPath("sql") # {} /\ build[b].ok = {}

(* One connection of a build settles.  A rejected set drops its promise,   *)
(* unless a reset() has replaced it.                                       *)
Settle(b, c, opened) ==
  /\ build' = [build EXCEPT ![b].opening = @ \ {c},
                            ![b].ok = IF opened THEN @ \cup {c} ELSE @]
  /\ promise' = [p \in Paths |->
       IF promise[p] = b /\ build'[b].opening = {} /\ Rejected(b)' THEN NoBuild ELSE promise[p]]

(* buildOne and buildMongoOne throw: recorded in the map of now, whoever   *)
(* asked for the build.                                                    *)
BuildFails(b, c) ==
  /\ c \in build[b].opening
  /\ Settle(b, c, FALSE)
  /\ failures' = [failures EXCEPT ![c] = build[b].gen]
  /\ UNCHANGED <<generation, nbuilds, handles, openFiles, logins, catalogVars, engineVars, settings,
                 callVars, resetVars, events>>

(* gen !== this.generation, asked once openSqlite() returns.               *)
KeepsFile(b) == build[b].gen = generation

OpensFile(b, c) ==
  /\ c \in build[b].opening \cap Files
  /\ \/ /\ KeepsFile(b)
        /\ handles' = handles \cup {<<b, c>>} /\ openFiles' = openFiles \cup {<<b, c>>}
        /\ Settle(b, c, TRUE) /\ UNCHANGED failures
     \/ /\ ~KeepsFile(b)
        /\ Settle(b, c, FALSE) /\ failures' = [failures EXCEPT ![c] = build[b].gen]
        /\ UNCHANGED <<handles, openFiles>>
  /\ UNCHANGED <<generation, nbuilds, logins, catalogVars, engineVars, settings, callVars, resetVars,
                 events>>

(* Mutant: the secret of an id, whatever it was stored with.               *)
SecretOfId(c, at) == secret[c]

(* readPassword, readConnectionString: only for the endpoint, or the       *)
(* scope, the secret was stored with.                                      *)
ReadSecret(c, at) == IF secret[c] = at THEN secret[c] ELSE "none"

(* A server's connector: built without a password if there is none to use; *)
(* MongoDB's connection string cannot be done without.                     *)
BuildsServer(b, c) ==
  /\ c \in build[b].opening \cap Servers
  /\ LET found == ReadSecret(c, build[b].at[c])
     IN  /\ c \in Mongo => found # "none"
         /\ logins' = IF found = "none" THEN logins ELSE logins \cup {<<build[b].at[c], found>>}
  /\ Settle(b, c, TRUE)
  /\ UNCHANGED <<generation, nbuilds, failures, handles, openFiles, catalogVars, engineVars, settings,
                 callVars, resetVars, events>>

-----------------------------------------------------------------------------
(* catalogFor, introspectFresh, testConnection                             *)

(* The call returns, with a catalog or without: its locals are gone.       *)
Ended(t, got) ==
  [NewCall EXCEPT !.pc = "done", !.read = got, !.since = IF got = Never THEN 0 ELSE call[t].since]

(* From the cache, from the read under way, or by a read of its own.       *)
CatalogFor(t, locals) ==
  LET c == conn[t] IN
  \/ /\ catalogs'[c] # Never
     /\ call' = [call EXCEPT ![t] = [locals EXCEPT !.pc = "done", !.read = catalogs'[c]]]
     /\ inflight' = [inflight EXCEPT ![c] = IF locals.op = "test" THEN NoCall ELSE @]
     /\ UNCHANGED <<promise, build, nbuilds>>
  \/ /\ catalogs'[c] = Never /\ inflight[c] # NoCall /\ locals.op # "test"
     /\ call' = [call EXCEPT ![t] = [locals EXCEPT !.pc = "joined", !.on = inflight[c]]]
     /\ UNCHANGED <<inflight, promise, build, nbuilds>>
  \/ /\ catalogs'[c] = Never /\ (inflight[c] = NoCall \/ locals.op = "test")
     /\ inflight' = [inflight EXCEPT ![c] = t]
     /\ \E b \in Builds :
          /\ Shared(PathOf(c), b)
          /\ call' = [call EXCEPT ![t] = [locals EXCEPT
               !.pc = "connectors", !.gen = generation, !.catalogGen = catalogGeneration', !.build = b]]

StartCatalog(t) ==
  /\ call[t].pc = "idle"
  /\ UNCHANGED <<catalogGeneration, catalogs, lastDrop>>
  /\ CatalogFor(t, [NewCall EXCEPT !.since = lastDrop[conn[t]]])
  /\ UNCHANGED <<generation, failures, handles, openFiles, logins, engineVars, settings, conn, resetVars,
                 events>>

(* testConnection: the cached catalog and the read under way are dropped   *)
(* first, and what that read brings is not to be cached over this one.     *)
TestConnection(t) ==
  /\ call[t].pc = "idle" /\ events < MaxEvents /\ events' = events + 1
  /\ catalogGeneration' = catalogGeneration + 1
  /\ catalogs' = [catalogs EXCEPT ![conn[t]] = Never]
  /\ lastDrop' = [lastDrop EXCEPT ![conn[t]] = catalogGeneration + 1]
  /\ CatalogFor(t, [NewCall EXCEPT !.op = "test", !.since = catalogGeneration + 1])
  /\ UNCHANGED <<generation, failures, handles, openFiles, logins, engineVars, settings, conn, resetVars>>

(* A read ends: only its own entry leaves the map, and those who joined it *)
(* get what it got.                                                        *)
EndRead(t, got) ==
  /\ inflight' = [inflight EXCEPT ![conn[t]] = IF @ = t THEN NoCall ELSE @]
  /\ call' = [u \in Calls |->
       IF u = t \/ (call[u].pc = "joined" /\ call[u].on = t)
       THEN Ended(u, got) ELSE call[u]]

Settled(b) == b # NoBuild => build[b].opening = {}

(* await sharedConnectors() in a read: no such connector, or connect() and *)
(* introspect() under way.                                                 *)
ReadConnectors(t) ==
  /\ call[t].pc = "connectors" /\ call[t].op \in {"catalog", "test"} /\ Settled(call[t].build)
  /\ \/ conn[t] \notin build[call[t].build].ok /\ EndRead(t, Never)
     \/ /\ conn[t] \in build[call[t].build].ok
        /\ call' = [call EXCEPT ![t].pc = "reading", ![t].read = catalogGeneration]
        /\ UNCHANGED inflight
  /\ UNCHANGED <<generation, buildVars, catalogGeneration, catalogs, lastDrop, engineVars, settings, conn,
                 resetVars, events>>

(* gen === this.generation && catalogGen === this.catalogGeneration.       *)
MayCache(t) == call[t].gen = generation /\ call[t].catalogGen = catalogGeneration

ReadSucceeds(t) ==
  /\ call[t].pc = "reading"
  /\ catalogs' = IF MayCache(t) THEN [catalogs EXCEPT ![conn[t]] = call[t].read] ELSE catalogs
  /\ EndRead(t, call[t].read)
  /\ UNCHANGED <<generation, buildVars, catalogGeneration, lastDrop, engineVars, settings, conn, resetVars,
                 events>>

(* connect() or introspect() throws or is out of time.                     *)
ReadFails(t) ==
  /\ call[t].pc = "reading"
  /\ EndRead(t, Never)
  /\ UNCHANGED <<generation, buildVars, catalogGeneration, catalogs, lastDrop, engineVars, settings, conn,
                 resetVars, events>>

-----------------------------------------------------------------------------
(* engineFor, mongoEngineFor, explain                                      *)

(* One try: the cached engine, or the generation and the connectors.  A    *)
(* retry follows the failed test without an await; a reset() between the   *)
(* two would be one before the test.                                       *)
EngineFor(t) ==
  /\ call[t].pc \in {"idle", "retry"}
  /\ LET c == conn[t]
         locals == IF call[t].pc = "idle" THEN [NewCall EXCEPT !.op = "engine"] ELSE call[t]
     IN  \/ /\ locals.attempt = ATTEMPTS
            /\ call' = [call EXCEPT ![t] = Ended(t, Never)]
            /\ UNCHANGED <<promise, build, nbuilds>>
         \/ /\ locals.attempt < ATTEMPTS /\ engines[KeyOf(c)] # NoBuild
            /\ call' = [call EXCEPT ![t] = Ended(t, Never)]
            /\ UNCHANGED <<promise, build, nbuilds>>
         \/ /\ locals.attempt < ATTEMPTS /\ engines[KeyOf(c)] = NoBuild
            /\ \E b \in Builds :
                 /\ Shared(PathOf(c), b)
                 /\ call' = [call EXCEPT ![t] = [locals EXCEPT
                      !.pc = "connectors", !.gen = generation, !.build = b]]
  /\ UNCHANGED <<generation, failures, handles, openFiles, logins, catalogVars, engineVars, settings, conn,
                 resetVars, events>>

Explain(t) ==
  /\ call[t].pc = "idle" /\ conn[t] \notin Mongo
  /\ \E b \in Builds :
       /\ Shared("sql", b)
       /\ call' = [call EXCEPT ![t] = [NewCall EXCEPT !.pc = "connectors", !.op = "explain", !.build = b]]
  /\ UNCHANGED <<generation, failures, handles, openFiles, logins, catalogVars, engineVars, settings, conn,
                 resetVars, events>>

(* The engine wants the whole SQL set, MongoDB's the one connector; the    *)
(* plan is the guard's verdict and one statement.                          *)
EngineConnectors(t) ==
  /\ call[t].pc = "connectors" /\ call[t].op \in {"engine", "explain"} /\ Settled(call[t].build)
  /\ LET fails == IF call[t].op = "engine" /\ conn[t] \notin Mongo THEN Rejected(call[t].build)
                                            ELSE conn[t] \notin build[call[t].build].ok
     IN  call' = [call EXCEPT ![t] = IF fails \/ call[t].op = "explain" THEN Ended(t, Never)
                                                                       ELSE [@ EXCEPT !.pc = "model"]]
  /\ UNCHANGED <<generation, buildVars, catalogVars, engineVars, settings, conn, resetVars, events>>

(* Mutant: the engine is cached whatever happened during the awaits.       *)
StillCurrentAlways(t) == TRUE

(* gen !== this.generation, once the model is resolved.                    *)
StillCurrent(t) == call[t].gen = generation

ModelResolves(t) ==
  /\ call[t].pc = "model"
  /\ \/ /\ ~StillCurrent(t)
        /\ call' = [call EXCEPT ![t].pc = "retry", ![t].attempt = @ + 1]
        /\ UNCHANGED engineVars
     \/ /\ StillCurrent(t)
        /\ engines' = [engines EXCEPT ![KeyOf(conn[t])] = call[t].build]
        /\ call' = [call EXCEPT ![t] = Ended(t, Never)]
  /\ UNCHANGED <<generation, buildVars, catalogVars, settings, conn, resetVars, events>>

(* configuredModel: no model chosen, no key, or the chat model is gone.    *)
ModelFails(t) ==
  /\ call[t].pc = "model"
  /\ call' = [call EXCEPT ![t] = Ended(t, Never)]
  /\ UNCHANGED <<generation, buildVars, catalogVars, engineVars, settings, conn, resetVars, events>>

-----------------------------------------------------------------------------
(* invalidateCatalogs and reset                                            *)

(* Engines keep a catalog of their own, so they go too.                    *)
Invalidate(cs) ==
  /\ catalogGeneration' = catalogGeneration + 1
  /\ catalogs' = [c \in Conns |-> IF c \in cs THEN Never ELSE catalogs[c]]
  /\ inflight' = [c \in Conns |-> IF c \in cs THEN NoCall ELSE inflight[c]]
  /\ lastDrop' = [c \in Conns |-> IF c \in cs THEN catalogGeneration + 1 ELSE lastDrop[c]]
  /\ engines' = [k \in Keys |-> IF k = "sql" \/ k \in cs THEN NoBuild ELSE engines[k]]

Refresh(cs) ==
  /\ events < MaxEvents /\ events' = events + 1
  /\ Invalidate(cs)
  /\ UNCHANGED <<generation, buildVars, settings, callVars, resetVars>>

(* The synchronous part of reset(): everything is dropped at once, and     *)
(* what has to be closed is kept.                                          *)
StartReset(r) ==
  /\ rpc[r] = "idle" /\ events < MaxEvents /\ events' = events + 1
  /\ generation' = generation + 1 /\ catalogGeneration' = catalogGeneration + 1
  /\ held' = [held EXCEPT ![r] = [sql |-> promise["sql"], mongo |-> promise["mongo"], files |-> handles]]
  /\ promise' = [p \in Paths |-> NoBuild]
  /\ engines' = [k \in Keys |-> NoBuild]
  /\ catalogs' = [c \in Conns |-> Never] /\ inflight' = [c \in Conns |-> NoCall]
  /\ lastDrop' = [c \in Conns |-> catalogGeneration + 1]
  /\ failures' = [c \in Conns |-> Never] /\ handles' = {}
  /\ rpc' = [rpc EXCEPT ![r] = "sql"]
  /\ UNCHANGED <<build, nbuilds, openFiles, logins, callVars, closed>>

(* onDidChangeConfiguration: the provider, the model, maxRows, sampling.   *)
HeavySettingChanges(r) == StartReset(r) /\ UNCHANGED settings

(* onDidChangeConfiguration: a connection is edited, or another of its id  *)
(* is defined by the workspace, which goes first.                          *)
EditConnection(r, c, e) ==
  /\ StartReset(r)
  /\ e # endpoint[c] /\ endpoint' = [endpoint EXCEPT ![c] = e]
  /\ UNCHANGED secret

(* secrets.onDidChange, after setConnectionPassword in this window or in   *)
(* another: the password typed for the endpoint shown, or deleted.         *)
SecretChanges(r, c) ==
  /\ StartReset(r)
  /\ \E s \in {endpoint[c], "none"} : secret' = [secret EXCEPT ![c] = s]
  /\ UNCHANGED endpoint

(* await pending: its connectors are closed, and a failed build has none.  *)
CloseHeld(r, p) ==
  /\ rpc[r] = p /\ Settled(held[r][p])
  /\ closed' = closed \cup ({held[r][p]} \ {NoBuild})
  /\ rpc' = [rpc EXCEPT ![r] = IF p = "sql" THEN "mongo" ELSE "files"]
  /\ UNCHANGED <<generation, buildVars, catalogVars, engineVars, settings, callVars, held, events>>

(* The files are closed, and the event handler refreshes the tree.      *)
CloseFiles(r) ==
  /\ rpc[r] = "files"
  /\ openFiles' = openFiles \ held[r].files
  /\ held' = [held EXCEPT ![r] = NoHeld]
  /\ rpc' = [rpc EXCEPT ![r] = "done"]
  /\ Invalidate(Conns)
  /\ UNCHANGED <<generation, promise, build, nbuilds, failures, handles, logins, settings,
                 callVars, closed, events>>

BuildStep(b, c) == BuildFails(b, c) \/ OpensFile(b, c) \/ BuildsServer(b, c)

CallStep(t) ==
  \/ ReadConnectors(t) \/ ReadSucceeds(t) \/ ReadFails(t)
  \/ (call[t].pc = "retry" /\ EngineFor(t)) \/ EngineConnectors(t) \/ ModelResolves(t) \/ ModelFails(t)

ResetStep(r) == (\E p \in Paths : CloseHeld(r, p)) \/ CloseFiles(r)

ManagerNext ==
  \/ \E b \in Builds, c \in Conns : BuildStep(b, c)
  \/ \E t \in Calls : StartCatalog(t) \/ TestConnection(t) \/ EngineFor(t) \/ Explain(t) \/ CallStep(t)
  \/ \E c \in Conns : Refresh({c})
  \/ Refresh(Conns)
  \/ \E r \in Resets : HeavySettingChanges(r) \/ ResetStep(r)
  \/ \E r \in Resets, c \in Servers :
       SecretChanges(r, c) \/ \E e \in {"home", "elsewhere"} : EditConnection(r, c, e)

-----------------------------------------------------------------------------
(* A cached engine is made of the connectors of the current settings, and  *)
(* no reset() has closed or is about to close them: the engine whose       *)
(* connectors or model were awaited across a reset is not kept.            *)
EnginesLive ==
  \A k \in Keys : engines[k] # NoBuild =>
    /\ engines[k] = promise[build[engines[k]].path]
    /\ engines[k] \notin closed
    /\ \A r \in Resets, p \in Paths : held[r][p] # engines[k]

(* Whoever asks for a catalog after a refresh, a test or a reset gets one  *)
(* that was read after it, be it from the cache, from another call's read  *)
(* or from its own.                                                        *)
FreshCatalog ==
  /\ \A c \in Conns : catalogs[c] # Never => catalogs[c] >= lastDrop[c]
  /\ \A t \in Calls : call[t].pc = "done" /\ call[t].read # Never => call[t].read >= call[t].since

(* An open SQLite file is on the list of the current generation, or on the *)
(* one of the reset() that is about to close it: no descriptor outlives    *)
(* the settings it was opened for.                                         *)
FilesOwned ==
  \A f \in openFiles :
    \/ f \in handles /\ build[f[1]].gen = generation
    \/ \E r \in Resets : f \in held[r].files

(* Nothing made for old settings or before a refresh is kept or served:    *)
(* engines, open files and catalogs alike (reset, engineFor, catalog).     *)
NothingStale == EnginesLive /\ FilesOwned /\ FreshCatalog

(* A password goes to the endpoint it was saved for, and a connection      *)
(* string to the scope, whatever the settings and the keychain became      *)
(* while the connector was being built.                                    *)
SecretStaysHome == \A l \in logins : l[1] = l[2]

ManagerSpec == ManagerInit /\ [][ManagerNext]_managerVars

-----------------------------------------------------------------------------
(* The strengthening the proofs induct on.                                 *)
ManagerCall ==
  [pc : {"idle", "connectors", "reading", "joined", "model", "retry", "done"},
   op : {"catalog", "test", "engine", "explain"}, gen : Nat, catalogGen : Nat,
   build : Builds \cup {NoBuild}, attempt : Nat, on : Calls \cup {NoCall},
   read : Nat \cup {Never}, since : Nat]

ManagerBuild ==
  [path : Paths, gen : Nat, at : [Servers -> {"home", "elsewhere"}],
   opening : SUBSET Conns, ok : SUBSET Conns]

FileSets == SUBSET (Builds \X Conns)

ManagerHeld ==
  [sql : Builds \cup {NoBuild}, mongo : Builds \cup {NoBuild}, files : FileSets]

ManagerTypeOK ==
  /\ generation \in Nat /\ catalogGeneration \in Nat /\ nbuilds \in 0 .. MaxBuilds
  /\ promise \in [Paths -> Builds \cup {NoBuild}] /\ build \in [Builds -> ManagerBuild]
  /\ handles \in FileSets /\ openFiles \in FileSets
  /\ engines \in [Keys -> Builds \cup {NoBuild}]
  /\ catalogs \in [Conns -> Nat \cup {Never}] /\ inflight \in [Conns -> Calls \cup {NoCall}]
  /\ lastDrop \in [Conns -> Nat] /\ endpoint \in [Servers -> {"home", "elsewhere"}]
  /\ call \in [Calls -> ManagerCall] /\ conn \in [Calls -> Conns]
  /\ rpc \in [Resets -> {"idle", "sql", "mongo", "files", "done"}]
  /\ held \in [Resets -> ManagerHeld] /\ closed \subseteq Builds

(* A build that was promised is of that path, and no reset() has it.  One  *)
(* not made yet is nowhere.                                                *)
BuildInv ==
  /\ \A p \in Paths : promise[p] # NoBuild =>
       /\ promise[p] <= nbuilds /\ build[promise[p]].path = p
       /\ promise[p] \notin closed /\ \A r \in Resets, q \in Paths : held[r][q] # promise[p]
  /\ \A b \in closed : b <= nbuilds
  /\ \A r \in Resets, q \in Paths : held[r][q] <= nbuilds
  /\ \A b \in Builds : build[b].opening # {} => b <= nbuilds
  /\ \A t \in Calls : call[t].build <= nbuilds

(* An engine is made of connectors that are all there and still promised.  *)
EngineInv ==
  \A k \in Keys : engines[k] # NoBuild =>
    /\ engines[k] = promise[build[engines[k]].path] /\ build[engines[k]].opening = {}

(* engineFor of a generation that is not over awaits the connectors of its *)
(* path that are promised, or a set that was rejected since.               *)
AttemptInv ==
  \A t \in Calls :
    /\ call[t].gen <= generation
    /\ call[t].pc \in {"model", "retry"} => call[t].op = "engine"
    /\ call[t].op = "engine" /\ call[t].pc \in {"connectors", "model"} =>
         /\ call[t].build # NoBuild /\ build[call[t].build].path = PathOf(conn[t])
         /\ call[t].pc = "model" => build[call[t].build].opening = {}
         /\ call[t].gen = generation =>
              \/ promise[PathOf(conn[t])] = call[t].build
              \/ /\ call[t].pc = "connectors"
                 /\ build[call[t].build].opening = {} /\ Rejected(call[t].build)

(* A reset() that has not begun holds nothing, and a file was opened by a  *)
(* build that was made.                                                    *)
FileInv ==
  /\ \A r \in Resets : rpc[r] = "idle" => held[r].files = {}
  /\ \A f \in openFiles : f[1] <= nbuilds
  /\ FilesOwned

Reader(t) == call[t].pc \in {"connectors", "reading"} /\ call[t].op \in {"catalog", "test"}

(* The read others may join began after the last drop; a read begins after *)
(* whoever waits for it asked, and brings what is no older.                *)
CatalogInv ==
  /\ \A c \in Conns :
       /\ lastDrop[c] <= catalogGeneration
       /\ catalogs[c] # Never => catalogs[c] >= lastDrop[c]
       /\ inflight[c] # NoCall =>
            /\ Reader(inflight[c]) /\ conn[inflight[c]] = c
            /\ call[inflight[c]].catalogGen >= lastDrop[c]
  /\ \A t \in Calls :
       /\ Reader(t) => call[t].since <= call[t].catalogGen /\ call[t].catalogGen <= catalogGeneration
       /\ call[t].pc = "reading" =>
            Reader(t) /\ call[t].read # Never /\ call[t].read >= call[t].catalogGen
       /\ call[t].pc = "joined" =>
            /\ call[t].on \in Calls /\ Reader(call[t].on)
            /\ call[call[t].on].catalogGen >= call[t].since
       /\ call[t].pc = "done" /\ call[t].read # Never => call[t].read >= call[t].since

ManagerInv == ManagerTypeOK /\ BuildInv /\ EngineInv /\ AttemptInv /\ FileInv /\ CatalogInv
=============================================================================
