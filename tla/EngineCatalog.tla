---------------------------- MODULE EngineCatalog ----------------------------
(***************************************************************************)
(* The connection and schema-catalog half of createAskSql (packages/core/  *)
(* src/engine.ts): ensureConnected, getCatalog and the staleness re-read   *)
(* that ask() makes, run by any number of concurrent async callers.        *)
(*                                                                         *)
(* Every Map of the engine is keyed by connection id and no operation      *)
(* touches two keys, so the module describes one connection.  JavaScript   *)
(* runs to completion between awaits: one action is the code between two   *)
(* awaits.  A catalog is abstracted to the version of the database schema  *)
(* that its introspection observed; versions start at 1 and 0 is "none".   *)
(***************************************************************************)
EXTENDS Naturals, FiniteSets

CONSTANTS
  Callers,                 \* concurrent callers of catalog() and ask()
  None,                    \* "no promise"
  CATALOG_TTL,             \* lifetime of a cached catalog
  WARNED_CATALOG_TTL,      \* lifetime of one whose introspection had warnings
  STALE_REFRESH_COOLDOWN,  \* window of the staleness re-read
  MaxTime,                 \* bound on the clock
  MaxVersion,              \* bound on schema changes
  MaxGeneration            \* bound on forced re-reads

ASSUME EngineCatalogAssumption ==
  /\ None \notin Callers
  /\ CATALOG_TTL \in Nat /\ WARNED_CATALOG_TTL \in Nat
  /\ STALE_REFRESH_COOLDOWN \in Nat \ {0}
  /\ MaxTime \in Nat /\ MaxVersion \in Nat /\ MaxGeneration \in Nat

VARIABLES
  now,            \* Date.now()
  dbVersion,      \* the schema the database has now
  connected,      \* connected.has(id)
  connecting,     \* connecting.has(id): a shared pending connect
  dialing,        \* conn.connect() calls under way
  pools,          \* conn.connect() calls that succeeded
  cache,          \* catalogCache.get(id); v = 0 when absent
  inflight,       \* inflight.get(id): the caller whose promise it is
  generation,     \* catalogGeneration.get(id) ?? 0
  staleRefreshAt, \* staleRefreshAt.get(id) ?? 0
  staleReads,     \* staleness re-reads made so far
  pc,             \* where each caller is suspended
  kind,           \* the operation it runs: catalog() or ask()
  refresh,        \* the refresh argument of its current getCatalog
  floor,          \* the schema version when that getCatalog was called
  waits,          \* the caller whose introspection promise it awaits
  read,           \* the state of the introspection it started
  gen,            \* the generation that introspection belongs to
  seen,           \* the version that introspection observed
  held            \* the catalog it has been given; 0 when none

connVars  == <<connected, connecting, dialing, pools>>
cacheVars == <<cache, inflight, generation>>
staleVars == <<staleRefreshAt, staleReads>>
readVars  == <<read, gen, seen>>
callVars  == <<pc, kind, refresh, floor, waits, held>>
vars == <<now, dbVersion, connVars, cacheVars, staleVars, readVars, callVars>>

Settled == {"idle", "done", "failed"}
PCs == Settled \cup {"connect", "check", "read", "decide"}

-----------------------------------------------------------------------------
(* `staleRefreshAt.get(id) ?? 0` is compared with Date.now(), which is far *)
(* past the cooldown: the clock starts one window after 0.                 *)
Init ==
  /\ now = STALE_REFRESH_COOLDOWN /\ dbVersion = 1
  /\ connected = FALSE /\ connecting = FALSE /\ dialing = 0 /\ pools = 0
  /\ cache = [v |-> 0, at |-> 0, ttl |-> 0]
  /\ inflight = None /\ generation = 0
  /\ staleRefreshAt = 0 /\ staleReads = 0
  /\ pc = [c \in Callers |-> "idle"]
  /\ kind = [c \in Callers |-> "catalog"]
  /\ refresh = [c \in Callers |-> FALSE]
  /\ floor = [c \in Callers |-> 0]
  /\ waits = [c \in Callers |-> None]
  /\ read = [c \in Callers |-> "none"]
  /\ gen = [c \in Callers |-> 0]
  /\ seen = [c \in Callers |-> 0]
  /\ held = [c \in Callers |-> 0]

(* Mutant: every caller that finds no pool dials, without sharing.         *)
DialUnshared(c) ==
  /\ pc' = [pc EXCEPT ![c] = IF connected THEN "check" ELSE "connect"]
  /\ connecting' = ~connected
  /\ dialing' = IF connected THEN dialing ELSE dialing + 1
  /\ UNCHANGED <<connected, pools>>

(* ensureConnected: return at once, join the pending connect, or dial.     *)
EnsureConnected(c) ==
  \/ /\ connected
     /\ pc' = [pc EXCEPT ![c] = "check"]
     /\ UNCHANGED connVars
  \/ /\ ~connected
     /\ pc' = [pc EXCEPT ![c] = "connect"]
     /\ connecting' = TRUE
     /\ dialing' = IF connecting THEN dialing ELSE dialing + 1
     /\ UNCHANGED <<connected, pools>>

(* Bound: the generation, with the re-reads that are about to raise it.    *)
RefreshBudget ==
  generation + Cardinality({c \in Callers : refresh[c] /\ pc[c] \in {"connect", "check"}})
    < MaxGeneration

(* catalog(id, {refresh}) or ask(), up to the first await.                 *)
Call(c, k, r) ==
  /\ pc[c] \in Settled
  /\ k = "ask" => ~r
  /\ r => RefreshBudget
  /\ EnsureConnected(c)
  /\ kind' = [kind EXCEPT ![c] = k]
  /\ refresh' = [refresh EXCEPT ![c] = r]
  /\ floor' = [floor EXCEPT ![c] = dbVersion]
  /\ held' = [held EXCEPT ![c] = 0]
  /\ UNCHANGED <<now, dbVersion, cacheVars, staleVars, readVars, waits>>

(* conn.connect() settles: everyone awaiting the shared promise resumes.   *)
ConnectSettles(ok) ==
  /\ dialing > 0
  /\ dialing' = dialing - 1
  /\ connecting' = FALSE
  /\ connected' = (connected \/ ok)
  /\ pools' = IF ok THEN pools + 1 ELSE pools
  /\ pc' = [c \in Callers |-> IF pc[c] # "connect" THEN pc[c]
                              ELSE IF ok THEN "check" ELSE "failed"]
  /\ UNCHANGED <<now, dbVersion, cacheVars, staleVars, readVars,
                 kind, refresh, floor, waits, held>>

-----------------------------------------------------------------------------
(* What a caller does with the catalog getCatalog gave it: ask() goes on   *)
(* to its staleness test after the first one.                              *)
AfterCatalog(c) == IF kind[c] = "ask" /\ ~refresh[c] THEN "decide" ELSE "done"

(* A failed re-read of ask() falls back to the catalog it holds.           *)
AfterFailure(c) == IF kind[c] = "ask" /\ refresh[c] THEN "done" ELSE "failed"

CacheValid == cache.v # 0 /\ now - cache.at < cache.ttl

CatalogFromCache(c) ==
  /\ pc[c] = "check" /\ ~refresh[c] /\ CacheValid
  /\ pc' = [pc EXCEPT ![c] = AfterCatalog(c)]
  /\ held' = [held EXCEPT ![c] = cache.v]
  /\ UNCHANGED <<now, dbVersion, connVars, cacheVars, staleVars, readVars,
                 kind, refresh, floor, waits>>

(* Mutant: a refresh joins the read that is already running.               *)
RefreshJoins(c) ==
  /\ pc[c] = "check" /\ (refresh[c] \/ ~CacheValid) /\ inflight # None
  /\ pc' = [pc EXCEPT ![c] = "read"]
  /\ waits' = [waits EXCEPT ![c] = inflight]
  /\ UNCHANGED <<now, dbVersion, connVars, cacheVars, staleVars, readVars,
                 kind, refresh, floor, held>>

JoinInflight(c) ==
  /\ pc[c] = "check" /\ ~refresh[c] /\ ~CacheValid /\ inflight # None
  /\ pc' = [pc EXCEPT ![c] = "read"]
  /\ waits' = [waits EXCEPT ![c] = inflight]
  /\ UNCHANGED <<now, dbVersion, connVars, cacheVars, staleVars, readVars,
                 kind, refresh, floor, held>>

StartRead(c) ==
  /\ pc[c] = "check"
  /\ refresh[c] \/ (~CacheValid /\ inflight = None)
  /\ generation' = IF refresh[c] THEN generation + 1 ELSE generation
  /\ inflight' = c
  /\ read' = [read EXCEPT ![c] = "running"]
  /\ gen' = [gen EXCEPT ![c] = generation']
  /\ pc' = [pc EXCEPT ![c] = "read"]
  /\ waits' = [waits EXCEPT ![c] = c]
  /\ UNCHANGED <<now, dbVersion, connVars, cache, staleVars, seen,
                 kind, refresh, floor, held>>

(* The moment at which the queries of conn.introspect() see the schema.    *)
Observe(c) ==
  /\ read[c] = "running"
  /\ read' = [read EXCEPT ![c] = "observed"]
  /\ seen' = [seen EXCEPT ![c] = dbVersion]
  /\ UNCHANGED <<now, dbVersion, connVars, cacheVars, staleVars, gen, callVars>>

(* Mutant of the finally block: delete whatever is there.                  *)
ClearAnyInflight(c) == inflight' = None

(* The finally block: delete by identity.                                  *)
ClearInflight(c) == inflight' = IF inflight = c THEN None ELSE inflight

(* Mutant: whatever read finishes last wins.                               *)
WriteCacheAlways(c, warned) ==
  cache' = [v |-> seen[c], at |-> now,
            ttl |-> IF warned THEN WARNED_CATALOG_TTL ELSE CATALOG_TTL]

(* Only a read of the current generation may write the cache.              *)
WriteCache(c, warned) ==
  cache' = IF gen[c] # generation THEN cache
           ELSE [v |-> seen[c], at |-> now,
                 ttl |-> IF warned THEN WARNED_CATALOG_TTL ELSE CATALOG_TTL]

(* Mutant: waiters are found through the map, not through the promise.     *)
WokenThroughMap(c) == IF inflight = c THEN {w \in Callers : waits[w] = c} ELSE {}

(* Everyone awaiting the promise of c's read.                              *)
Woken(c) == {w \in Callers : waits[w] = c}

ReadSucceeds(c, warned) ==
  /\ read[c] = "observed"
  /\ read' = [read EXCEPT ![c] = "none"]
  /\ WriteCache(c, warned)
  /\ ClearInflight(c)
  /\ pc' = [w \in Callers |-> IF w \in Woken(c) THEN AfterCatalog(w) ELSE pc[w]]
  /\ held' = [w \in Callers |-> IF w \in Woken(c) THEN seen[c] ELSE held[w]]
  /\ waits' = [w \in Callers |-> IF w \in Woken(c) THEN None ELSE waits[w]]
  /\ gen' = [gen EXCEPT ![c] = 0] /\ seen' = [seen EXCEPT ![c] = 0]
  /\ UNCHANGED <<now, dbVersion, connVars, generation, staleVars,
                 kind, refresh, floor>>

(* introspect() rejects, or returns no table and some warnings.            *)
ReadFails(c) ==
  /\ read[c] # "none"
  /\ read' = [read EXCEPT ![c] = "none"]
  /\ ClearInflight(c)
  /\ pc' = [w \in Callers |-> IF w \in Woken(c) THEN AfterFailure(w) ELSE pc[w]]
  /\ waits' = [w \in Callers |-> IF w \in Woken(c) THEN None ELSE waits[w]]
  /\ gen' = [gen EXCEPT ![c] = 0] /\ seen' = [seen EXCEPT ![c] = 0]
  /\ UNCHANGED <<now, dbVersion, connVars, cache, generation, staleVars,
                 kind, refresh, floor, held>>

-----------------------------------------------------------------------------
MayRefreshForStaleness == now - staleRefreshAt >= STALE_REFRESH_COOLDOWN

(* ask(): the question names something in the catalog, or the cooldown     *)
(* forbids another re-read.                                                *)
AskKeepsCatalog(c) ==
  /\ pc[c] = "decide"
  /\ pc' = [pc EXCEPT ![c] = "done"]
  /\ UNCHANGED <<now, dbVersion, connVars, cacheVars, staleVars, readVars,
                 kind, refresh, floor, waits, held>>

(* ask(): it names nothing, so the catalog may be stale: getCatalog(true). *)
AskRefreshes(c) ==
  /\ pc[c] = "decide"
  /\ MayRefreshForStaleness
  /\ RefreshBudget
  /\ staleRefreshAt' = now
  /\ staleReads' = staleReads + 1
  /\ EnsureConnected(c)
  /\ refresh' = [refresh EXCEPT ![c] = TRUE]
  /\ floor' = [floor EXCEPT ![c] = dbVersion]
  /\ UNCHANGED <<now, dbVersion, cacheVars, readVars, kind, waits, held>>

-----------------------------------------------------------------------------
Tick ==
  /\ now < MaxTime
  /\ now' = now + 1
  /\ UNCHANGED <<dbVersion, connVars, cacheVars, staleVars, readVars, callVars>>

SchemaChanges ==
  /\ dbVersion < MaxVersion
  /\ dbVersion' = dbVersion + 1
  /\ UNCHANGED <<now, connVars, cacheVars, staleVars, readVars, callVars>>

(* A step of the engine or of the driver it awaits, on behalf of c.        *)
Progress(c) ==
  \/ CatalogFromCache(c) \/ JoinInflight(c) \/ StartRead(c)
  \/ Observe(c) \/ (\E w \in BOOLEAN : ReadSucceeds(c, w)) \/ ReadFails(c)
  \/ AskKeepsCatalog(c) \/ AskRefreshes(c)

Connects == \E ok \in BOOLEAN : ConnectSettles(ok)

Next ==
  \/ \E c \in Callers, k \in {"catalog", "ask"}, r \in BOOLEAN : Call(c, k, r)
  \/ Connects
  \/ \E c \in Callers : Progress(c)
  \/ Tick
  \/ SchemaChanges

(* The event loop runs every ready continuation, and drivers settle their  *)
(* promises: connect and introspection are bounded by driver timeouts.     *)
Fairness == WF_vars(Connects) /\ \A c \in Callers : WF_vars(Progress(c))

SafeSpec == Init /\ [][Next]_vars

Spec == SafeSpec /\ Fairness
-----------------------------------------------------------------------------
(* The state of the engine's maps and of the suspended calls.              *)
TypeOK ==
  /\ now \in Nat /\ dbVersion \in Nat
  /\ connected \in BOOLEAN /\ connecting \in BOOLEAN
  /\ dialing \in Nat /\ pools \in Nat
  /\ cache \in [v : Nat, at : Nat, ttl : Nat]
  /\ inflight \in Callers \cup {None}
  /\ generation \in Nat
  /\ staleRefreshAt \in Nat /\ staleReads \in Nat
  /\ pc \in [Callers -> PCs]
  /\ kind \in [Callers -> {"catalog", "ask"}]
  /\ refresh \in [Callers -> BOOLEAN]
  /\ floor \in [Callers -> Nat]
  /\ waits \in [Callers -> Callers \cup {None}]
  /\ read \in [Callers -> {"none", "running", "observed"}]
  /\ gen \in [Callers -> Nat]
  /\ seen \in [Callers -> Nat]
  /\ held \in [Callers -> Nat]

(* ensureConnected: however many first operations race, and however often  *)
(* a connect fails and is retried, one pool is built and none is orphaned. *)
OnePool == pools + dialing <= 1

(* getCatalog's finally deletes by identity: the inflight entry is always  *)
(* a read that is still running, so nobody joins a promise that settled    *)
(* before they asked, and a refresh that replaced it is not orphaned.      *)
InflightIsRunning == inflight # None => read[inflight] # "none"

(* Dedup: two introspections of one generation never run at once, so a     *)
(* burst of callers costs one read however many refreshes are forced.      *)
OneReadPerGeneration ==
  \A c, d \in Callers :
    read[c] # "none" /\ read[d] # "none" /\ gen[c] = gen[d] => c = d

(* Racing callers share the work: one connect and one read of a generation *)
(* serve them all.                                                         *)
WorkIsShared == OnePool /\ OneReadPerGeneration

(* "At most one staleness-driven re-read per connection in this window":   *)
(* the re-reads ask() forced never outnumber the windows that have passed. *)
StaleReadsAreRare == staleReads * STALE_REFRESH_COOLDOWN <= now

(* A read that started before a refresh may finish after it, but the cache *)
(* never goes back to an older schema than one it has served.              *)
CacheNeverRegresses == [][cache'.v >= cache.v]_vars

(* catalog(id, {refresh: true}) never answers with a schema older than the *)
(* database had when it was called, whatever reads were already running.   *)
RefreshIsFresh ==
  \A c \in Callers :
    pc[c] = "done" /\ kind[c] = "catalog" /\ refresh[c] => held[c] >= floor[c]

(* Nobody is served a schema the database never had, and ask() goes on to  *)
(* generate SQL only with a catalog in hand, its failed re-read included.  *)
AnswersAreReal ==
  \A c \in Callers : pc[c] \in {"done", "decide"} => held[c] \in 1 .. dbVersion

(* Every catalog() and ask() settles: callers that joined a shared connect *)
(* or a shared read are woken even when a refresh replaced that read.      *)
CallsSettle == \A c \in Callers : (pc[c] \notin Settled) ~> (pc[c] \in Settled)
-----------------------------------------------------------------------------
(* The strengthening the proofs induct on, in parts.                       *)

(* One connect at a time, none after one succeeded.                        *)
ConnInv ==
  /\ dialing = IF connecting THEN 1 ELSE 0
  /\ pools = IF connected THEN 1 ELSE 0
  /\ ~(connecting /\ connected)

(* A read is awaited by the caller that started it, belongs to the present *)
(* or a past generation, and is the inflight entry iff it is of the present*)
(* one; a caller that forces a refresh awaits its own read; only ask()     *)
(* tests for staleness.                                                    *)
ReadInv ==
  /\ \A c \in Callers : read[c] # "none" => waits[c] = c /\ gen[c] <= generation
  /\ \A c \in Callers : waits[c] # None => pc[c] = "read" /\ read[waits[c]] # "none"
  /\ \A c \in Callers : pc[c] = "read" /\ refresh[c] => waits[c] = c
  /\ \A c \in Callers : pc[c] = "decide" => kind[c] = "ask"
  /\ \A c \in Callers : inflight = c <=> read[c] # "none" /\ gen[c] = generation

(* What is cached, observed or held is a schema the database had; a read   *)
(* that may still write the cache observed one no older than the cache's,  *)
(* and a refresh observes one no older than its call.                      *)
VersionInv ==
  /\ dbVersion >= 1
  /\ cache.v <= dbVersion
  /\ \A c \in Callers :
       /\ floor[c] <= dbVersion
       /\ read[c] = "observed" =>
            /\ seen[c] \in 1 .. dbVersion
            /\ gen[c] = generation => cache.v <= seen[c]
            /\ refresh[c] => floor[c] <= seen[c]
       /\ pc[c] \in {"done", "decide"} \/ (kind[c] = "ask" /\ refresh[c]) =>
            held[c] \in 1 .. dbVersion

StaleInv ==
  /\ staleReads * STALE_REFRESH_COOLDOWN <= staleRefreshAt
  /\ staleRefreshAt <= now

(* The inductive invariant: the coupling between the engine's maps and the *)
(* promises its callers await, from which the properties above follow.     *)
CatalogInv ==
  ConnInv /\ ReadInv /\ OneReadPerGeneration /\ VersionInv /\ StaleInv /\ RefreshIsFresh

=============================================================================
