---------------------------- MODULE MongoEngine ----------------------------
(***************************************************************************)
(* createMongoAskSql (packages/core/src/mongo/engine.ts): the catalog it   *)
(* caches, ask() with its repair loop, and execute(), run by concurrent    *)
(* callers while the database changes and invalidateCatalog() is called.   *)
(* One action is the code between two awaits.                              *)
(*                                                                         *)
(* MongoDB names are case-sensitive: a collection is a pair of a word and  *)
(* a spelling of it.  A pipeline is what the code tests of it: the name it *)
(* is run on and the names it joins; which of its forms (rewritten by      *)
(* rewriteDistinctCount, or as written) the guard allows, and its flaw.    *)
(***************************************************************************)
EXTENDS Integers, FiniteSets, Sequences

CONSTANTS
  Words, Spelled,      \* a collection name is a word in a spelling
  Clients,             \* concurrent callers of ask() and execute()
  MONGO_MAX_REPAIRS,   \* MAX_REPAIRS
  MaxReads,            \* bound on introspections
  MaxInvalidations,    \* bound on invalidateCatalog() calls
  MaxChanges           \* bound on changes of the database

ASSUME MongoEngineAssumption ==
  /\ MONGO_MAX_REPAIRS \in Nat /\ MaxReads \in Nat
  /\ MaxInvalidations \in Nat /\ MaxChanges \in Nat

VARIABLES
  collections,   \* the collections the database has now
  changes,       \* changes of it so far
  cachedCatalog, \* `cached`: the read it came from (0: null), its names, in its ttl
  sharedRead,    \* `inflight`: the number of the read, 0 when null
  epoch,         \* `generation`
  reads,         \* introspections: the generation each began in and what it saw
  client,        \* where each caller is suspended, and what it holds
  loop,          \* the repair loop of each caller's ask()
  unsound        \* history: a pipeline was given out that is not what was asked for

mongoCache == <<cachedCatalog, sharedRead, epoch, reads>>
mongoVars == <<collections, changes, mongoCache, client, loop, unsound>>

Collections == Words \X Spelled
SameName(a, b) == a[1] = b[1]                     \* equal, case ignored
NotCached == [read |-> 0, began |-> 0, names |-> {}, fresh |-> FALSE]
Pipelines == [on : Collections, joins : {{}} \cup {{c} : c \in Collections}]
Judged == {{}, {"rewritten"}, {"written"}}        \* the forms the guard allows
PipelineFlaws == {"none", "noop", "misquoted", "field"}
IdleClient ==
  [at |-> "idle", does |-> "ask", since |-> 0, waits |-> 0, of |-> -1, names |-> {}]
AtEntry == [attempt |-> 0, shots |-> {}, calls |-> 0]

(* One call per attempt and one per kind of free retry.                    *)
MongoCallBudget == MONGO_MAX_REPAIRS + 1 + 2

MEngineInit ==
  /\ collections \in SUBSET Collections /\ changes = 0
  /\ cachedCatalog = NotCached /\ sharedRead = 0 /\ epoch = 0 /\ reads = <<>>
  /\ client = [c \in Clients |-> IdleClient]
  /\ loop = [c \in Clients |-> AtEntry] /\ unsound = FALSE

-----------------------------------------------------------------------------
(* Mutant: case is ignored though the exact name exists.                   *)
ResolveAnyCase(name, names) == {n \in names : SameName(n, name)}

(* resolveCollection: the exact name wins; otherwise a name that differs   *)
(* in case only.  Empty when there is none.                                *)
ResolveCollection(name, names) ==
  IF name \in names THEN {name} ELSE {n \in names : SameName(n, name)}

(* resolveJoinTargets, rewriteJoinTargets: every target or none.           *)
Unresolved(p, names) == {j \in p.joins : ResolveCollection(j, names) = {}}
RewriteJoinTargets(p, names) ==
  {js \in SUBSET names :
     /\ \A j \in p.joins : \E n \in js : n \in ResolveCollection(j, names)
     /\ Cardinality(js) = Cardinality(p.joins)}

(* The pipeline as it leaves: resolved against the names of a catalog.     *)
Resolved(p, names) ==
  {[on |-> n, joins |-> js] :
     n \in ResolveCollection(p.on, names), js \in RewriteJoinTargets(p, names)}

(* The rewritten form is judged first; a refused one falls back.           *)
PipelineAllowed(passes) == "rewritten" \in passes \/ "written" \in passes

-----------------------------------------------------------------------------
(* The call returns or throws: its caller may call again.                  *)
Over(c) == [client EXCEPT ![c] = IdleClient]

(* q is p as the catalog spells it: it reads, and joins, collections the   *)
(* catalog has, under the very names p gave when they exist.               *)
SameInCatalog(p, q, names) ==
  /\ q.on \in names /\ SameName(q.on, p.on)
  /\ p.on \in names => q.on = p.on
  /\ q.joins \subseteq names /\ p.joins \cap names \subseteq q.joins

GivesOut(c, p, q, clean) ==
  /\ client' = Over(c)
  /\ unsound' = (unsound \/ ~(clean /\ SameInCatalog(p, q, client[c].names)))

(* A caller that waits for a read, and one that has its catalog: ask()     *)
(* goes into its loop, execute() on to the connector.                      *)
WaitsFor(does, since, r) ==
  [at |-> "catalog", does |-> does, since |-> since, waits |-> r, of |-> -1, names |-> {}]
Given(does, since, began, names) ==
  [at |-> IF does = "ask" THEN "model" ELSE "ready", does |-> does, since |-> since,
   waits |-> 0, of |-> began, names |-> names]

(* The first call of a loop, one that consumes an attempt, a free one.     *)
FirstCall(l) == [l EXCEPT !.calls = 1]
Repaired(l) == [attempt |-> l.attempt + 1, shots |-> l.shots, calls |-> l.calls + 1]
Retried(l, name) ==
  [attempt |-> l.attempt, shots |-> l.shots \cup {name}, calls |-> l.calls + 1]

(* catalog(), up to its first await: the cached one, the read under way,   *)
(* or a read of one's own.                                                 *)
InTtl == cachedCatalog.read # 0 /\ cachedCatalog.fresh

Catalog(c, does) ==
  \/ /\ InTtl
     /\ client' = [client EXCEPT ![c] =
                     Given(does, epoch, cachedCatalog.began, cachedCatalog.names)]
     /\ loop' = [loop EXCEPT ![c] = IF does = "ask" THEN FirstCall(AtEntry) ELSE AtEntry]
     /\ UNCHANGED mongoCache
  \/ /\ ~InTtl /\ sharedRead # 0
     /\ client' = [client EXCEPT ![c] = WaitsFor(does, epoch, sharedRead)]
     /\ loop' = [loop EXCEPT ![c] = AtEntry]
     /\ UNCHANGED mongoCache
  \/ /\ ~InTtl /\ sharedRead = 0 /\ Len(reads) < MaxReads
     /\ reads' = Append(reads, [began |-> epoch, names |-> {}, warned |-> FALSE,
                                at |-> "connect"])
     /\ sharedRead' = Len(reads) + 1
     /\ client' = [client EXCEPT ![c] = WaitsFor(does, epoch, sharedRead')]
     /\ loop' = [loop EXCEPT ![c] = AtEntry]
     /\ UNCHANGED <<cachedCatalog, epoch>>

(* ask(): empty, long, capability, injection, write and schema questions   *)
(* are refused before the catalog is read.                                 *)
MongoAsk(c) ==
  /\ client[c].at = "idle"
  /\ \/ Catalog(c, "ask")
     \/ /\ client' = Over(c)
        /\ UNCHANGED <<mongoCache, loop>>
  /\ UNCHANGED <<collections, changes>>

(* execute(): guarded again, since it may have been edited, then resolved  *)
(* against the catalog of this moment.  What it holds is told at the step  *)
(* that first looks at it, Aggregate.                                      *)
MongoExecute(c, allowed) ==
  /\ client[c].at = "idle"
  /\ \/ allowed /\ Catalog(c, "execute")
     \/ /\ ~allowed
        /\ client' = Over(c)
        /\ UNCHANGED <<mongoCache, loop>>
  /\ UNCHANGED <<collections, changes>>

(* The read connects and introspects; with warnings what it saw is a part. *)
Introspect(r, names) ==
  /\ reads[r].at = "connect"
  /\ reads' = [reads EXCEPT ![r] = [began |-> reads[r].began, names |-> names,
                                    warned |-> names # collections, at |-> "read"]]
  /\ UNCHANGED <<collections, changes, cachedCatalog, sharedRead, epoch, client, loop>>

(* Mutant: a read caches whatever has happened since it began.             *)
MayCacheAlways(r) == TRUE

(* Only a read of the present generation may cache.                        *)
MayCacheRead(r) == reads[r].began = epoch

(* The read ends, well or not.  `finally` clears `inflight`, whichever     *)
(* read it holds by now.  Nothing readable, with warnings, is a failure.   *)
ReadEnds(r, ok) ==
  /\ reads[r].at = IF ok THEN "read" ELSE "connect"
  /\ LET good == ok /\ ~(reads[r].warned /\ reads[r].names = {})
         waiting == {c \in Clients : client[c].waits = r}
     IN  /\ reads' = [reads EXCEPT ![r] = [began |-> 0, names |-> {}, warned |-> FALSE,
                                          at |-> "ended"]]
         /\ sharedRead' = 0
         /\ cachedCatalog' =
              IF good /\ MayCacheRead(r)
              THEN [read |-> r, began |-> reads[r].began, names |-> reads[r].names, fresh |-> TRUE]
              ELSE cachedCatalog
         /\ client' = [c \in Clients |->
              IF c \notin waiting THEN client[c]
              ELSE IF good THEN Given(client[c].does, client[c].since, reads[r].began, reads[r].names)
              ELSE IdleClient]
         /\ loop' = [c \in Clients |->
              IF c \in waiting /\ good /\ client[c].does = "ask"
              THEN FirstCall(loop[c]) ELSE loop[c]]
  /\ UNCHANGED <<collections, changes, epoch>>

(* The ttl of the cached catalog passes.                                   *)
Expire ==
  /\ cachedCatalog.fresh
  /\ cachedCatalog' = [read |-> cachedCatalog.read, began |-> cachedCatalog.began,
                       names |-> cachedCatalog.names, fresh |-> FALSE]
  /\ UNCHANGED <<collections, changes, sharedRead, epoch, reads, client, loop>>

(* invalidateCatalog(): a read under way may not cache, and is not joined. *)
InvalidateCatalog ==
  /\ epoch < MaxInvalidations
  /\ epoch' = epoch + 1 /\ sharedRead' = 0 /\ cachedCatalog' = NotCached
  /\ UNCHANGED <<collections, changes, reads, client, loop>>

-----------------------------------------------------------------------------
Asking(c) == client[c].at = "model"

(* `continue` with a repair prompt, or the throw when attempts are out.    *)
RepairOrThrow(c) ==
  \/ /\ loop[c].attempt < MONGO_MAX_REPAIRS
     /\ loop' = [loop EXCEPT ![c] = Repaired(loop[c])]
     /\ UNCHANGED client
  \/ /\ loop[c].attempt >= MONGO_MAX_REPAIRS
     /\ client' = Over(c)
     /\ UNCHANGED loop

(* `attempt -= 1; continue`, once of each kind, else the throw.            *)
FreeRetry(c, name) ==
  \/ /\ name \notin loop[c].shots
     /\ loop' = [loop EXCEPT ![c] = Retried(loop[c], name)]
     /\ UNCHANGED client
  \/ /\ name \in loop[c].shots
     /\ client' = Over(c)
     /\ UNCHANGED loop

(* callModel rejects: a context overflow is tried once more with half the  *)
(* schema, anything else is the caller's.                                  *)
ModelFails(c, overflow) ==
  /\ Asking(c)
  /\ \/ overflow /\ FreeRetry(c, "shrink")
     \/ ~overflow /\ client' = Over(c) /\ UNCHANGED loop
  /\ UNCHANGED <<collections, changes, mongoCache>>

(* IMPOSSIBLE: one retry when a collection is named nearly so.             *)
ModelImpossible(c, near) ==
  /\ Asking(c)
  /\ \/ near /\ FreeRetry(c, "fuzzy")
     \/ ~near /\ client' = Over(c) /\ UNCHANGED loop
  /\ UNCHANGED <<collections, changes, mongoCache>>

(* No aggregate() call in the reply, which may be empty.                   *)
ModelNoPipeline(c) ==
  /\ Asking(c)
  /\ RepairOrThrow(c)
  /\ UNCHANGED <<collections, changes, mongoCache>>

(* The floors: a pipeline that answers nothing though the reply says so,   *)
(* one the guard refuses, an unknown collection, an unknown join target, a *)
(* path quoted as in SQL, a field no earlier stage produces.               *)
Floors(p, passes, flaw, names) ==
  /\ flaw # "noop"
  /\ PipelineAllowed(passes)
  /\ ResolveCollection(p.on, names) # {}
  /\ Unresolved(p, names) = {}
  /\ flaw # "misquoted"
  /\ flaw # "field"

ModelFlawed(c) ==
  /\ Asking(c)
  /\ \E p \in Pipelines, passes \in Judged, flaw \in PipelineFlaws :
       ~Floors(p, passes, flaw, client[c].names)
  /\ RepairOrThrow(c)
  /\ UNCHANGED <<collections, changes, mongoCache>>

(* ask() returns the pipeline with its names as the catalog spells them.   *)
ModelAnswers(c, p, passes, flaw) ==
  /\ Asking(c) /\ Floors(p, passes, flaw, client[c].names)
  /\ \E q \in Resolved(p, client[c].names) :
       GivesOut(c, p, q, flaw = "none" /\ passes # {})
  /\ UNCHANGED <<collections, changes, mongoCache, loop>>

-----------------------------------------------------------------------------
(* execute() with its catalog: unknown names are the caller's error, else  *)
(* the pipeline goes to the connector with its names resolved.             *)
Aggregate(c, p) ==
  LET names == client[c].names IN
  /\ client[c].at = "ready"
  /\ \/ /\ ResolveCollection(p.on, names) = {} \/ Unresolved(p, names) # {}
        /\ client' = Over(c) /\ UNCHANGED unsound
     \/ /\ ResolveCollection(p.on, names) # {} /\ Unresolved(p, names) = {}
        /\ \E q \in Resolved(p, names) :
             GivesOut(c, p, q, TRUE)
  /\ UNCHANGED <<collections, changes, mongoCache, loop>>

(* Collections come and go.                                                *)
DatabaseChanges ==
  /\ changes < MaxChanges
  /\ collections' \in SUBSET Collections \ {collections}
  /\ changes' = changes + 1
  /\ UNCHANGED <<mongoCache, client, loop>>

MongoModel(c) ==
  \/ \E b \in BOOLEAN : ModelFails(c, b) \/ ModelImpossible(c, b)
  \/ ModelNoPipeline(c)
  \/ ModelFlawed(c)

MongoRead(r) ==
  \/ \E names \in SUBSET collections : Introspect(r, names)
  \/ \E ok \in BOOLEAN : ReadEnds(r, ok)

MEngineNext ==
  \/ /\ UNCHANGED unsound
     /\ \/ \E c \in Clients :
             MongoAsk(c) \/ (\E b \in BOOLEAN : MongoExecute(c, b)) \/ MongoModel(c)
        \/ \E r \in DOMAIN reads : MongoRead(r)
        \/ Expire \/ InvalidateCatalog \/ DatabaseChanges
  \/ \E c \in Clients :
       \/ client[c].at = "ready" /\ \E p \in Pipelines : Aggregate(c, p)
       \/ /\ Asking(c)
          /\ \E p \in Pipelines, passes \in Judged, flaw \in PipelineFlaws :
               ModelAnswers(c, p, passes, flaw)

MEngineSpec == MEngineInit /\ [][MEngineNext]_mongoVars
-----------------------------------------------------------------------------
(* A caller that asks for the catalog after an invalidateCatalog() never   *)
(* gets one whose introspection began before it, whatever read was under   *)
(* way, joined or cached meanwhile.                                        *)
NothingFromBefore ==
  \A c \in Clients : client[c].of # -1 => client[c].of >= client[c].since

(* A pipeline that is returned by ask() or sent by execute() reads, and    *)
(* joins, collections the catalog has, under the very names it was given   *)
(* when they exist, and ask() returns none that the guard or a floor       *)
(* rejects; one question costs a bounded number of model calls.            *)
PipelineSound == ~unsound /\ \A c \in Clients : loop[c].calls <= MongoCallBudget

(* The comment in catalog() says "Only the newest read may cache".  It is  *)
(* not so within one generation: see the README.                           *)
NewestReadCaches ==
  [][cachedCatalog'.read # 0 => cachedCatalog'.read >= cachedCatalog.read]_mongoVars
-----------------------------------------------------------------------------
(* The strengthening the proofs induct on: a model call is paid for by an  *)
(* attempt or by a free retry, each taken once.                            *)
Paid(l) ==
  /\ l \in [attempt : 0 .. MONGO_MAX_REPAIRS, shots : SUBSET {"shrink", "fuzzy"}, calls : Nat]
  /\ l.calls <= l.attempt + 1 + Cardinality(l.shots)

SoundInv ==
  /\ ~unsound
  /\ DOMAIN loop = Clients /\ \A c \in Clients : Paid(loop[c])
=============================================================================
