---- MODULE ServerConnections ----
(***************************************************************************)
(* The connections an AskSQL server holds (packages/server/src/handler.ts  *)
(* and dynamicConnections.ts): the ones its operator configured, and the   *)
(* ones clients open and remove while it runs.  Every request is a         *)
(* coroutine of one JavaScript thread: what it does between two awaits is  *)
(* one step, and any other request may run at an await.  A connector is    *)
(* an instance numbered as it is made; the maps hold the instance listed   *)
(* under an id, or None.                                                   *)
(***************************************************************************)
EXTENDS Naturals, Sequences, FiniteSets

CONSTANTS Ids,          \* connection ids
          Configured,   \* ids whose SQL connector the operator configured
          Generated,    \* the sequence of ids the server makes up (dyn_1, dyn_2 ...)
          ANY_CONNECTION,  \* the wildcard scope
          Requests,     \* requests in flight at the same time
          MaxMade       \* bound: connectors made in one behaviour

None == 0

Hosts == {"allowed", "unlisted", "linkLocal", "malformed", "missing"}

ASSUME ConnectionsAssumption ==
    /\ Configured \subseteq Ids
    /\ Generated \in Seq(Ids)
    /\ ANY_CONNECTION \notin Ids
    /\ MaxMade \in Nat

VARIABLES byId,          \* the SQL connectors by id; the engine is rebuilt from them
          mongoById,     \* the Mongo connectors by id
          mongoEngines,  \* the connector each cached Mongo engine was made with
          creatingIds,   \* ids reserved while their connector connects
          dynamicIds,    \* ids of connections opened at run time
          dynamicSeq,    \* ids made up so far
          live,          \* instances that hold a connection to their database
          made,          \* connectors made so far
          stage, id, kind, inst,   \* each request: its step and what it works on
          closing,       \* close() of the whole server: "no", "mongo", "done"
          visited        \* Mongo ids close() has gone through

connVars == <<byId, mongoById, mongoEngines, creatingIds, dynamicIds, dynamicSeq,
              live, made, stage, id, kind, inst, closing, visited>>

ConnInit ==
    /\ made = Cardinality(Configured)
    /\ byId \in [Ids -> 0..made]
    /\ \A i \in Ids : (byId[i] # None) <=> (i \in Configured)
    /\ \A i, j \in Configured : byId[i] = byId[j] => i = j
    /\ mongoById = [i \in Ids |-> None]
    /\ mongoEngines = [i \in Ids |-> None]
    /\ creatingIds = {}
    /\ dynamicIds = {}
    /\ dynamicSeq = 0
    /\ live = {}
    /\ stage = [r \in Requests |-> "idle"]
    /\ id \in [Requests -> Ids]
    /\ \A r \in Requests : id[r] = CHOOSE i \in Ids : TRUE
    /\ kind = [r \in Requests |-> "sql"]
    /\ inst = [r \in Requests |-> None]
    /\ closing = "no"
    /\ visited = {}

IsMongo(i) == mongoById[i] # None
Listed == {i \in Ids : byId[i] # None \/ IsMongo(i)}
HasEngine == \E i \in Ids : byId[i] # None

(* canAccess: a scope is the set of the ids a caller may use, or holds the
   wildcard. *)
CanAccess(scope, i) == ANY_CONNECTION \in scope \/ i \in scope
Scopes == {{i} : i \in Ids \union {ANY_CONNECTION}}

(***************************************************************************)
(* assertSpecAllowed, over the shape of a connection spec.  An engine has  *)
(* a file, a connection string that may name several hosts, or a host and  *)
(* a port.  Every host a spec names is held to the same floor.             *)
(***************************************************************************)
Specs ==
    [engine : {"postgres"}, hosts : {{h} : h \in Hosts}, port : BOOLEAN, database : BOOLEAN]
      \union [engine : {"mongodb"}, hosts : {{h, "allowed"} : h \in Hosts}, port : {TRUE}, database : BOOLEAN]
      \union [engine : {"sqlite"}, hosts : {{}}, port : {TRUE}, database : BOOLEAN]

HostAllowed(h) == h \notin {"missing", "malformed", "linkLocal", "unlisted"}

FileAllowed(allowFiles, inRoot) == allowFiles /\ inRoot

SpecAllowed(spec, allowFiles, inRoot) ==
    /\ spec.database
    /\ spec.engine = "sqlite" => FileAllowed(allowFiles, inRoot)
    /\ \A h \in spec.hosts : HostAllowed(h)
    /\ spec.port

(* The kind of connector createConnector or createMongoConnector makes. *)
KindOf(spec) == IF spec.engine = "mongodb" THEN "mongo" ELSE "sql"

(* What a request may ask to open, under some setting of the file options. *)
OpenKinds ==
    {KindOf(spec) : spec \in {s \in Specs : \E allowFiles, inRoot \in BOOLEAN :
                                              SpecAllowed(s, allowFiles, inRoot)}}

FinishRequest(r) ==
    /\ stage' = [stage EXCEPT ![r] = "idle"]
    /\ inst' = [inst EXCEPT ![r] = None]

-----------------------------------------------------------------------------
(* Opening a connection: POST /connections. *)

(* The id is taken when it is listed, or reserved by a create under way. *)
IdTakenUnlessListed(i) == i \in Listed
IdTaken(i) == i \in Listed \union creatingIds

(* The id of the body, or the next made-up one. *)
NamesId(r) ==
    \/ \E i \in Ids : id' = [id EXCEPT ![r] = i] /\ dynamicSeq' = dynamicSeq
    \/ /\ dynamicSeq < Len(Generated)
       /\ dynamicSeq' = dynamicSeq + 1
       /\ id' = [id EXCEPT ![r] = Generated[dynamicSeq + 1]]

(* createConnection up to its first await: with dynamic connections on, the
   wildcard scope, a well-formed body and an allowed spec, the id is reserved. *)
StartCreate(r) ==
    /\ stage[r] = "idle" /\ made < MaxMade
    /\ \E scope \in Scopes : CanAccess(scope, ANY_CONNECTION)
    /\ NamesId(r)
    /\ IF IdTaken(id'[r])                 \* 400: that id already exists
         THEN UNCHANGED <<creatingIds, made, stage, kind, inst>>
         ELSE /\ creatingIds' = creatingIds \union {id'[r]}
              /\ made' = made + 1
              /\ \E k \in OpenKinds : kind' = [kind EXCEPT ![r] = k]
              /\ inst' = [inst EXCEPT ![r] = made + 1]
              /\ stage' = [stage EXCEPT ![r] = "connecting"]
    /\ UNCHANGED <<byId, mongoById, mongoEngines, dynamicIds, live, closing, visited>>

(* connect() succeeds: the connector is listed, and recorded as removable. *)
Connected(r) ==
    /\ stage[r] = "connecting"
    /\ live' = live \union {inst[r]}
    /\ IF kind[r] = "mongo"
         THEN /\ mongoById' = [mongoById EXCEPT ![id[r]] = inst[r]]
              /\ byId' = byId
         ELSE /\ byId' = [byId EXCEPT ![id[r]] = inst[r]]
              /\ mongoById' = mongoById
    /\ dynamicIds' = dynamicIds \union {id[r]}
    /\ creatingIds' = creatingIds \ {id[r]}
    /\ FinishRequest(r)
    /\ UNCHANGED <<mongoEngines, dynamicSeq, made, id, kind, closing, visited>>

(* The driver import or connect() fails: the finally clause frees the id. *)
ConnectFails(r) ==
    /\ stage[r] = "connecting"
    /\ creatingIds' = creatingIds \ {id[r]}
    /\ FinishRequest(r)
    /\ UNCHANGED <<byId, mongoById, mongoEngines, dynamicIds, dynamicSeq, live, made,
                   id, kind, closing, visited>>

-----------------------------------------------------------------------------
(* Removing a connection: DELETE /connections/<id>. *)

(* deleteConnection up to its await: only what was opened at run time. *)
StartDelete(r) ==
    \E i \in Listed :
      /\ stage[r] = "idle"
      /\ \E scope \in Scopes : CanAccess(scope, ANY_CONNECTION) /\ CanAccess(scope, i)
      /\ i \in dynamicIds
      /\ id' = [id EXCEPT ![r] = i]
      /\ kind' = [kind EXCEPT ![r] = IF IsMongo(i) THEN "mongo" ELSE "sql"]
      /\ inst' = [inst EXCEPT ![r] = IF IsMongo(i) THEN mongoById[i] ELSE byId[i]]
      /\ stage' = [stage EXCEPT ![r] = "deleting"]
      /\ UNCHANGED <<byId, mongoById, mongoEngines, creatingIds, dynamicIds, dynamicSeq,
                     live, made, closing, visited>>

(* The Mongo engine made with a removed connector goes with it. *)
ForgetEngine(i) == mongoEngines' = [mongoEngines EXCEPT ![i] = None]

(* close() is over: the id leaves its map, whatever it now stands for. *)
Deleted(r) ==
    /\ stage[r] = "deleting"
    /\ live' = live \ {inst[r]}
    /\ IF kind[r] = "mongo"
         THEN /\ mongoById' = [mongoById EXCEPT ![id[r]] = None]
              /\ ForgetEngine(id[r])
              /\ byId' = byId
         ELSE /\ byId' = [byId EXCEPT ![id[r]] = None]
              /\ UNCHANGED <<mongoById, mongoEngines>>
    /\ dynamicIds' = dynamicIds \ {id[r]}
    /\ FinishRequest(r)
    /\ UNCHANGED <<creatingIds, dynamicSeq, made, id, kind, closing, visited>>

(* close() rejects: the error is answered and nothing is removed. *)
DeleteFails(r) ==
    /\ stage[r] = "deleting"
    /\ FinishRequest(r)
    /\ UNCHANGED <<byId, mongoById, mongoEngines, creatingIds, dynamicIds, dynamicSeq,
                   live, made, id, kind, closing, visited>>

-----------------------------------------------------------------------------
(* Requests that use a connection. *)

(* resolveConnectionId without an id: a wildcard caller gets the first
   connection there is, SQL before Mongo, a scoped one an id of its own. *)
Default(scope, i) ==
    IF ANY_CONNECTION \in scope THEN byId[i] # None \/ (~HasEngine /\ IsMongo(i)) ELSE i \in scope

(* mongoEngine(id): the engine cached for the id, or one made of its connector. *)
EngineOf(i) == IF mongoEngines[i] # None THEN mongoEngines[i] ELSE mongoById[i]

(* Any endpoint that works on a connection, up to the engine's first await. *)
StartUse(r, step) ==
    \E i \in Listed :
      /\ stage[r] = "idle"
      /\ \E scope \in Scopes, named \in BOOLEAN :
           CanAccess(scope, i) /\ (named \/ Default(scope, i))
      /\ id' = [id EXCEPT ![r] = i]
      /\ kind' = [kind EXCEPT ![r] = IF IsMongo(i) THEN "mongo" ELSE "sql"]
      /\ stage' = [stage EXCEPT ![r] = step]
      /\ IF IsMongo(i)
           THEN /\ inst' = [inst EXCEPT ![r] = EngineOf(i)]
                /\ mongoEngines' = [mongoEngines EXCEPT ![i] = EngineOf(i)]
           ELSE /\ inst' = [inst EXCEPT ![r] = byId[i]]
                /\ mongoEngines' = mongoEngines
      /\ UNCHANGED <<byId, mongoById, creatingIds, dynamicIds, dynamicSeq, live, made,
                     closing, visited>>

(* /schema, /chat, /explain, /explainSchema, and /feedback, which a Mongo
   connection answers without its engine *)
Ask(r) == StartUse(r, "using")
(* /execute *)
Execute(r) == StartUse(r, "executing")

(* The engine reaches the database: a connector that was closed opens again. *)
Reaches(r) ==
    /\ stage[r] \in {"using", "executing"}
    /\ inst[r] \notin live
    /\ live' = live \union {inst[r]}
    /\ UNCHANGED <<byId, mongoById, mongoEngines, creatingIds, dynamicIds, dynamicSeq,
                   made, stage, id, kind, inst, closing, visited>>

(* The engine's call is over, in an answer or in an error. *)
Answered(r) ==
    /\ stage[r] \in {"using", "fixing"}
    /\ FinishRequest(r)
    /\ UNCHANGED <<byId, mongoById, mongoEngines, creatingIds, dynamicIds, dynamicSeq,
                   live, made, id, kind, closing, visited>>

(* execute is over; its audit entry is awaited before the answer. *)
Executed(r) ==
    /\ stage[r] = "executing"
    /\ \E step \in {"auditOk", "auditError"} : stage' = [stage EXCEPT ![r] = step]
    /\ UNCHANGED <<byId, mongoById, mongoEngines, creatingIds, dynamicIds, dynamicSeq,
                   live, made, id, kind, inst, closing, visited>>

(* audit settles, its failure swallowed.  A failed SQL query that came with a
   question then asks the engine of the moment for a fix, if there is one. *)
Audited(r) ==
    /\ stage[r] \in {"auditOk", "auditError"}
    /\ \/ FinishRequest(r)
       \/ /\ stage[r] = "auditError" /\ kind[r] = "sql" /\ HasEngine
          /\ stage' = [stage EXCEPT ![r] = "fixing"]
          /\ inst' = inst
    /\ UNCHANGED <<byId, mongoById, mongoEngines, creatingIds, dynamicIds, dynamicSeq,
                   live, made, id, kind, closing, visited>>

-----------------------------------------------------------------------------
(* close() of the server: the engine closes every SQL connector, then the
   Mongo connectors close one by one, then the cached engines are dropped. *)
StartClose ==
    /\ closing = "no"
    /\ closing' = "mongo"
    /\ live' = live \ {byId[i] : i \in Ids}
    /\ UNCHANGED <<byId, mongoById, mongoEngines, creatingIds, dynamicIds, dynamicSeq,
                   made, stage, id, kind, inst, visited>>

CloseMongo(i) ==
    /\ closing = "mongo" /\ IsMongo(i) /\ i \notin visited
    /\ visited' = visited \union {i}
    /\ live' = live \ {mongoById[i]}
    /\ UNCHANGED <<byId, mongoById, mongoEngines, creatingIds, dynamicIds, dynamicSeq,
                   made, stage, id, kind, inst, closing>>

EndClose ==
    /\ closing = "mongo"
    /\ \A i \in Ids : IsMongo(i) => i \in visited
    /\ closing' = "done"
    /\ mongoEngines' = [i \in Ids |-> None]
    /\ UNCHANGED <<byId, mongoById, creatingIds, dynamicIds, dynamicSeq, live,
                   made, stage, id, kind, inst, visited>>

ConnNext ==
    \/ \E r \in Requests : \/ StartCreate(r) \/ Connected(r) \/ ConnectFails(r)
                           \/ StartDelete(r) \/ Deleted(r) \/ DeleteFails(r)
                           \/ Ask(r) \/ Execute(r) \/ Reaches(r)
                           \/ Answered(r) \/ Executed(r) \/ Audited(r)
    \/ StartClose
    \/ \E i \in Ids : CloseMongo(i)
    \/ EndClose

ConnSpec == ConnInit /\ [][ConnNext]_connVars

-----------------------------------------------------------------------------
(* Every reserved id is the id of exactly one create under way, and of no
   listed connection: creatingIds (handler.ts 334-360) is exact at every
   await. *)
Reserved ==
    /\ \A r \in Requests : stage[r] = "connecting" => id[r] \in creatingIds
    /\ \A r, s \in Requests :
         stage[r] = "connecting" /\ stage[s] = "connecting" /\ id[r] = id[s] => r = s
    /\ creatingIds \cap Listed = {}

(* An id names one connection at most, over both maps, and the Mongo engine
   cached for an id was made with the connector listed under it: whatever
   creates, removals and uses of the same id overlap, no request reaches a
   database other than the one its id stands for. *)
OneOwnerPerId ==
    /\ \A i \in Ids : byId[i] = None \/ mongoById[i] = None
    /\ \A i \in Ids : mongoEngines[i] \in {None, mongoById[i]}
    /\ \A r \in Requests : stage[r] = "connecting" => id[r] \notin Listed

(* Every connection a client opened can be removed: dynamicIds covers it.
   The comment of createConnection (handler.ts 346-347) says what happens
   otherwise: "the delete endpoint reads it as operator-configured and
   refuses, leaving a credentialed live connection that nothing can remove". *)
Removable == Listed \subseteq Configured \union dynamicIds
====
