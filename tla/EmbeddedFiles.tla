--------------------------- MODULE EmbeddedFiles ---------------------------
(***************************************************************************)
(* The handles of the embedded connectors and what is kept beside them.    *)
(* DuckDB, node and browser build (packages/duckdb/src): connect(),        *)
(* close(), registerFile, registerSqlDump and unregisterFile with the set  *)
(* `registered`, each suspended wherever it awaits the database.  SQLite   *)
(* (packages/sqlite/src/index.ts): a handle that is the caller's or its    *)
(* own, the query_only flag set on it and given back, and execute().       *)
(*                                                                         *)
(* A table name is <<base, version>>; what a table holds is the upload     *)
(* that made it.  The content of files and the SQL of a dump are left out. *)
(***************************************************************************)
EXTENDS Naturals, Sequences, FiniteSets

CONSTANTS
  Uploads,      \* calls of registerFile after connect, one each
  MaxVersions,  \* bound: versions of a base name
  MaxConnects   \* bound: connect() calls

Base == "t"     \* the uploads and the configured file share a base name
Config == "config"   \* the file of config.files
Registrations == Uploads \cup {Config}
Names == {Base} \X (1..MaxVersions)
Nothing == "nothing"

VARIABLES
  build,       \* "node", "browser" or "sqlite"
  handleConn,  \* this.conn, this.db: "null", "open", or "ready" once connect() resolved
  connects,    \* connect() calls made
  relations,   \* what each name holds in the database
  registered,  \* the set of that name
  job,         \* the registrations
  dropping,    \* the name unregisterFile is removing, <<>> when there is none
  supplied,    \* SQLite: the handle is the caller's
  queryOnly,   \* SQLite: the flag of the handle
  original,    \* SQLite: the flag the caller's handle came with
  restore,     \* restoreQueryOnly: "null", TRUE or FALSE as a string
  asserted,    \* readOnlyAsserted
  offRefused,  \* a close() could not clear the flag (history)
  wrote        \* a statement ran on a handle that could write

duckVars == <<connects, relations, registered, job, dropping>>
liteVars == <<supplied, queryOnly, original, restore, asserted, offRefused, wrote>>
filesVars == <<build, handleConn, duckVars, liteVars>>

NewJob == [pc |-> "off", kind |-> "view", name |-> <<>>, before |-> {}]
Empty == [n \in Names |-> Nothing]

FilesInit ==
  /\ build \in {"node", "browser", "sqlite"}
  /\ connects = 0 /\ relations = Empty /\ registered = {} /\ dropping = <<>>
  /\ job \in [Registrations -> {NewJob, [NewJob EXCEPT !.kind = "dump"]}]
  /\ supplied \in BOOLEAN /\ original \in {"ON", "OFF"} /\ queryOnly = original
  /\ build # "sqlite" => supplied = FALSE /\ original = "OFF"
  /\ handleConn = IF supplied THEN "open" ELSE "null"
  /\ restore = "null" /\ asserted = FALSE /\ offRefused = FALSE /\ wrote = FALSE

Duck == build # "sqlite"
Present == {n \in Names : relations[n] # Nothing}
Ended(j) == job[j].pc \in {"off", "ok", "error"}

-----------------------------------------------------------------------------
(* uniqueTableName: the first version that is not registered.              *)
UniqueName ==
  LET free == {n \in Names : n \notin registered} IN
  {n \in free : \A o \in free : o[2] >= n[2]}

(* registerFile up to its first await: the name of a view is chosen now; a *)
(* dump is read, checked and makes its own.                                *)
StartJob(j) ==
  [job EXCEPT ![j].pc = IF job[j].kind = "view" THEN "create" ELSE "before",
              ![j].name = IF job[j].kind = "view" THEN CHOOSE n \in UniqueName : TRUE ELSE <<>>]

RegisterFile(j) ==
  /\ Duck /\ j \in Uploads /\ handleConn # "null" /\ job[j].pc = "off" /\ UniqueName # {}
  /\ job' = StartJob(j)
  /\ UNCHANGED <<build, handleConn, connects, relations, registered, dropping, liteVars>>

Fails(j) == job' = [job EXCEPT ![j].pc = "error"]

(* CREATE VIEW fails on a name the database has.                           *)
CreateView(j) ==
  LET n == job[j].name IN
  \/ /\ relations[n] = Nothing
     /\ relations' = [relations EXCEPT ![n] = j] /\ registered' = registered \cup {n}
     /\ job' = [job EXCEPT ![j].pc = "ok"]
  \/ Fails(j) /\ UNCHANGED <<relations, registered>>

CreateViewEnds(j) ==
  /\ job[j].pc = "create" /\ handleConn # "null" /\ CreateView(j)
  /\ UNCHANGED <<build, handleConn, connects, dropping, liteVars>>

(* registerSqlDump: the names before, the script, the names after.         *)
ReadNamesBefore(j) ==
  /\ job[j].pc = "before" /\ handleConn # "null"
  /\ job' = [job EXCEPT ![j].pc = "script", ![j].before = Present]
  /\ UNCHANGED <<build, handleConn, connects, relations, registered, dropping, liteVars>>

RunScript(j) ==
  /\ job[j].pc = "script" /\ handleConn # "null"
  /\ job' = [job EXCEPT ![j].pc = "after"] \/ Fails(j)
  /\ \/ \E n \in Names \ Present : relations' = [relations EXCEPT ![n] = j]
     \/ UNCHANGED relations
  /\ UNCHANGED <<build, handleConn, connects, registered, dropping, liteVars>>

(* Every name that is new counts as the dump's.                            *)
ReadNamesAfter(j) ==
  LET created == Present \ job[j].before IN
  /\ job[j].pc = "after" /\ handleConn # "null"
  /\ IF created = {} THEN Fails(j) /\ UNCHANGED registered
     ELSE /\ registered' = registered \cup created
          /\ job' = [job EXCEPT ![j].pc = "ok"]
  /\ UNCHANGED <<build, handleConn, connects, relations, dropping, liteVars>>

(* The connection went away under a registration.                          *)
JobLosesConnection(j) ==
  /\ ~Ended(j) /\ handleConn = "null" /\ Fails(j)
  /\ UNCHANGED <<build, handleConn, connects, relations, registered, dropping, liteVars>>

(* unregisterFile: both DROPs, then the name leaves the set.               *)
UnregisterFile(n) ==
  /\ Duck /\ dropping = <<>> /\ n \in registered /\ handleConn # "null" /\ dropping' = n
  /\ UNCHANGED <<build, handleConn, connects, relations, registered, job, liteVars>>

Unregistered ==
  /\ dropping # <<>> /\ dropping' = <<>>
  /\ relations' = IF handleConn = "null" THEN relations ELSE [relations EXCEPT ![dropping] = Nothing]
  /\ registered' = registered \ {dropping}
  /\ UNCHANGED <<build, handleConn, connects, job, liteVars>>

-----------------------------------------------------------------------------
(* connect(): the connection is published, then the configured file is     *)
(* registered; a failure leaves the connection as it is.                   *)
ConnectDuck ==
  /\ Duck /\ handleConn = "null" /\ connects < MaxConnects /\ connects' = connects + 1
  /\ UniqueName # {} /\ Ended(Config)
  /\ handleConn' = "open"
  /\ job' = StartJob(Config)
  /\ UNCHANGED <<build, relations, registered, dropping, liteVars>>

(* connect() resolves: the one that registered the file, or another that   *)
(* found a connection.                                                     *)
ConnectEnds ==
  /\ Duck /\ handleConn = "open" /\ handleConn' = "ready"
  /\ UNCHANGED <<build, duckVars, liteVars>>

(* close(): an in-memory database is gone with its connection; the set     *)
(* `registered` is not.                                                    *)
CloseDuck ==
  /\ Duck /\ handleConn # "null" /\ handleConn' = "null" /\ relations' = Empty
  /\ UNCHANGED <<build, connects, registered, job, dropping, liteVars>>

-----------------------------------------------------------------------------
(* Mutant: the flag is remembered at every check.                          *)
RememberAlways == queryOnly

(* assertReadOnly remembers what the caller's handle came with, once.      *)
Remember == IF restore = "null" THEN queryOnly ELSE restore

(* It sets query_only and reads it back.  The driver may refuse to set it, *)
(* and the read-back may throw with the flag already set.                  *)
SetAndVerify ==
  /\ restore' = IF supplied THEN Remember ELSE restore
  /\ queryOnly' \in {queryOnly, "ON"}
  /\ asserted' \in {FALSE, queryOnly' = "ON"}

(* Of a supplied handle the flag is read first, which may throw.           *)
AssertReadOnly ==
  \/ SetAndVerify
  \/ supplied /\ restore = "null" /\ UNCHANGED <<restore, queryOnly, asserted>>

(* connect() of SQLite: a handle of its own is published only when it has  *)
(* proven read-only, and is closed when it has not; it is opened read-only *)
(* or not whatever the option says.                                        *)
ConnectLite ==
  /\ build = "sqlite" /\ connects < MaxConnects /\ connects' = connects + 1
  /\ \/ handleConn # "null" /\ asserted /\ UNCHANGED <<handleConn, liteVars>>
     \/ /\ handleConn # "null" /\ ~asserted /\ AssertReadOnly
        /\ UNCHANGED <<handleConn, supplied, original, offRefused, wrote>>
     \/ /\ handleConn = "null" /\ SetAndVerify /\ asserted' /\ handleConn' = "open"
        /\ UNCHANGED <<supplied, original, offRefused, wrote>>
     \/ handleConn = "null" /\ UNCHANGED <<handleConn, liteVars>>
  /\ UNCHANGED <<build, relations, registered, job, dropping>>

(* close(): its own handle is closed.  Of a caller's the flag is cleared   *)
(* if it came cleared; the driver may refuse, or the handle be closed      *)
(* already, and that is swallowed.  The memory of it goes either way.      *)
CloseLite ==
  /\ build = "sqlite" /\ asserted' = FALSE
  /\ \/ /\ ~supplied /\ handleConn' = "null" /\ queryOnly' = original
        /\ UNCHANGED <<restore, offRefused>>
     \/ /\ supplied /\ restore' = "null" /\ UNCHANGED handleConn
        /\ queryOnly' \in IF restore = "OFF" THEN {"OFF", queryOnly} ELSE {queryOnly}
        /\ offRefused' = (offRefused \/ (restore = "OFF" /\ queryOnly' = "ON"))
  /\ UNCHANGED <<build, duckVars, supplied, original, wrote>>

(* handle(): connect() must have proven it read-only.                      *)
Handle == handleConn # "null" /\ asserted

(* execute() and introspect() of SQLite, synchronous; without a handle     *)
(* they throw DB_UNREACHABLE.                                              *)
ExecuteLite ==
  /\ build = "sqlite" /\ Handle /\ wrote' = (wrote \/ queryOnly = "OFF")
  /\ UNCHANGED <<build, handleConn, duckVars, supplied, queryOnly, original, restore, asserted, offRefused>>

FilesNext ==
  \/ ConnectDuck \/ ConnectEnds \/ CloseDuck \/ ConnectLite \/ CloseLite \/ ExecuteLite
  \/ Unregistered \/ (\E n \in Names : UnregisterFile(n))
  \/ \E j \in Registrations :
       \/ RegisterFile(j) \/ CreateViewEnds(j) \/ ReadNamesBefore(j) \/ RunScript(j)
       \/ ReadNamesAfter(j) \/ JobLosesConnection(j)

-----------------------------------------------------------------------------
(* "Give the caller's connection back as it was": unless the driver has    *)
(* refused a close() to clear the flag, a supplied handle has the flag it  *)
(* came with whenever the connector holds no memory of it, over connects   *)
(* that fail half-way.  After such a refusal the handle can only read, one *)
(* that came read-only never could do more, and no statement ran while the *)
(* handle could write.                                                     *)
HandleAsGiven ==
  /\ supplied /\ restore = "null" /\ ~offRefused => queryOnly = original
  /\ offRefused => queryOnly = "ON"
  /\ supplied /\ original = "ON" => queryOnly = "ON"
  /\ ~wrote

(* The same without the proviso.  It does not hold: close() swallows the   *)
(* refusal and forgets the flag, so no later close() clears it either.     *)
HandleAlwaysGivenBack == supplied /\ restore = "null" => queryOnly = original

(* registeredTables(): "Names currently registered from files."  Of a      *)
(* connection that is ready, every one of them exists.                     *)
RegisteredExist == Duck /\ handleConn = "ready" /\ dropping = <<>> => registered \subseteq Present

FilesSpec == FilesInit /\ [][FilesNext]_filesVars

-----------------------------------------------------------------------------
(* The strengthening the proof of HandleAsGiven inducts on.  The memory of *)
(* a supplied handle's flag is right for as long as it is kept, but for    *)
(* one made after a refused close(), which is of a flag that stays set;    *)
(* setting the flag never clears it; what was proven read-only still is.   *)
LiteTypeOK ==
  /\ supplied \in BOOLEAN /\ asserted \in BOOLEAN /\ wrote \in BOOLEAN
  /\ offRefused \in BOOLEAN
  /\ queryOnly \in {"ON", "OFF"} /\ original \in {"ON", "OFF"}
  /\ restore \in {"null", "ON", "OFF"}

FlagInv ==
  /\ supplied /\ restore # "null" /\ ~offRefused => restore = original
  /\ offRefused => restore # "OFF" /\ supplied
  /\ asserted => queryOnly = "ON"

LiteInv == LiteTypeOK /\ FlagInv /\ HandleAsGiven
=============================================================================
