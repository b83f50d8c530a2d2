---------------------------- MODULE Introspection ----------------------------
(***************************************************************************)
(* The catalog read of the relational connectors (postgres, mysql, oracle, *)
(* sqlite and duckdb introspect): the dictionary sections one after the    *)
(* other, each of which may fail and leave a warning; then, under the      *)
(* opt-in, the sampled values of short text columns; then the hint probes, *)
(* with a shared budget split over the tables. Postgres runs the samples   *)
(* and the probes in a read-only transaction each, the others do not.      *)
(*                                                                         *)
(* The database is a sequence of objects with columns of four kinds:       *)
(* "moment" (an integer named like a time), "text" (short text, which may  *)
(* hold JSON), "noted" (text the DBA commented) and "plain" (none of these,*)
(* enums included). A loop of the code is the set of what it has left to   *)
(* go through, the least of it next.                                       *)
(***************************************************************************)
EXTENDS Naturals, Sequences, FiniteSets

CONSTANTS Databases,    \* the schemas to read: sequences of [kind, cols]
          MaxProbes,    \* MAX_HINT_PROBES
          PerTable,     \* MAX_HINT_PROBES_PER_TABLE
          MaxSampled,   \* MAX_SAMPLED_COLUMNS
          MaxFailures   \* how many sections may fail in one read

ASSUME IntrospectionAssumption ==
  /\ \A d \in Databases : d \in Seq([kind : {"table", "view", "trigger"},
                                     cols : Seq({"moment", "text", "noted", "plain"})])
  /\ MaxProbes \in Nat /\ PerTable \in Nat /\ MaxSampled \in Nat /\ MaxFailures \in Nat

VARIABLES engine, db, optIn,     \* what is read, and whether cell values may be
          phase,                 \* where the read is
          unread,                \* the sections left, in order
          failed, warned,        \* sections that failed; sections a warning tells of
          objectsLeft, skipped,  \* SQLite: objects left; those whose pragmas it could not read
          samplesLeft,           \* columns left to sample: <<object, column>>
          tablesLeft, current, columnsLeft,  \* tables left to probe; the table at hand and its columns left
          session,               \* "plain", "open"/"aborted" transaction, "bounded" call timeout
          sampleBudget, hintBudget, tableBudget,  \* sampleBudget, total, budget
          sampled, probed,       \* columns queried for values, for a hint
          lost                   \* queries that failed on another column's account
loops == <<objectsLeft, samplesLeft, tablesLeft, current, columnsLeft>>
budgets == <<sampleBudget, hintBudget, tableBudget>>
queried == <<sampled, probed, lost>>
introVars == <<engine, db, optIn, phase, unread, failed, warned, skipped, session, loops, budgets, queried>>

(* The dictionary reads of each engine, in order. *)
PgTableSections == <<"schemas", "columns", "enums", "relations", "constraints", "indexes">>
PgSections == PgTableSections \o <<"triggers", "routines", "sequences", "extensions">>
MySections == <<"columns", "tables", "views", "keys", "indexes", "triggers", "routines">>
OraScope == <<"currentSchema", "sessionUser", "tables", "readableSchemas">>
OraSections == OraScope \o <<"columns", "primaryKeys", "foreignKeys", "tableComments", "columnComments",
                              "rowEstimates", "uniques", "indexes", "sequences", "triggers", "routines">>
DuckSections == <<"columns", "views">>
SqliteSections == <<"master">>
Sections(e) == CASE e = "postgres" -> PgSections [] e = "mysql" -> MySections [] e = "oracle" -> OraSections
                 [] e = "duckdb" -> DuckSections [] e = "sqlite" -> SqliteSections

IntroInit ==
  /\ engine \in {"postgres", "mysql", "oracle", "sqlite", "duckdb"} /\ db \in Databases /\ optIn \in BOOLEAN
  /\ phase = "sections" /\ unread = Sections(engine)
  /\ failed = {} /\ warned = {} /\ skipped = {}
  /\ objectsLeft = {} /\ samplesLeft = {} /\ tablesLeft = {} /\ current = 0 /\ columnsLeft = {}
  /\ session = "plain"
  /\ sampleBudget = MaxSampled /\ hintBudget = MaxProbes /\ tableBudget = 0
  /\ sampled = {} /\ probed = {} /\ lost = {}

(* Oracle asks for the session user only when it has no owner yet, and for the schemas it may read *)
(* only when its own holds no table.                                                              *)
NoOwner == {"currentSchema", "sessionUser"} \subseteq failed
Needed(s) ==
  /\ s = "sessionUser" => "currentSchema" \in failed
  /\ s = "readableSchemas" => "tables" \in failed \/ NoOwner \/ db = <<>>

(* Which objects the catalog lists, with which columns, and which of them it takes for views. *)
Relations == {o \in DOMAIN db : db[o].kind # "trigger"}
PgTables == IF "relations" \in failed THEN {} ELSE Relations
MyTables == IF "tables" \in failed THEN {} ELSE Relations
OraTables == IF "tables" \in failed \/ NoOwner THEN {} ELSE Relations
DuckTables == IF "columns" \in failed THEN {} ELSE Relations
SqliteTables == Relations \ skipped
Tables == CASE engine = "postgres" -> PgTables [] engine = "mysql" -> MyTables
            [] engine = "oracle" -> OraTables [] engine = "duckdb" -> DuckTables
            [] engine = "sqlite" -> SqliteTables
Columns(o) == IF "columns" \in failed \/ NoOwner THEN <<>> ELSE db[o].cols
ReadsAsView(o) == db[o].kind = "view" /\ ~(engine = "duckdb" /\ "views" \in failed)

(* The columns a probe would describe; a comment the DBA wrote is never overwritten, and Oracle's *)
(* come with a section of their own, SQLite and DuckDB have none.                                 *)
Noted(o, c) ==
  /\ Columns(o)[c] = "noted"
  /\ engine \in {"postgres", "mysql"} \/ (engine = "oracle" /\ "columnComments" \notin failed)
Candidate(o, c) == Columns(o)[c] # "plain" /\ ~Noted(o, c)
HintColumns(o) == {c \in DOMAIN Columns(o) : Candidate(o, c)}
HintTables(set) == {o \in set : ~ReadsAsView(o)}

(* The columns a sample would read: short text of base tables. MySQL knows its views from the     *)
(* section that lists them, and Oracle samples nothing.                                           *)
SampledTable(o) ==
  /\ optIn /\ engine # "oracle"
  /\ db[o].kind = "table" \/ (db[o].kind = "view" /\ engine \in {"mysql", "duckdb"} /\ "views" \in failed)
Sampleable(set) ==
  UNION {{<<o, c>> : c \in {d \in DOMAIN Columns(o) : Columns(o)[d] \in {"text", "noted"}}} :
           o \in {t \in set : SampledTable(t)}}

(* The order of the loops: objects as the catalog lists them, columns as the table does; SQLite   *)
(* goes through the moments of a table before its texts.                                          *)
Rank(o, c) == IF engine = "sqlite" /\ Columns(o)[c] # "moment" THEN Len(Columns(o)) + c ELSE c
NextColumn(c) == \A d \in columnsLeft : Rank(current, c) <= Rank(current, d)
NextObject(o, set) == o \in set /\ \A p \in set : o <= p
NextSample(p) == \A q \in samplesLeft : p[1] < q[1] \/ (p[1] = q[1] /\ p[2] <= q[2])

(* The read of one section failed: a warning, and the fallback of no rows. A view list DuckDB     *)
(* cannot read is passed over, and a sqlite_master SQLite cannot read fails the whole call.       *)
Told(s) == IF engine = "duckdb" /\ s = "views" THEN warned ELSE warned \cup {s}

ReadSection ==
  /\ phase = "sections" /\ unread # <<>>
  /\ LET s == Head(unread) IN
     \/ Needed(s) /\ UNCHANGED <<failed, warned, phase>>
     \/ Needed(s) /\ Cardinality(failed) < MaxFailures /\ s # "master"
          /\ failed' = failed \cup {s} /\ warned' = Told(s) /\ UNCHANGED phase
     \/ s = "master" /\ phase' = "done" /\ failed' = {s} /\ UNCHANGED warned
     \/ ~Needed(s) /\ UNCHANGED <<failed, warned, phase>>
  /\ unread' = Tail(unread)
  /\ UNCHANGED <<engine, db, optIn, skipped, session, loops, budgets, queried>>

(* What follows the sections. Postgres samples what the columns section listed, on a client of    *)
(* its own, when there is anything to sample; SQLite reads, hints and samples object by object.   *)
ToSample == Sampleable(IF engine \in {"postgres", "mysql"} THEN Relations ELSE Tables)
AfterSections ==
  CASE engine = "sqlite"                         -> "objects"
    [] engine = "postgres" /\ samplesLeft' = {}  -> "beginHints"
    [] engine = "postgres"                       -> "beginSamples"
    [] OTHER                                     -> "samples"

PlanScan ==
  /\ phase = "sections" /\ unread = <<>>
  /\ IF engine = "sqlite"
     THEN objectsLeft' = Relations /\ UNCHANGED <<samplesLeft, tablesLeft>>
     ELSE samplesLeft' = ToSample /\ tablesLeft' = HintTables(Tables) /\ UNCHANGED objectsLeft
  /\ phase' = AfterSections
  /\ UNCHANGED <<engine, db, optIn, unread, failed, warned, skipped, session, current, columnsLeft, budgets, queried>>

(* SQLite: table_info, foreign_key_list and index_list of one object; on failure it is left out. *)
ReadPragmas ==
  /\ phase = "objects"
  /\ \E o \in objectsLeft :
       /\ NextObject(o, objectsLeft) /\ objectsLeft' = objectsLeft \ {o}
       /\ \/ /\ tablesLeft' = HintTables({o}) /\ samplesLeft' = Sampleable({o}) /\ phase' = "hints"
             /\ UNCHANGED <<skipped, warned>>
          \/ /\ Cardinality(skipped) < MaxFailures
             /\ skipped' = skipped \cup {o} /\ warned' = Told("object")
             /\ UNCHANGED <<tablesLeft, samplesLeft, phase>>
  /\ UNCHANGED <<engine, db, optIn, unread, failed, session, current, columnsLeft, budgets, queried>>

EndObjects ==
  /\ phase = "objects" /\ objectsLeft = {}
  /\ phase' = "done"
  /\ UNCHANGED <<engine, db, optIn, unread, failed, warned, skipped, session, loops, budgets, queried>>

(* BEGIN READ ONLY on a client of the pool, or no client and no transaction; Oracle lowers the    *)
(* call timeout of its connection for the probes.                                                 *)
BeginScan ==
  /\ phase \in {"beginSamples", "beginHints"}
  /\ phase' = IF phase = "beginSamples" THEN "samples" ELSE "hints"
  /\ session' \in CASE engine = "postgres" -> {"open", "plain"} [] engine = "oracle" -> {"bounded"}
                    [] OTHER -> {"plain"}
  /\ UNCHANGED <<engine, db, optIn, unread, failed, warned, skipped, loops, budgets, queried>>

(* samplePgColumn and its siblings: the budget is charged, the query runs, a failure is swallowed. *)
(* In Postgres a failed statement aborts the transaction the other samples run in.                *)
SampleColumn ==
  /\ phase = "samples" /\ sampleBudget > 0
  /\ \E p \in samplesLeft :
       /\ NextSample(p) /\ samplesLeft' = samplesLeft \ {p}
       /\ sampleBudget' = sampleBudget - 1 /\ sampled' = sampled \cup {p}
       /\ \/ session # "aborted" /\ UNCHANGED <<lost, session>>
          \/ session = "aborted" /\ lost' = lost \cup {<<"sample", p>>} /\ UNCHANGED session
          \/ session # "aborted" /\ session' = (IF session = "open" THEN "aborted" ELSE session) /\ UNCHANGED lost
  /\ UNCHANGED <<engine, db, optIn, phase, unread, failed, warned, skipped, objectsLeft, tablesLeft, current,
                 columnsLeft, hintBudget, tableBudget, probed>>

(* COMMIT and release, or the call timeout restored, whatever happened in between. *)
EndSamples ==
  /\ phase = "samples" /\ (samplesLeft = {} \/ sampleBudget = 0)
  /\ phase' = (IF engine = "sqlite" THEN "objects" ELSE "beginHints") /\ session' = "plain"
  /\ UNCHANGED <<engine, db, optIn, unread, failed, warned, skipped, loops, budgets, queried>>

(* Mutant: every table may spend the most a table may.                                            *)
FlatShare(n) == PerTable

(* The share of the probes one table may spend; n counts what the catalog lists (SQLite: every    *)
(* object, triggers too).                                                                         *)
Least(a, b) == IF a < b THEN a ELSE b
Objects == IF engine = "sqlite" THEN Len(db) ELSE Cardinality(Tables)
hintProbesPerTable(n) == LET fair == MaxProbes \div (IF n = 0 THEN 1 ELSE n)
                         IN IF Least(PerTable, fair) = 0 THEN 1 ELSE Least(PerTable, fair)

(* The table at hand has no column left to probe, or no probe. *)
TableDone == columnsLeft = {} \/ tableBudget = 0

StartTable ==
  /\ phase = "hints" /\ TableDone
  /\ \E o \in tablesLeft :
       /\ NextObject(o, tablesLeft) /\ tablesLeft' = tablesLeft \ {o}
       /\ current' = o /\ columnsLeft' = HintColumns(o)
  /\ tableBudget' = Least(hintProbesPerTable(Objects), hintBudget)
  /\ UNCHANGED <<engine, db, optIn, phase, unread, failed, warned, skipped, session, objectsLeft, samplesLeft,
                 sampleBudget, hintBudget, queried>>

(* What a failed probe leaves behind: Postgres sets a savepoint first and rolls back to it.       *)
AfterFailedProbe == session

(* One probe, charged before its query. *)
ProbeColumn ==
  /\ phase = "hints" /\ tableBudget > 0
  /\ \E c \in columnsLeft :
       /\ NextColumn(c) /\ columnsLeft' = columnsLeft \ {c}
       /\ tableBudget' = tableBudget - 1 /\ hintBudget' = hintBudget - 1
       /\ probed' = probed \cup {<<current, c>>}
       /\ \/ session # "aborted" /\ UNCHANGED <<lost, session>>
          \/ session # "aborted" /\ session' = AfterFailedProbe /\ UNCHANGED lost
          \/ session = "aborted" /\ lost' = lost \cup {<<"probe", <<current, c>>>>} /\ UNCHANGED session
  /\ UNCHANGED <<engine, db, optIn, phase, unread, failed, warned, skipped, objectsLeft, samplesLeft, tablesLeft,
                 current, sampleBudget, sampled>>

EndHints ==
  /\ phase = "hints" /\ TableDone /\ tablesLeft = {}
  /\ phase' = (IF engine = "sqlite" THEN "samples" ELSE "done") /\ session' = "plain" /\ columnsLeft' = {}
  /\ UNCHANGED <<engine, db, optIn, unread, failed, warned, skipped, objectsLeft, samplesLeft, tablesLeft, current,
                 budgets, queried>>

IntroNext == \/ ReadSection \/ PlanScan \/ ReadPragmas \/ EndObjects \/ BeginScan \/ SampleColumn \/ EndSamples
             \/ StartTable \/ ProbeColumn \/ EndHints
IntroSpec == IntroInit /\ [][IntroNext]_introVars

CatalogBuilt == phase = "done" /\ "master" \notin failed

-----------------------------------------------------------------------------
(* The hint pass of every connector reaches the whole schema and stays within its budget: at most  *)
(* MaxProbes probes, a table with a column to describe gets one while there are no more objects    *)
(* than probes, and a probe that fails takes no other probe with it.                               *)
HintsReach ==
  CatalogBuilt =>
    /\ Cardinality(probed) <= MaxProbes
    /\ \A o \in Tables :
         (Objects <= MaxProbes /\ ~ReadsAsView(o) /\ HintColumns(o) # {}) => \E c \in DOMAIN Columns(o) : <<o, c>> \in probed
    /\ \A j \in lost : j[1] # "probe"

(* What the catalog lacks it says it lacks: a table of the database that is not listed, or is      *)
(* listed without its columns, has a warning about the section that should have brought it.        *)
OmissionsTold ==
  (CatalogBuilt /\ \E o \in Relations : (o \notin Tables \/ Columns(o) # db[o].cols)) => warned # {}

(* The catalog a connector reads is as complete as it says, and its hints reach all of it.         *)
IntrospectionSound == HintsReach /\ OmissionsTold

(* "Best-effort: a locked-down, huge, or slow column just gets no samples": the sample that fails  *)
(* costs its own column its values, and no other.                                                  *)
SampleFailureIsLocal == \A j \in lost : j[1] # "sample"

(* "sample distinct codes of each short non-enum text column on a base table (never views)".       *)
ViewsNotSampled == \A p \in sampled : db[p[1]].kind # "view"
=============================================================================
