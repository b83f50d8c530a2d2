------------------------------- MODULE MCRules -------------------------------
(* What is computed from a text, a statement, a pipeline, a column or a    *)
(* schema, for TLC: the guards (SqlText, SqlGuard, PipelineGuard), the     *)
(* catalog read (ColumnHints, MongoCatalog, Introspection) and what a      *)
(* prompt carries (SchemaPrune, Stores).  They share no state, so a        *)
(* behaviour exercises one of the eight.                                   *)
EXTENDS SqlText, SqlGuard, PipelineGuard, ColumnHints, MongoCatalog, Introspection, SchemaPrune, Stores

VARIABLE focus
rulesVars == <<focus, textVars, guardVars, pipelineVars, hintVars, mongoVars, introVars, pruneVars, storeVars>>

EmptySchema == [tables |-> <<>>, sections |-> 0]
IdleText == text = <<>> /\ dialect = "postgres" /\ port = "core" /\ sent = Unread
IdleSql == stmt = "none" /\ first = "none" /\ guard = "ide" /\ files = FALSE /\ verdict = "pending" /\ passes = 0
IdlePipeline == pipeline = NoStages /\ form = "strict" /\ host = "core" /\ sentOut = Waiting
IdleHint == cells = [moment |-> {}] /\ nameKeys = FALSE /\ hint = NotProbed
IdleMongo == impl = "node" /\ MongoInit
IdleIntro == engine = "sqlite" /\ db = <<>> /\ optIn = FALSE /\ IntroInit
IdlePrune == schema = EmptySchema /\ PruneStart
IdleStores == StoresInit

RulesInit ==
  \/ focus = "text" /\ TextInit /\ IdleSql /\ IdlePipeline /\ IdleHint /\ IdleMongo /\ IdleIntro /\ IdlePrune /\ IdleStores
  \/ focus = "sql" /\ GuardInit /\ IdleText /\ IdlePipeline /\ IdleHint /\ IdleMongo /\ IdleIntro /\ IdlePrune /\ IdleStores
  \/ focus = "pipeline" /\ PipelineInit /\ IdleText /\ IdleSql /\ IdleHint /\ IdleMongo /\ IdleIntro /\ IdlePrune /\ IdleStores
  \/ focus = "hint" /\ HintInit /\ IdleText /\ IdleSql /\ IdlePipeline /\ IdleMongo /\ IdleIntro /\ IdlePrune /\ IdleStores
  \/ focus = "mongo" /\ MongoInit /\ IdleText /\ IdleSql /\ IdlePipeline /\ IdleHint /\ IdleIntro /\ IdlePrune /\ IdleStores
  \/ focus = "catalog" /\ IntroInit /\ IdleText /\ IdleSql /\ IdlePipeline /\ IdleHint /\ IdleMongo /\ IdlePrune /\ IdleStores
  \/ focus = "prompt" /\ PruneInit /\ IdleText /\ IdleSql /\ IdlePipeline /\ IdleHint /\ IdleMongo /\ IdleIntro /\ IdleStores
  \/ focus = "stores" /\ StoresInit /\ IdleText /\ IdleSql /\ IdlePipeline /\ IdleHint /\ IdleMongo /\ IdleIntro /\ IdlePrune

RulesNext ==
  \/ focus = "text" /\ TextNext /\ UNCHANGED <<focus, guardVars, pipelineVars, hintVars, mongoVars, introVars, pruneVars, storeVars>>
  \/ focus = "sql" /\ GuardNext /\ UNCHANGED <<focus, textVars, pipelineVars, hintVars, mongoVars, introVars, pruneVars, storeVars>>
  \/ focus = "pipeline" /\ PipelineNext /\ UNCHANGED <<focus, textVars, guardVars, hintVars, mongoVars, introVars, pruneVars, storeVars>>
  \/ focus = "hint" /\ HintNext /\ UNCHANGED <<focus, textVars, guardVars, pipelineVars, mongoVars, introVars, pruneVars, storeVars>>
  \/ focus = "mongo" /\ MongoNext /\ UNCHANGED <<focus, textVars, guardVars, pipelineVars, hintVars, introVars, pruneVars, storeVars>>
  \/ focus = "catalog" /\ IntroNext /\ UNCHANGED <<focus, textVars, guardVars, pipelineVars, hintVars, mongoVars, pruneVars, storeVars>>
  \/ focus = "prompt" /\ PruneNext /\ UNCHANGED <<focus, textVars, guardVars, pipelineVars, hintVars, mongoVars, introVars, storeVars>>
  \/ focus = "stores" /\ StoresNext /\ UNCHANGED <<focus, textVars, guardVars, pipelineVars, hintVars, mongoVars, introVars, pruneVars>>

RulesSpec == RulesInit /\ [][RulesNext]_rulesVars

\* Documents of one or two keys, in the root or one object deep; keys that are
\* fields ("a", "b"), data ("@"), or hold a dot ("a.b", "a.@").
MCKeys == {<<"a">>, <<"b">>, <<"@">>, <<"a", "b">>, <<"a", "@">>}
MCVisits == [prefix : MCKeys \cup {<<>>}, key : MCKeys]
MCDocuments ==
  {d \in {{v, w} : v \in MCVisits, w \in MCVisits} : \A v \in d : v.prefix \in Texts(d) \cup {<<>>}}

\* Schemas of up to three objects.
MCObjects ==
  {[kind |-> "table", cols |-> <<"moment">>], [kind |-> "table", cols |-> <<"text", "noted", "moment">>],
   [kind |-> "table", cols |-> <<"plain", "text">>], [kind |-> "view", cols |-> <<"text">>],
   [kind |-> "trigger", cols |-> <<>>]}
MCDatabases == UNION {[1..n -> MCObjects] : n \in 0..3}

\* Schemas of a table "a" and two tables "b", in schemas "s" and "r", with narrow and wide tables
\* and foreign keys that name a schema, or none.
Col(hit, size, base) == [hit |-> hit, size |-> size, base |-> base]
Narrow == <<Col(TRUE, 1, ""), Col(FALSE, 1, ""), Col(FALSE, 1, "b")>>
Wide == <<Col(TRUE, 1, ""), Col(FALSE, 2, ""), Col(FALSE, 1, "b"), Col(FALSE, 2, "")>>
Names(s, n) == [cols |-> <<3>>, schema |-> s, name |-> n, refCols |-> <<3>>]
TablesNamed(s, n, fks) ==
  [schema : {s}, name : {n}, partition : {FALSE}, hits : {<<"name">>, <<"column">>, <<"none">>}, head : {1},
   cols : {Wide, Narrow}, pk : {{1}}, fks : {{}} \cup {{fk} : fk \in fks}]
  \cup
  [schema : {s}, name : {n}, partition : BOOLEAN, hits : {<<"name">>}, head : {1}, cols : {<<Col(FALSE, 2, "")>>},
   pk : {{1}}, fks : {{}}]
MCSchemas ==
  {[tables |-> <<t, u, v>>, sections |-> 0] :
     t \in TablesNamed("s", "a", {Names("", "b"), Names("r", "b")}),
     u \in TablesNamed("s", "b", {Names("s", "a")}), v \in TablesNamed("r", "b", {Names("s", "b")})}

\* Pipelines of up to two stages, those with sub-pipelines included, and a stage in a branch of a
\* branch, up to three deep.
MCLength == 2
MCFlat(op) == [op |-> op, rows |-> 0, subs |-> <<>>]
MCLimit(op, n) == [op |-> op, rows |-> n, subs |-> <<>>]
MCSequences(S, n) == UNION {[1..k -> S] : k \in 0..n}
MCInner == {MCFlat(op) : op \in {"match", "push", "unwind", "out"}} \union {MCLimit("limit", n) : n \in {1, PipelineCap + 1}}
MCStages ==
  {MCFlat(op) : op \in {"match", "group", "push", "unwind", "where", "regex", "out", "twoKeys"}}
  \union {MCLimit("limit", n) : n \in {1, PipelineCap + 1, TextRows}} \union {MCLimit("sample", 1)}
  \union {[op |-> op, rows |-> 0, subs |-> <<s>>] :
            op \in {"facet", "lookup", "unionWith"}, s \in MCSequences(MCInner, 2)}
  \union {[op |-> "facet", rows |-> 0, subs |-> <<s, t>>] : s \in MCSequences(MCInner, 1), t \in MCSequences(MCInner, 1)}
MCShallow(s) == [k \in DOMAIN s |-> [op |-> s[k].op, rows |-> s[k].rows]]
MCPlaced(s) ==
  [b \in {<<>>} \union UNION {{<<k, i>> : i \in DOMAIN s[k].subs} : k \in DOMAIN s} |->
     MCShallow(IF b = <<>> THEN s ELSE s[b[1]].subs[b[2]])]
MCDeep(ops, s) ==
  [b \in {[n \in 1..(2 * d) |-> 1] : d \in 0..Len(ops)} |->
     MCShallow(IF Len(b) = 2 * Len(ops) THEN s ELSE <<MCFlat(ops[Len(b) \div 2 + 1])>>)]
MCPipelines ==
  {MCPlaced(s) : s \in MCSequences(MCStages, MCLength)}
  \union {MCDeep(ops, s) : ops \in [1..2 -> {"facet", "lookup"}] \union {<<"facet", "facet", "facet">>},
                           s \in MCSequences(MCInner, 2)}

\* Three texts, two of which share a word.
MCWords == [total |-> {"sum"}, totals |-> {"sum", "month"}, names |-> {"name"}]

(* No statement the guards let through returns more rows than the cap: the *)
(* text core writes (CoreCapBinds), the statement either SQL guard allows  *)
(* (CapHolds), and a MongoDB pipeline (PipelineBounded).                   *)
RowsCapped == CoreCapBinds /\ CapHolds /\ PipelineBounded
=============================================================================
