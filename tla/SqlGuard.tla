------------------------------ MODULE SqlGuard ------------------------------
(***************************************************************************)
(* The verdict of the SQL guards: core's guardSql (guard.ts) and its IDE   *)
(* port (SqlGuard.kt, DenyLists.kt), rule by rule, and what each does to   *)
(* the row limit.  The engine guards a statement when it is written and    *)
(* again when it is executed, on the text the first pass returned.         *)
(*                                                                         *)
(* A statement is a record: its engine, its verb, what is wrong with it if *)
(* anything, and its row limits in the order of the text; the last one is  *)
(* the statement's own, the ones before it belong to subqueries or, when   *)
(* paren holds, to the parenthesised branches of a set operation.          *)
(***************************************************************************)
EXTENDS Naturals, Sequences, SequencesExt, FiniteSetsExt

CONSTANTS Engines,     \* of "postgres", "mysql", "sqlite", "duckdb", "oracle"
          Counts,      \* row counts a statement may ask for
          MaxRows      \* the policy's row cap

Unlimited == MaxRows + 1    \* more rows than the cap

ASSUME SqlGuardAssumption ==
    Counts \subseteq Nat /\ MaxRows \in Nat \ {0}

Clause(k, n) == [kind |-> k, rows |-> n]
NoLimit == Clause("none", 0)
OwnLimits == {NoLimit, Clause("all", 0), Clause("param", 0), Clause("offset", 0), Clause("percent", 0)}
               \union {Clause(k, n) : k \in {"count", "countOffset", "pair", "fetch"}, n \in Counts}
InnerLimits == {Clause("all", 0)} \union {Clause("count", n) : n \in Counts}

Verbs == {"select", "explain", "pragmaRead", "pragmaOther", "showPlain", "showOther", "showCall"}

(* The deny lists; a name or two stand for each list. *)
PG_DENY_FUNCTIONS == {"pg_sleep"}
MYSQL_DENY_FUNCTIONS == {"load_file"}
SQLITE_DENY_FUNCTIONS == {"load_extension"}
DUCKDB_DENY_ALWAYS == {"getenv"}
ORACLE_DENY_FUNCTIONS == {"httpuritype"}
DENY_PREFIXED == {"pg_ls_dir", "utl_file.fopen"}
DUCKDB_SUFFIXED == {"delta_scan"}
DUCKDB_PREFIXED == {"read_any"}
DUCKDB_ONLY_DENY == {"current_setting"}
DUCKDB_FILE_FUNCTIONS == {"glob"}
HOST_DENY == {"denied_by_host"}
UNIVERSAL_DENY == PG_DENY_FUNCTIONS \union MYSQL_DENY_FUNCTIONS \union SQLITE_DENY_FUNCTIONS
                    \union DUCKDB_DENY_ALWAYS \union ORACLE_DENY_FUNCTIONS
Functions == {"upper"} \union UNIVERSAL_DENY \union DENY_PREFIXED \union DUCKDB_SUFFIXED \union DUCKDB_PREFIXED
               \union DUCKDB_ONLY_DENY \union DUCKDB_FILE_FUNCTIONS \union HOST_DENY

(* What can be wrong with a statement, besides a function it calls. *)
Faults == {"none", "empty", "tooLong", "executableComment", "second", "locking", "outfile",
           "backtick", "recursive", "unparseable", "write", "writeInside", "into",
           "fileRelation", "compressedFile", "nextval", "tooDeep"}

VARIABLES stmt,     \* the statement as it stands
          first,    \* the statement as it was written
          guard,    \* "core" or "ide"
          files,    \* policy.allowFileFunctions
          verdict,  \* the rule that blocked it, "allowed", or "pending"
          passes    \* guard passes so far

guardVars == <<stmt, first, guard, files, verdict, passes>>

Own(s) == s.limits[Len(s.limits)]               \* the statement's own limit
IsFetch(e) == e = "oracle"                      \* dialect.limitStyle
Quote(e) == IF e = "mysql" THEN "backtick" ELSE "double"

-----------------------------------------------------------------------------
(* A function is refused everywhere, or on DuckDB only, or there unless the
   policy allows file functions. *)
CoreDenies(e, fn, allowFiles) ==
    \/ fn \in UNIVERSAL_DENY \union DENY_PREFIXED \union HOST_DENY
    \/ e = "duckdb" /\ fn \in DUCKDB_ONLY_DENY \union DUCKDB_SUFFIXED
    \/ e = "duckdb" /\ ~allowFiles /\ fn \in DUCKDB_FILE_FUNCTIONS \union DUCKDB_PREFIXED

(* denySetFor, denySuffixesFor and denyPrefixesFor of DenyLists.kt, whose
   lists are core's. *)
IdeDenies(e, fn, allowFiles) ==
    \/ fn \in UNIVERSAL_DENY \union HOST_DENY \union DENY_PREFIXED
    \/ e = "duckdb" /\ (fn \in DUCKDB_ONLY_DENY \/ (fn \in DUCKDB_FILE_FUNCTIONS /\ ~allowFiles))
    \/ e = "duckdb" /\ (fn \in DUCKDB_SUFFIXED \/ (fn \in DUCKDB_PREFIXED /\ ~allowFiles))

(* looksLikeFileOrUrl of guard.ts and of SqlGuard.kt, which does not know the
   suffixes of compressed files. *)
CoreFileRelation(s) == s.fault \in {"fileRelation", "compressedFile"}
IdeFileRelation(s) == s.fault = "fileRelation"

(* The pseudo-column that advances an Oracle sequence. *)
AdvancesSequence(s) == s.engine = "oracle" /\ s.fault = "nextval"

(* A write anywhere in the tree, and WITH ... AS (INSERT ...). *)
WritesInside(s) == s.fault = "writeInside"

(* The name of the first rule of a list that applies, or "none". *)
FirstRule(rules) ==
    LET hits == {k \in 1..Len(rules) : rules[k][1]}
    IN IF hits = {} THEN "none" ELSE rules[Min(hits)][2]

RunsComment(s) == s.engine = "mysql" /\ s.fault = "executableComment"
Pragma(s) == s.engine = "sqlite" /\ s.verb \in {"pragmaRead", "pragmaOther"}
Show(s) == s.engine = "mysql" /\ s.verb \in {"showPlain", "showOther", "showCall"}

(* walk of guard.ts: what the tree of a parsed SELECT may not hold. *)
CoreWalk(s, allowFiles) == FirstRule(<<
    <<s.fault = "tooDeep", "too_deep">>,
    <<WritesInside(s), "statement_not_allowed">>,
    <<s.fault = "into", "select_into">>,
    <<CoreFileRelation(s), "file_relation">>,
    <<AdvancesSequence(s), "sequence_pseudo_column">>,
    <<CoreDenies(s.engine, s.fn, allowFiles), "function_denied">> >>)

(* walkSelect and walkPlainSelect of SqlGuard.kt *)
IdeWalk(s, allowFiles) == FirstRule(<<
    <<s.fault = "tooDeep", "too_deep">>,
    <<WritesInside(s), "writable_cte">>,
    <<s.fault = "into", "select_into">>,
    <<IdeFileRelation(s), "file_relation">>,
    <<IdeDenies(s.engine, s.fn, allowFiles), "function_denied">>,
    <<AdvancesSequence(s), "sequence_pseudo_column">> >>)

(* sqliteRecursiveWedge: a recursive query that must be read whole, unbounded. *)
Wedges(s) == s.engine = "sqlite" /\ s.fault = "recursive"
             /\ \A k \in 1..Len(s.limits) : s.limits[k].kind = "none"

(* Every check of guardSql up to the row limit, in its order. *)
CoreRule(s, allowFiles) == FirstRule(<<
    <<s.fault = "empty", "empty">>,
    <<s.fault = "tooLong", "too_long">>,
    <<RunsComment(s), "mysql_executable_comment">>,
    <<s.fault = "second", "multi_statement">>,
    <<Pragma(s), IF s.verb = "pragmaRead" THEN "allowed" ELSE "pragma_denied">>,
    <<Show(s) /\ s.verb = "showCall", "show_expression">>,
    <<Show(s), IF s.verb = "showPlain" THEN "allowed" ELSE "show_denied">>,
    <<IsFetch(s.engine) /\ Own(s).kind \in {"countOffset", "param"}, "limit_unsupported">>,
    <<s.fault = "locking", "locking_clause">>,
    <<s.fault = "outfile", "into_outfile">>,
    <<s.fault = "backtick" /\ Quote(s.engine) # "backtick", "backtick_identifier">>,
    <<Wedges(s), "recursive_no_limit">>,
    <<s.fault = "unparseable" \/ s.verb \notin {"select", "explain"}
        \/ (s.verb = "explain" /\ Own(s).kind \in {"fetch", "percent"}), "parse_failed">>,
    <<s.fault = "write", "statement_not_allowed">>,
    <<CoreWalk(s, allowFiles) # "none", CoreWalk(s, allowFiles)>> >>)

(* The same of SqlGuard.guard *)
IdeRule(s, allowFiles) == FirstRule(<<
    <<s.fault = "empty", "empty">>,
    <<s.fault = "tooLong", "too_long">>,
    <<RunsComment(s), "mysql_executable_comment">>,
    <<s.fault = "second", "multi_statement">>,
    <<Pragma(s), IF s.verb = "pragmaRead" THEN "allowed" ELSE "pragma_denied">>,
    <<Show(s), IF s.verb = "showCall" THEN "show_expression"
               ELSE IF s.verb = "showPlain" THEN "allowed" ELSE "show_denied">>,
    <<s.fault = "locking", "locking_clause">>,
    <<s.fault = "outfile", "into_outfile">>,
    <<s.fault = "backtick" /\ Quote(s.engine) # "backtick", "backtick_identifier">>,
    <<s.fault = "unparseable" \/ s.verb \notin {"select", "explain"}, "parse_failed">>,
    <<s.fault = "write", "statement_not_allowed">>,
    <<IdeWalk(s, allowFiles) # "none", IdeWalk(s, allowFiles)>> >>)

-----------------------------------------------------------------------------
(* The row limit.  A pass returns the rule it ends with and the limits. *)

Numeric == {"count", "countOffset", "pair"}
Pass(rule, limits) == [rule |-> rule, limits |-> limits]
SetRows(limits, k, kind) == [limits EXCEPT ![k] = Clause(kind, MaxRows)]
SetOwn(s, kind) == SetRows(s.limits, Len(s.limits), kind)

(* inspectLimit and statementLevelLimit: the limit of the statement itself. *)
Status(own) ==
    CASE own.kind \in {"none", "offset"} -> "none"
      [] own.kind = "all"                -> "unbounded"
      [] own.kind = "param"              -> "nonliteral"
      [] own.rows > MaxRows              -> "high"
      [] OTHER                           -> "ok"

(* lowerLimitInText: the last LIMIT of the text that carries a number. *)
LastNumeric(limits) ==
    Max({0} \union {k \in 1..Len(limits) : limits[k].kind \in Numeric})
LowerAt(limits) == LastNumeric(limits)

(* LIMIT ALL is replaced where the statement's own was found in the text, and
   otherwise at its first occurrence. *)
AllAt(s) ==
    IF s.paren THEN Len(s.limits)
    ELSE Min({k \in 1..Len(s.limits) : s.limits[k].kind = "all"})

AppendKind(own) == IF own.kind = "offset" THEN "countOffset" ELSE "count"

(* The limits of a dialect that has LIMIT. *)
CoreCap(s) ==
    LET status == Status(Own(s)) IN
    CASE status = "none"       -> Pass("allowed", SetOwn(s, AppendKind(Own(s))))
      [] status = "high"       -> Pass("allowed", SetRows(s.limits, LowerAt(s.limits), s.limits[LowerAt(s.limits)].kind))
      [] status = "unbounded"  -> Pass("allowed", SetRows(s.limits, AllAt(s), "count"))
      [] status = "nonliteral" -> Pass("limit_nonliteral", s.limits)
      [] OTHER                 -> Pass("allowed", s.limits)

(* Oracle: a plain trailing LIMIT becomes a FETCH, any other was sent back; a
   FETCH count is lowered inside its clause, and with no count to lower the
   driver caps the rows. *)
OracleCap(s) ==
    LET own == Own(s) IN
    CASE own.kind \in {"count", "fetch"} ->
           Pass("allowed", [s.limits EXCEPT ![Len(s.limits)] = Clause("fetch", Min({own.rows, MaxRows}))])
      [] own.kind = "all"                -> Pass("allowed", SetRows(s.limits, AllAt(s), "count"))
      [] OTHER                           -> Pass("allowed", s.limits)

CorePass(s, allowFiles) ==
    LET rule == CoreRule(s, allowFiles) IN
    IF rule # "none" \/ s.verb = "explain"
      THEN Pass(IF rule = "none" THEN "allowed" ELSE rule, s.limits)
      ELSE IF IsFetch(s.engine) THEN OracleCap(s) ELSE CoreCap(s)

(* SqlGuard.kt lowers the limit in the tree it parsed, so it always finds the
   statement's own. *)
IdeCap(s) ==
    LET status == Status(Own(s)) IN
    CASE status = "none"       -> Pass("allowed", SetOwn(s, AppendKind(Own(s))))
      [] status = "high"       -> Pass("allowed", SetOwn(s, Own(s).kind))
      [] status = "unbounded"  -> Pass("allowed", SetOwn(s, "count"))
      [] status = "nonliteral" -> Pass("limit_nonliteral", s.limits)
      [] OTHER                 -> Pass("allowed", s.limits)

IdeOracleCap(s) ==
    LET own == Own(s) IN
    CASE own.kind \in {"countOffset", "param", "all"} \/ (own.kind = "count" /\ own.rows = 0) ->
           Pass("limit_unsupported", s.limits)
      [] own.kind = "fetch" \/ (own.kind = "count" /\ own.rows > 0) ->
           Pass("allowed", [s.limits EXCEPT ![Len(s.limits)] = Clause("fetch", Min({own.rows, MaxRows}))])
      [] own.kind = "percent"            -> Pass("allowed", s.limits)
      [] OTHER                           -> Pass("allowed", SetOwn(s, "fetch"))

IdePass(s, allowFiles) ==
    LET rule == IdeRule(s, allowFiles) IN
    IF rule # "none" \/ s.verb = "explain"
      THEN Pass(IF rule = "none" THEN "allowed" ELSE rule, s.limits)
      ELSE IF IsFetch(s.engine) THEN IdeOracleCap(s) ELSE IdeCap(s)

-----------------------------------------------------------------------------
(* The clauses each dialect can write. *)
Writable(e) ==
    {c \in OwnLimits : /\ c.kind \in {"fetch", "percent"} => IsFetch(e)
                       /\ c.kind = "pair" => e = "mysql"
                       /\ c.kind \in {"all", "offset"} => e # "mysql"
                       /\ c.kind = "offset" => e # "oracle"}

Shapes(verbs, faults, functions, parens, limits) ==
    [engine : Engines, verb : verbs, fault : faults, fn : functions, paren : parens, limits : limits]
Alone == {<<c>> : c \in OwnLimits}
Nested == {<<i, c>> : i \in InnerLimits, c \in OwnLimits}
Queries == {"select", "explain"}

(* One thing is odd about a statement: a fault, a function, or its limits. *)
Statements ==
    {s \in Shapes(Queries, Faults, {"upper"}, {FALSE}, Alone \union Nested)
             \union Shapes(Queries, {"none"}, Functions, {FALSE}, Alone)
             \union Shapes(Queries, {"none"}, {"upper"}, {TRUE}, Nested)
             \union Shapes(Verbs \ Queries, {"none"}, {"upper"}, {FALSE}, {<<NoLimit>>}) :
       /\ Own(s) \in Writable(s.engine)
       /\ s.engine \in {"mysql", "oracle"} => s.limits[1].kind # "all" \/ Len(s.limits) = 1}

GuardInit ==
    /\ stmt \in Statements
    /\ first = stmt
    /\ guard \in {"core", "ide"}
    /\ files \in BOOLEAN
    /\ verdict = "pending" /\ passes = 0

(* guardSql when the model has answered, and again when the user runs it. *)
Guard ==
    /\ passes < 2 /\ verdict \in {"pending", "allowed"}
    /\ LET p == IF guard = "core" THEN CorePass(stmt, files) ELSE IdePass(stmt, files) IN
       /\ verdict' = p.rule
       /\ stmt' = [stmt EXCEPT !.limits = IF p.rule = "allowed" THEN p.limits ELSE @]
    /\ passes' = passes + 1
    /\ UNCHANGED <<first, guard, files>>

GuardNext == Guard
GuardSpec == GuardInit /\ [][GuardNext]_guardVars

-----------------------------------------------------------------------------
(* The rows a limit lets through. *)
Bound(c) == IF c.kind \in Numeric \union {"fetch"} THEN c.rows ELSE Unlimited

(* Oracle rows are capped by the driver where the guard leaves no count. *)
DriverCaps(s) == IsFetch(s.engine) /\ Own(s).kind \in {"none", "percent"}

(* A subquery and the statement around it both say LIMIT ALL. *)
NestedAll(s) == ~s.paren /\ Len(s.limits) = 2 /\ s.limits[1].kind = "all" /\ s.limits[2].kind = "all"

(* What the guard lets through asks for the rows it asked for or the cap,
   whichever is less, and for nothing else: no limit of a subquery or of a
   branch has changed. *)
CappedAsAsked ==
    verdict = "allowed" /\ stmt.verb = "select" =>
      /\ SubSeq(stmt.limits, 1, Len(stmt.limits) - 1) = SubSeq(first.limits, 1, Len(first.limits) - 1)
      /\ DriverCaps(stmt) \/ Bound(Own(stmt)) = Min({Bound(Own(first)), MaxRows})

(* Both guards, on both passes, cap a statement as CappedAsAsked says, and a
   statement they let through once they let through again: what the user was
   shown is what runs.  (Core's guard replaces the wrong LIMIT ALL of two.) *)
CapHolds ==
    /\ (guard = "core" /\ NestedAll(first)) \/ CappedAsAsked
    /\ passes = 2 => verdict = "allowed"

(* "Parity contract: a strict subset of core's guard.ts" (SqlGuard.kt 32):
   the IDE lets nothing through that core refuses. *)
IdeWithinCore ==
    guard = "ide" /\ passes = 1 /\ verdict = "allowed" => CorePass(first, files).rule = "allowed"
=============================================================================
