---------------------------- MODULE AskPipeline ----------------------------
(***************************************************************************)
(* askImpl, the run() it returns and executeGuarded (packages/core/src/    *)
(* engine.ts): one question from the routing tests to the answer, through  *)
(* the model calls, the repair loop and its floors, then the executions of *)
(* the answer.  Both abort signals (the ask's and the execution's) may     *)
(* fire at any moment.                                                     *)
(*                                                                         *)
(* A statement is abstracted to what the code tests: the spellings of it   *)
(* the guard allows, the flaws each spelling has (quoting a name changes   *)
(* what it resolves to), its own row limit and the number of coded columns *)
(* to probe.  What is returned, run and repaired is one of the spellings.  *)
(* A prompt is the set of row data it carries.  The catalog and connect    *)
(* steps are those of EngineCatalog.                                       *)
(***************************************************************************)
EXTENDS Integers, FiniteSets

CONSTANTS
  MAX_REPAIRS,        \* repair attempts of the loop
  CODE_MAX_PROBES,    \* coded columns confirmed per statement
  MaxRetries,         \* retries inside one callModel
  AllowDataInPrompt,  \* config.allowDataInPrompt
  FetchStyle,         \* dialect.limitStyle = 'fetch': no LIMIT is injected
  MaxRows,            \* policy.maxRows
  SqlReplies,         \* the statements replies may hold, in all their spellings
  Limits,             \* the row limits replies may have; 0 is "no LIMIT"
  Totals,             \* the rows the database may hold
  MaxRuns             \* bound on executions of one answer

AllFlaws == {"literalOnly", "unknownTable", "ambiguous", "ungrouped", "nested",
             "fanOut", "epoch", "unknownColumn"}

(* The model's own text; its catalog names quoted; and reserved aliases    *)
(* too.  A spelling that does not exist is one the guard does not allow.   *)
Spellings == {"normalised", "names", "raw"}
Statements == [allowed : SUBSET Spellings, flaws : [Spellings -> SUBSET AllFlaws]]

ASSUME AskPipelineAssumption ==
  /\ MAX_REPAIRS \in Nat /\ CODE_MAX_PROBES \in Nat /\ MaxRetries \in Nat
  /\ AllowDataInPrompt \in BOOLEAN /\ FetchStyle \in BOOLEAN
  /\ MaxRows \in Nat \ {0} /\ MaxRuns \in Nat
  /\ SqlReplies \subseteq Statements
  /\ Limits \subseteq Nat /\ Totals \subseteq Nat

VARIABLES
  pc,         \* where the engine is suspended
  attempt,    \* the loop variable
  oneShots,   \* contextShrunk, triedMetadataRepair, triedFuzzyRepair
  allEmpty,   \* everyReplyEmpty
  prompt,     \* the row data userPrompt carries
  calls,      \* callModel calls of this ask, run() excluded
  tries,      \* the retry counter of the present callModel
  inflight,   \* a provider request is under way
  sentWith,   \* the signals already aborted when the last request was sent
  aborted,    \* the signals aborted so far
  sql,        \* the statement under test, then the accepted one
  probes,     \* probes left for it
  notes,      \* semanticNotes
  error,      \* the code of the last error thrown; "none"
  suggested,  \* suggestedSql was attached to the error
  stmt,       \* the execution under way: limit and caps of the statement
  result,     \* the last ResultSet
  total,      \* rows the statement would return without a limit
  runs,       \* executions so far
  happened,   \* executions by what happened to them
  history,    \* rows the history store holds, by status
  lost        \* history writes that failed and became a warning

callVars == <<calls, tries, inflight, sentWith>>
loopVars == <<attempt, oneShots, allEmpty, prompt, sql, probes, notes>>
execVars == <<suggested, stmt, result, runs, happened, history, lost>>
vars == <<pc, callVars, loopVars, execVars, error, aborted, total>>

Signals == {"ask", "exec"}
Statuses == {"ok", "error", "blocked"}
NoSql == [spelling |-> "raw", allowed |-> {}, flaws |-> {}, own |-> 0, limit |-> 0,
          auto |-> FALSE, lowered |-> FALSE, written |-> FALSE]
NoStmt == [origin |-> "none", own |-> 0, limit |-> 0, cap |-> 0, flagged |-> FALSE]
NoResult == [origin |-> "none", rows |-> 0, truncated |-> FALSE, wanted |-> 0]
Quiet == {"idle", "answered", "failed"}

(* One call per attempt, and one for each kind of free retry.              *)
CallBudget == MAX_REPAIRS + 1 + 3

Smaller(a, b) == IF a <= b THEN a ELSE b

-----------------------------------------------------------------------------
(* guardSql, row cap: what it makes of a statement's limit.  A high limit  *)
(* whose number cannot be edited in the text is left to the connector.     *)
Caps(limit) ==
  CASE limit = 0 /\ FetchStyle -> {[limit |-> 0, auto |-> FALSE, lowered |-> FALSE]}
    [] limit = 0 /\ ~FetchStyle -> {[limit |-> MaxRows, auto |-> TRUE, lowered |-> FALSE]}
    [] limit > MaxRows -> {[limit |-> MaxRows, auto |-> FALSE, lowered |-> TRUE],
                           [limit |-> limit, auto |-> FALSE, lowered |-> FALSE]}
    [] OTHER -> {[limit |-> limit, auto |-> FALSE, lowered |-> FALSE]}

(* The verdict the floors read and the answer is made of: the quoted       *)
(* spellings first, the model's own text when neither is allowed.          *)
JudgedSpelling(reply) ==
  CASE "normalised" \in reply.allowed -> "normalised"
    [] "normalised" \notin reply.allowed /\ "names" \in reply.allowed -> "names"
    [] OTHER -> "raw"

Blocked(reply) == JudgedSpelling(reply) \notin reply.allowed
FlawsJudged(reply) == reply.flaws[JudgedSpelling(reply)]

(* Mutant: the text extracted from the reply is what ask() returns.        *)
ReturnsExtracted(reply) == "raw"

(* finalSql: the text ask() returns and run() executes.                    *)
FinalSql(reply) == JudgedSpelling(reply)

(* The statement ask() returns for a reply, as guardSql capped it.         *)
Guarded(reply, own, written) ==
  {[spelling |-> FinalSql(reply), allowed |-> reply.allowed,
    flaws |-> reply.flaws[FinalSql(reply)], own |-> own, limit |-> c.limit,
    auto |-> c.auto, lowered |-> c.lowered, written |-> written] : c \in Caps(own)}

(* A catalog query is guarded in the one spelling it was written in.       *)
CatalogQuery == [allowed |-> {"raw"}, flaws |-> [s \in Spellings |-> {}]]

(* The engine before a question; a question asked of it starts here again. *)
Init ==
  /\ pc = "idle" /\ attempt = 0 /\ oneShots = {} /\ allEmpty = TRUE
  /\ prompt = {} /\ calls = 0 /\ tries = 0 /\ inflight = FALSE
  /\ sentWith = {} /\ aborted = {}
  /\ sql = NoSql /\ probes = 0 /\ notes = {} /\ error = "none"
  /\ suggested = FALSE /\ stmt = NoStmt /\ result = NoResult
  /\ total \in Totals
  /\ runs = 0 /\ lost = 0
  /\ happened = [s \in Statuses |-> 0] /\ history = [s \in Statuses |-> 0]

(* Mutant: the 'ok' row's store failure is caught as the query's failure,  *)
(* which records an 'error' row.                                           *)
RecordHistoryThrows(status, stored) ==
  /\ happened' = [happened EXCEPT ![status] = @ + 1]
  /\ history' = IF stored THEN [history EXCEPT ![status] = @ + 1]
                ELSE [history EXCEPT !["error"] = @ + 1]
  /\ UNCHANGED lost

(* recordHistory never throws: a store that fails becomes a warning.       *)
RecordHistory(status, stored) ==
  /\ happened' = [happened EXCEPT ![status] = @ + 1]
  /\ history' = IF stored THEN [history EXCEPT ![status] = @ + 1] ELSE history
  /\ lost' = IF stored THEN lost ELSE lost + 1

Fail(code) == pc' = "failed" /\ error' = code

-----------------------------------------------------------------------------
(* Empty, too long, capability, injection, write and schema questions are  *)
(* refused, and an unreadable catalog fails, before any model call.        *)
AskRefused ==
  /\ pc = "idle" /\ runs = 0
  /\ \E code \in {"INVALID_INPUT", "LLM_BAD_OUTPUT", "DB_UNREACHABLE"} : Fail(code)
  /\ UNCHANGED <<callVars, loopVars, execVars, aborted, total>>

(* catalogQueryFor has an exact answer and the guard allows it: no model.  *)
AskWritten(own) ==
  /\ pc = "idle" /\ runs = 0
  /\ pc' = "answered"
  /\ sql' \in Guarded(CatalogQuery, own, TRUE)
  /\ UNCHANGED <<callVars, attempt, oneShots, allEmpty, prompt, probes, notes,
                 execVars, error, aborted, total>>

(* callModel up to its first await: the ask's signal is tested, and the    *)
(* request goes out in the same step.  A call that finds it aborted can    *)
(* only fail.                                                              *)
StartCall ==
  /\ pc' = "model" /\ tries' = 0
  /\ IF "ask" \in aborted THEN inflight' = FALSE /\ UNCHANGED <<calls, sentWith>>
     ELSE /\ inflight' = TRUE
          /\ sentWith' = aborted
          /\ calls' = Smaller(calls + 1, CallBudget + 1)

EndCall == inflight' = FALSE /\ tries' = 0 /\ UNCHANGED <<calls, sentWith>>

(* Prune, few-shots and the first prompt: sampled values of the catalog    *)
(* are there only with the opt-in (stripSampledValues).                    *)
AskPrompts(sampled) ==
  /\ pc = "idle" /\ runs = 0
  /\ prompt' = IF sampled /\ AllowDataInPrompt THEN {"sampled"} ELSE {}
  /\ StartCall
  /\ UNCHANGED <<attempt, oneShots, allEmpty, sql, probes, notes,
                 execVars, error, aborted, total>>

-----------------------------------------------------------------------------
(* callModel, from the loop ("model") or from tryRepairAfterDbError        *)
(* ("fix"): a retryable failure with retries left, the signal not aborted; *)
(* after the backoff the signal is tested again and the request is sent.   *)
RequestFails ==
  /\ pc \in {"model", "fix"} /\ inflight
  /\ tries < MaxRetries /\ "ask" \notin aborted
  /\ inflight' = FALSE /\ tries' = tries + 1
  /\ UNCHANGED <<pc, calls, sentWith, loopVars, execVars, error, aborted, total>>

(* Mutant: the signal is not tested again after the backoff.               *)
RetryBlindly ==
  /\ pc \in {"model", "fix"} /\ ~inflight /\ tries > 0
  /\ inflight' = TRUE
  /\ sentWith' = aborted
  /\ UNCHANGED <<pc, calls, tries, loopVars, execVars, error, aborted, total>>

RetryRequest ==
  /\ pc \in {"model", "fix"} /\ ~inflight /\ tries > 0
  /\ "ask" \notin aborted
  /\ inflight' = TRUE
  /\ sentWith' = aborted
  /\ UNCHANGED <<pc, calls, tries, loopVars, execVars, error, aborted, total>>

(* The call rejects: for good, by timeout, or because of the abort, which  *)
(* the model need not heed.  A failed repair leaves the database's error.  *)
CallFails(code) ==
  /\ pc \in {"model", "fix"}
  /\ inflight \/ "ask" \in aborted
  /\ code = "CANCELLED" <=> "ask" \in aborted
  /\ EndCall
  /\ \/ pc = "model" /\ Fail(code)
     \/ pc = "fix" /\ pc' = "answered" /\ UNCHANGED error
  /\ UNCHANGED <<loopVars, execVars, aborted, total>>

(* The loop's callModel resolved with a reply.                             *)
Replied == pc = "model" /\ inflight

(* `continue` with a repair prompt, while attempts are left.               *)
Repair(data) ==
  /\ attempt < MAX_REPAIRS
  /\ attempt' = attempt + 1
  /\ prompt' = (prompt \ {"probed"}) \cup data
  /\ StartCall /\ UNCHANGED error

(* Out of attempts, or refused: the loop throws.                           *)
Throw(code) == Fail(code) /\ EndCall /\ UNCHANGED <<attempt, prompt>>

(* Mutant: the free retry forgets that it was taken.                       *)
OneShotForgotten(name) ==
  /\ name \notin oneShots
  /\ prompt' = prompt \ {"probed"}
  /\ StartCall /\ UNCHANGED <<attempt, oneShots, error>>

(* `attempt -= 1; continue`: a retry that consumes no attempt, once.       *)
OneShot(name) ==
  /\ name \notin oneShots
  /\ oneShots' = oneShots \cup {name}
  /\ prompt' = prompt \ {"probed"}
  /\ StartCall /\ UNCHANGED <<attempt, error>>

(* Context overflow: shrink the schema once, else the error stands.        *)
ReplyOverflow ==
  /\ Replied
  /\ \/ OneShot("shrink")
     \/ "shrink" \in oneShots /\ Throw("LLM_CONTEXT_OVERFLOW") /\ UNCHANGED oneShots
  /\ UNCHANGED <<allEmpty, sql, probes, notes, execVars, aborted, total>>

(* IMPOSSIBLE: one retry for a structure question, one for a misspelled    *)
(* table, else refused.                                                    *)
ReplyImpossible(metadata, near) ==
  /\ Replied
  /\ allEmpty' = FALSE
  /\ LET retryMetadata == metadata /\ "metadata" \notin oneShots
         retryFuzzy    == ~retryMetadata /\ near /\ "fuzzy" \notin oneShots
     IN  \/ retryMetadata /\ OneShot("metadata")
         \/ retryFuzzy /\ OneShot("fuzzy")
         \/ ~retryMetadata /\ ~retryFuzzy /\ Throw("LLM_BAD_OUTPUT") /\ UNCHANGED oneShots
  /\ UNCHANGED <<sql, probes, notes, execVars, aborted, total>>

(* No SQL in the reply.                                                    *)
ReplyNoSql(kind) ==
  /\ Replied
  /\ allEmpty' = (allEmpty /\ kind = "empty")
  /\ \/ Repair({})
     \/ /\ attempt >= MAX_REPAIRS
        /\ Throw(CASE allEmpty' -> "LLM_UNAVAILABLE"
                   [] kind = "refusal" -> "LLM_REFUSAL"
                   [] OTHER -> "LLM_BAD_OUTPUT")
  /\ UNCHANGED <<oneShots, sql, probes, notes, execVars, aborted, total>>

(* The guard blocks every spelling of the statement.                       *)
ReplyBlocked(reply, stored) ==
  /\ Replied /\ Blocked(reply)
  /\ allEmpty' = FALSE
  /\ \/ Repair({}) /\ UNCHANGED <<sql, happened, history, lost>>
     \/ /\ attempt >= MAX_REPAIRS
        /\ sql' = [NoSql EXCEPT !.allowed = reply.allowed]
        /\ RecordHistory("blocked", stored)
        /\ Throw("GUARD_BLOCKED")
  /\ UNCHANGED <<oneShots, probes, notes, suggested, stmt, result, runs,
                 aborted, total>>

(* Every flaw is repaired while attempts are left; at the last one unknown *)
(* names are fatal, inflated and mis-scaled results get a note, and what   *)
(* every engine rejects is left to the engine.  A SELECT of a literal that *)
(* reads no table is refused at once.                                      *)
Fatal == {"unknownTable", "unknownColumn"}
Noted == {"fanOut", "epoch"}

(* Mutant: the floor of the last attempt says nothing.                     *)
Unnoted(flaws) == {}

PassesFloors(flaws) ==
  IF attempt < MAX_REPAIRS THEN flaws = {}
  ELSE flaws \cap (Fatal \cup {"literalOnly"}) = {}

NotesFor(flaws) == flaws \cap Noted

(* A floor rejects the spelling judged.                                    *)
ReplyFlawed(reply) ==
  /\ Replied /\ ~Blocked(reply) /\ ~PassesFloors(FlawsJudged(reply))
  /\ allEmpty' = FALSE
  /\ \/ "literalOnly" \notin FlawsJudged(reply) /\ Repair({})
     \/ /\ "literalOnly" \in FlawsJudged(reply) \/ attempt >= MAX_REPAIRS
        /\ Throw("LLM_BAD_OUTPUT")
  /\ UNCHANGED <<oneShots, sql, probes, notes, execVars, aborted, total>>

(* The floors let it pass: its coded columns are probed next.              *)
ReplyAccepted(reply, own, codes) ==
  /\ Replied /\ ~Blocked(reply) /\ PassesFloors(FlawsJudged(reply))
  /\ allEmpty' = FALSE
  /\ sql' \in Guarded(reply, own, FALSE)
  /\ notes' = notes \cup NotesFor(FlawsJudged(reply))
  /\ probes' = Smaller(codes, CODE_MAX_PROBES)
  /\ pc' = IF probes' = 0 THEN "answered" ELSE "probe"
  /\ EndCall
  /\ UNCHANGED <<attempt, oneShots, prompt, execVars, error, aborted, total>>

(* Mutant: the values found go to the model, opt-in or not.                *)
AlwaysTellModel == TRUE

TellModel == AllowDataInPrompt

(* codeValuesOf sends its own SELECT DISTINCT straight to conn.execute.    *)
(* It says nothing, finds the literal, or shows that no row has it.        *)
Probe(absent) ==
  /\ pc = "probe" /\ probes > 0
  /\ \/ /\ ~absent
        /\ probes' = probes - 1
        /\ pc' = IF probes' = 0 THEN "answered" ELSE "probe"
        /\ UNCHANGED <<callVars, sql, notes, attempt, prompt, error>>
     \/ /\ absent /\ probes' = 0
        /\ TellModel /\ Repair({"probed"})
        /\ sql' = NoSql /\ UNCHANGED notes
     \/ /\ absent /\ probes' = 0
        /\ ~TellModel \/ attempt >= MAX_REPAIRS
        /\ sql' = [sql EXCEPT !.flaws = @ \cup {"code"}]
        /\ notes' = notes \cup {"code"}
        /\ pc' = "answered"
        /\ UNCHANGED <<callVars, attempt, prompt, error>>
  /\ UNCHANGED <<oneShots, allEmpty, execVars, aborted, total>>

-----------------------------------------------------------------------------
(* executeGuarded, up to conn.execute: the statement is guarded again, and *)
(* the ask-time verdict, when it is passed, still counts.                  *)
StartExecution(origin, own, limit, prior, max) ==
  /\ runs < MaxRuns
  /\ \E c \in Caps(limit) :
       stmt' = [origin |-> origin, own |-> own, limit |-> c.limit,
                cap |-> Smaller(max, MaxRows),
                flagged |-> c.auto \/ c.lowered \/ prior]
  /\ pc' = "executing"
  /\ runs' = runs + 1
  /\ error' = "none" /\ suggested' = FALSE /\ result' = NoResult
  /\ aborted' = aborted \ {"exec"}
  /\ UNCHANGED <<callVars, loopVars, happened, history, lost, total>>

(* Mutant: run() forgets the ask-time verdict.                             *)
RunForgetsVerdict(max) ==
  /\ pc = "answered" /\ ~sql.written
  /\ StartExecution("answer", sql.own, sql.limit, FALSE, max)

(* run() of a model's answer passes the ask-time verdict.                  *)
Run(max) ==
  /\ pc = "answered" /\ ~sql.written
  /\ StartExecution("answer", sql.own, sql.limit, sql.auto \/ sql.lowered, max)

(* run() of a query written from the catalog passes none.                  *)
RunWritten(max) ==
  /\ pc = "answered" /\ sql.written
  /\ StartExecution("written", sql.own, sql.limit, FALSE, max)

(* engine.execute(sql): the caller's own statement.                        *)
Execute(own, max) == pc = "idle" /\ StartExecution("user", own, own, FALSE, max)

ExecuteBlocked(stored) ==
  /\ pc = "idle" /\ runs < MaxRuns
  /\ runs' = runs + 1
  /\ RecordHistory("blocked", stored)
  /\ error' = "GUARD_BLOCKED"
  /\ UNCHANGED <<pc, callVars, loopVars, suggested, stmt, result, aborted, total>>

(* Where the caller of the execution finds itself once it has settled.     *)
AfterExecution == IF stmt.origin = "user" THEN "idle" ELSE "answered"

(* A LIMIT that the guard injected or lowered hides the overflow row from  *)
(* the connector, which reports truncation only when it sees one.          *)
Truncated(available, rows) ==
  available > stmt.cap \/ (stmt.flagged /\ rows >= stmt.cap)

ExecuteOk(stored) ==
  /\ pc = "executing"
  /\ pc' = AfterExecution
  /\ RecordHistory("ok", stored)
  /\ LET bound(n, limit) == IF limit = 0 THEN n ELSE Smaller(n, limit)
         available == bound(total, stmt.limit)
         rows == Smaller(available, stmt.cap)
     IN  result' = [origin |-> stmt.origin, rows |-> rows,
                    truncated |-> Truncated(available, rows),
                    wanted |-> bound(total, stmt.own)]
  /\ stmt' = NoStmt
  /\ UNCHANGED <<callVars, loopVars, suggested, runs, error, aborted, total>>

(* A driver's own rejection is CANCELLED when the signal is aborted, an    *)
(* AskSqlError keeps its code.                                             *)
ExecuteFails(code, stored) ==
  /\ pc = "executing"
  /\ code = "CANCELLED" => "exec" \in aborted
  /\ RecordHistory("error", stored)
  /\ error' = code
  /\ pc' = IF stmt.origin = "answer" THEN "dbError" ELSE AfterExecution
  /\ stmt' = NoStmt
  /\ UNCHANGED <<callVars, loopVars, suggested, result, runs, aborted, total>>

(* run()'s catch, a wrong-cased table: corrected from the catalog alone.   *)
MayRepair == error = "DB_QUERY_ERROR" /\ aborted = {}

CaseFix ==
  /\ pc = "dbError" /\ MayRepair
  /\ suggested' = TRUE
  /\ pc' = "answered"
  /\ UNCHANGED <<callVars, loopVars, stmt, result, runs, happened, history, lost,
                 error, aborted, total>>

(* Otherwise the model is asked for a correction, with the ask's signal.   *)
AskForFix ==
  /\ pc = "dbError" /\ MayRepair
  /\ pc' = "fix" /\ tries' = 0
  /\ inflight' = TRUE /\ sentWith' = aborted
  /\ UNCHANGED <<calls, loopVars, execVars, error, aborted, total>>

ThrowDbError ==
  /\ pc = "dbError" /\ ~MayRepair
  /\ pc' = "answered"
  /\ UNCHANGED <<callVars, loopVars, execVars, error, aborted, total>>

(* The correction is attached when the guard allows it and it is new.      *)
FixReply(usable) ==
  /\ pc = "fix" /\ inflight
  /\ suggested' = usable
  /\ pc' = "answered"
  /\ EndCall
  /\ UNCHANGED <<loopVars, stmt, result, runs, happened, history, lost,
                 error, aborted, total>>

-----------------------------------------------------------------------------
(* The caller aborts; an execution's signal lives as long as the execution.*)
Abort(s) ==
  /\ s \notin aborted
  /\ s = "exec" => pc \in {"executing", "dbError", "fix"}
  /\ aborted' = aborted \cup {s}
  /\ UNCHANGED <<pc, callVars, loopVars, execVars, error, total>>

(* The next question starts from nothing: askImpl keeps no state, and the  *)
(* counters of this model are those of one question or of its executions.  *)
NextQuestion ==
  /\ pc \in {"answered", "failed"} \/ (pc = "idle" /\ runs > 0)
  /\ pc' = "idle" /\ attempt' = 0 /\ oneShots' = {} /\ allEmpty' = TRUE
  /\ prompt' = {} /\ calls' = 0 /\ tries' = 0 /\ inflight' = FALSE
  /\ sentWith' = {} /\ aborted' = {}
  /\ sql' = NoSql /\ probes' = 0 /\ notes' = {} /\ error' = "none"
  /\ suggested' = FALSE /\ stmt' = NoStmt /\ result' = NoResult
  /\ total' \in Totals
  /\ runs' = 0 /\ lost' = 0
  /\ happened' = [s \in Statuses |-> 0] /\ history' = [s \in Statuses |-> 0]

ModelStep ==
  \/ RequestFails \/ RetryRequest
  \/ \E code \in {"CANCELLED", "LLM_TIMEOUT", "LLM_UNAVAILABLE"} : CallFails(code)
  \/ /\ pc = "model" /\ inflight
     /\ \/ ReplyOverflow
        \/ \E metadata, near \in BOOLEAN : ReplyImpossible(metadata, near)
        \/ \E kind \in {"empty", "refusal", "prose"} : ReplyNoSql(kind)
        \/ \E reply \in SqlReplies :
             \/ \E stored \in BOOLEAN : ReplyBlocked(reply, stored)
             \/ ReplyFlawed(reply)
             \/ \E own \in Limits, codes \in 0 .. CODE_MAX_PROBES + 1 :
                  ReplyAccepted(reply, own, codes)
  \/ \E absent \in BOOLEAN : Probe(absent)

ExecStep ==
  \/ \E stored \in BOOLEAN : ExecuteOk(stored)
  \/ \E code \in {"DB_QUERY_ERROR", "DB_TIMEOUT", "CANCELLED"}, stored \in BOOLEAN :
       ExecuteFails(code, stored)
  \/ CaseFix \/ AskForFix \/ ThrowDbError
  \/ \E usable \in BOOLEAN : FixReply(usable)

CallerStep ==
  \/ AskRefused
  \/ \E own \in Limits : AskWritten(own)
  \/ \E sampled \in BOOLEAN : AskPrompts(sampled)
  \/ \E max \in 1 .. MaxRows + 1 :
       Run(max) \/ RunWritten(max) \/ \E own \in Limits : Execute(own, max)
  \/ \E stored \in BOOLEAN : ExecuteBlocked(stored)
  \/ \E s \in Signals : Abort(s)
  \/ NextQuestion

Next == ModelStep \/ ExecStep \/ CallerStep

SafeSpec == Init /\ [][Next]_vars

(* callModel races every request with its timers, and connectors bound     *)
(* their executions: what the engine awaits settles.                       *)
Spec == SafeSpec /\ WF_vars(ModelStep) /\ WF_vars(ExecStep)
-----------------------------------------------------------------------------
(* The state of one question and of the executions of its answer.          *)
TypeOK ==
  /\ pc \in {"idle", "model", "probe", "answered", "failed", "executing", "dbError", "fix"}
  /\ attempt \in 0 .. MAX_REPAIRS
  /\ oneShots \subseteq {"shrink", "metadata", "fuzzy"}
  /\ allEmpty \in BOOLEAN /\ inflight \in BOOLEAN /\ suggested \in BOOLEAN
  /\ prompt \subseteq {"sampled", "probed"}
  /\ calls \in Nat /\ tries \in 0 .. MaxRetries
  /\ aborted \subseteq Signals /\ sentWith \subseteq Signals
  /\ sql \in [spelling : Spellings, allowed : SUBSET Spellings,
              flaws : SUBSET (AllFlaws \cup {"code"}), own : Nat, limit : Nat,
              auto : BOOLEAN, lowered : BOOLEAN, written : BOOLEAN]
  /\ probes \in 0 .. CODE_MAX_PROBES
  /\ notes \subseteq Noted \cup {"code"}
  /\ stmt \in [origin : {"none", "answer", "written", "user"}, own : Nat, limit : Nat,
               cap : Nat, flagged : BOOLEAN]
  /\ result \in [origin : {"none", "answer", "written", "user"}, rows : Nat,
                 truncated : BOOLEAN, wanted : Nat]
  /\ total \in Nat /\ runs \in Nat /\ lost \in Nat
  /\ happened \in [Statuses -> Nat] /\ history \in [Statuses -> Nat]

(* The free retries (`attempt -= 1`) cannot feed each other: one question  *)
(* costs at most MAX_REPAIRS + 1 model calls and one per kind of retry.    *)
ModelCallsBounded == calls <= CallBudget

(* ask() has a statement to return, or has returned it.                    *)
HasAnswer ==
  \/ pc \in {"probe", "answered", "dbError", "fix"}
  \/ pc = "executing" /\ stmt.origin # "user"

(* The text ask() returns, and run() executes, is a spelling the guard     *)
(* itself allowed, and in that spelling it reads some table and names no   *)
(* table or column the catalog lacks; and a question is blocked for safety *)
(* only when no spelling of the last reply was allowed.                    *)
AnswerIsGrounded ==
  /\ HasAnswer => /\ sql.spelling \in sql.allowed
                  /\ sql.flaws \cap (Fatal \cup {"literalOnly"}) = {}
  /\ pc = "failed" /\ error = "GUARD_BLOCKED" => sql.allowed = {}

(* "Out of repair attempts, the floor still speaks": an inflated total, a  *)
(* mis-scaled date or a code no row has is noted on the answer, and a note *)
(* is never left over from a statement that was repaired away.             *)
NotesMatchAnswer ==
  pc = "answered" => notes = sql.flaws \cap (Noted \cup {"code"})

(* Row values reach the provider only with allowDataInPrompt, whichever of *)
(* the loop's prompts is the one being sent.                               *)
RowDataNeedsOptIn == inflight /\ prompt # {} => AllowDataInPrompt

(* Once ask()'s signal is aborted no provider request is sent, neither by  *)
(* the loop, nor by a retry, nor by the repair after a database error.     *)
NoRequestAfterAbort == "ask" \notin sentWith

(* Every execution and every block leaves exactly one history row, with    *)
(* the status of what happened, or one warning when the store failed: a    *)
(* failing store never turns an answer that ran into an error.             *)
HistoryTellsTheTruth ==
  /\ \A s \in Statuses : history[s] <= happened[s]
  /\ happened["ok"] + happened["error"] + happened["blocked"]
       = history["ok"] + history["error"] + history["blocked"] + lost
  /\ pc # "executing" => happened["ok"] + happened["error"] + happened["blocked"] >= runs

(* A model's answer, and a caller's statement, cut short by a cap of ours  *)
(* is reported truncated, though the injected LIMIT is seen as the         *)
(* statement's own when it is guarded for the second time.                 *)
AnswerTruncationTold ==
  result.origin \in {"answer", "user"} /\ result.rows < result.wanted => result.truncated

(* What is told of an execution is what happened: its history row, and     *)
(* whether its rows are all there are.                                     *)
RunToldTruly == HistoryTellsTheTruth /\ AnswerTruncationTold

(* The same of every result, as executeGuarded's comment has it: "A capped *)
(* result that filled the cap counts as truncated".                        *)
TruncationTold == result.rows < result.wanted => result.truncated

(* Every ask() and every execution settles, whatever the model replies.    *)
QuestionSettles == pc \notin Quiet ~> pc \in Quiet
-----------------------------------------------------------------------------
(* The strengthening the proofs induct on, in parts.                       *)

(* The engine has no question: before it, or in a caller's own execute().  *)
NoQuestion == pc = "idle" \/ (pc = "executing" /\ stmt.origin = "user")

(* A call is paid for by an attempt or by a free retry, each taken once.   *)
LoopInv ==
  /\ attempt \in 0 .. MAX_REPAIRS
  /\ oneShots \subseteq {"shrink", "metadata", "fuzzy"}
  /\ calls \in Nat
  /\ calls <= attempt + 1 + Cardinality(oneShots)
  /\ NoQuestion => calls = 0

SqlTyped ==
  sql \in [spelling : Spellings, allowed : SUBSET Spellings,
           flaws : SUBSET (AllFlaws \cup {"code"}), own : Nat, limit : Nat,
           auto : BOOLEAN, lowered : BOOLEAN, written : BOOLEAN]

(* No note is pushed before the statement that ask() returns: one that may *)
(* still be repaired away has no flaw to note.                             *)
NotesInv ==
  /\ pc = "model" => notes = {}
  /\ pc = "probe" /\ attempt < MAX_REPAIRS => sql.flaws = {}
  /\ pc \notin {"model", "failed"} => notes = sql.flaws \cap (Noted \cup {"code"})
  /\ NoQuestion => sql.flaws = {}

(* Row data is in a prompt only with the opt-in, sent or not.              *)
PromptInv == prompt # {} => AllowDataInPrompt

(* The inductive invariant of the question and of its executions.          *)
AskInv == LoopInv /\ SqlTyped /\ NotesInv /\ PromptInv /\ AnswerIsGrounded

(* Every run is counted once it has settled, and stored or lost.           *)
Total(count) == count["ok"] + count["error"] + count["blocked"]

CountInv ==
  /\ happened \in [Statuses -> Nat] /\ history \in [Statuses -> Nat]
  /\ lost \in Nat /\ runs \in Nat
  /\ \A s \in Statuses : history[s] <= happened[s]
  /\ Total(happened) = Total(history) + lost
  /\ pc = "executing" => Total(happened) + 1 >= runs
  /\ pc # "executing" => Total(happened) >= runs

(* A limit that is not the statement's own is the policy's cap, was put    *)
(* there by the guard and cuts nothing the policy would have let through.  *)
Capped(own, limit, flagged) ==
  \/ limit = own
  \/ limit = MaxRows /\ flagged /\ (own = 0 \/ own >= MaxRows)

(* The verdict survives the second guard, and the result it flags.         *)
LimitInv ==
  /\ total \in Nat
  /\ sql.own \in Nat /\ sql.limit \in Nat
  /\ Capped(sql.own, sql.limit, sql.auto \/ sql.lowered)
  /\ pc = "executing" =>
       /\ stmt.own \in Nat /\ stmt.limit \in Nat
       /\ stmt.cap \in 1 .. MaxRows
       /\ stmt.origin \in {"answer", "user"} =>
            Capped(stmt.own, stmt.limit, stmt.flagged)
  /\ AnswerTruncationTold

(* The inductive invariant of the executions, beside the question's.       *)
RunInv == NoRequestAfterAbort /\ CountInv /\ LimitInv
=============================================================================
