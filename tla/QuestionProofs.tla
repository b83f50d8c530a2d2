-------------------------- MODULE QuestionProofs --------------------------
(***************************************************************************)
(* Theorems about how a question is answered: the ask and execute of core  *)
(* (AskPipeline), for any number of repairs, probes and retries, any row   *)
(* cap, any replies in any spellings with any flaws and limits; and the    *)
(* questions that are not SQL: the fields of a pipeline (StageFields), the *)
(* prose answers (SchemaAnswer) and the catalog of the Mongo engine        *)
(* (MongoEngine), for any names, any length of pipeline, any marks of      *)
(* questions and replies, and any number of callers and reads.             *)
(***************************************************************************)
EXTENDS AskPipeline, MongoEngine, StageFields, SchemaAnswer, FiniteSetTheorems, TLAPS

-----------------------------------------------------------------------------
(* AskPipeline *)

(* The free retries are three, so the budget holds for any set of them.     *)
LEMMA OneShotsCounted ==
  ASSUME NEW S \in SUBSET {"shrink", "metadata", "fuzzy"}
  PROVE  /\ IsFiniteSet(S) /\ Cardinality(S) \in Nat /\ Cardinality(S) <= 3
         /\ \A x \in {"shrink", "metadata", "fuzzy"} \ S :
              Cardinality(S \cup {x}) = Cardinality(S) + 1
  <1> DEFINE T == {"shrink", "metadata", "fuzzy"}
  <1>1. IsFiniteSet({}) /\ Cardinality({}) = 0
    BY FS_EmptySet
  <1>2. IsFiniteSet({"shrink"}) /\ Cardinality({"shrink"}) = 1
    BY FS_Singleton
  <1>3. IsFiniteSet({"shrink"} \cup {"metadata"}) /\ Cardinality({"shrink"} \cup {"metadata"}) = 2
    <2>1. "metadata" \notin {"shrink"} /\ 1 + 1 = 2
      OBVIOUS
    <2> QED BY <1>2, <2>1, FS_AddElement
  <1>4. IsFiniteSet({"shrink", "metadata"} \cup {"fuzzy"})
        /\ Cardinality({"shrink", "metadata"} \cup {"fuzzy"}) = 3
    <2>1. {"shrink"} \cup {"metadata"} = {"shrink", "metadata"}
      OBVIOUS
    <2>2. "fuzzy" \notin {"shrink", "metadata"} /\ 2 + 1 = 3
      OBVIOUS
    <2> QED BY <2>1, <2>2, <1>3, FS_AddElement
  <1>5. IsFiniteSet(T) /\ Cardinality(T) = 3
    <2>1. {"shrink", "metadata"} \cup {"fuzzy"} = T
      OBVIOUS
    <2> QED BY <1>4, <2>1
  <1>6. IsFiniteSet(S) /\ Cardinality(S) \in Nat /\ Cardinality(S) <= 3
    BY <1>5, FS_Subset, FS_CardinalityType
  <1>7. ASSUME NEW x \in T \ S PROVE Cardinality(S \cup {x}) = Cardinality(S) + 1
    BY <1>6, FS_AddElement
  <1> QED BY <1>6, <1>7

(* The initial state.                                                       *)
LEMMA AskInitial == Init => AskInv
  <1> SUFFICES ASSUME Init PROVE AskInv
    OBVIOUS
  <1>1. Cardinality({}) = 0
    BY FS_EmptySet
  <1>2. LoopInv
    BY <1>1, AskPipelineAssumption DEF AskPipelineAssumption, Init, LoopInv, NoQuestion
  <1>3. SqlTyped
    BY DEF Init, NoSql, SqlTyped, Spellings
  <1> QED
    BY <1>2, <1>3 DEF Init, NoSql, AskInv, NotesInv, PromptInv, AnswerIsGrounded, HasAnswer, NoQuestion

(* A step that touches neither the loop's variables nor the call counter    *)
(* keeps the invariant when it moves on from where the engine was.          *)
LEMMA Frame ==
  ASSUME AskInv, UNCHANGED <<loopVars, calls>>,
         NoQuestion' => NoQuestion,
         pc' \in {"model", "probe"} => pc' = pc,
         pc' \notin {"model", "failed"} => pc \notin {"model", "failed"},
         HasAnswer' => HasAnswer,
         pc' = "failed" /\ error' = "GUARD_BLOCKED" => pc = "failed" /\ error = "GUARD_BLOCKED"
  PROVE  AskInv'
  BY DEF AskInv, LoopInv, SqlTyped, NotesInv, PromptInv, AnswerIsGrounded, loopVars

(* callModel counts at most one call.                                       *)
LEMMA StartCallCounts ==
  ASSUME calls \in Nat, StartCall
  PROVE  calls' \in Nat /\ calls' <= calls + 1 /\ pc' = "model"
  BY AskPipelineAssumption DEF AskPipelineAssumption, StartCall, Smaller, CallBudget

(* A repair consumes an attempt and pays for its call with it.              *)
LEMMA RepairKeeps ==
  ASSUME AskInv, NEW data, Repair(data), data # {} => AllowDataInPrompt,
         notes = {}, UNCHANGED <<oneShots, notes>>, SqlTyped'
  PROVE  AskInv'
  <1>1. calls' \in Nat /\ calls' <= calls + 1 /\ pc' = "model"
    BY StartCallCounts DEF AskInv, LoopInv, Repair
  <1>2. Cardinality(oneShots) \in Nat
    BY OneShotsCounted DEF AskInv, LoopInv
  <1>3. LoopInv'
    BY <1>1, <1>2, AskPipelineAssumption
    DEF AskPipelineAssumption, AskInv, LoopInv, Repair, NoQuestion
  <1>4. PromptInv'
    BY DEF AskInv, PromptInv, Repair
  <1> QED
    BY <1>1, <1>3, <1>4 DEF AskInv, NotesInv, AnswerIsGrounded, HasAnswer, NoQuestion

(* A free retry pays for its call with its flag.                            *)
LEMMA OneShotKeeps ==
  ASSUME AskInv, NEW name \in {"shrink", "metadata", "fuzzy"}, OneShot(name),
         pc = "model", UNCHANGED <<sql, notes>>
  PROVE  AskInv'
  <1>1. calls' \in Nat /\ calls' <= calls + 1 /\ pc' = "model"
    BY StartCallCounts DEF AskInv, LoopInv, OneShot
  <1>2. Cardinality(oneShots) \in Nat /\ Cardinality(oneShots') = Cardinality(oneShots) + 1
    BY OneShotsCounted DEF AskInv, LoopInv, OneShot
  <1>3. LoopInv'
    BY <1>1, <1>2 DEF AskInv, LoopInv, OneShot, NoQuestion
  <1>4. PromptInv'
    BY DEF AskInv, PromptInv, OneShot
  <1>5. SqlTyped'
    BY DEF AskInv, SqlTyped
  <1> QED
    BY <1>1, <1>3, <1>4, <1>5 DEF AskInv, NotesInv, AnswerIsGrounded, HasAnswer, NoQuestion

(* A throw ends the question and keeps its counters.                        *)
LEMMA ThrowKeeps ==
  ASSUME AskInv, NEW code, Throw(code), UNCHANGED <<oneShots, notes>>, SqlTyped',
         code = "GUARD_BLOCKED" => sql'.allowed = {}
  PROVE  AskInv'
  BY DEF AskInv, LoopInv, NotesInv, PromptInv, AnswerIsGrounded, HasAnswer, NoQuestion,
         Throw, Fail, EndCall

(* Of a reply that is not blocked the guard allows the spelling judged; it  *)
(* blocks only the reply that has no allowed spelling.                      *)
LEMMA SpellingJudged ==
  ASSUME NEW reply \in Statements
  PROVE  /\ JudgedSpelling(reply) \in Spellings
         /\ FlawsJudged(reply) \in SUBSET AllFlaws
         /\ Blocked(reply) => reply.allowed = {}
  <1>1. reply.allowed \in SUBSET Spellings /\ reply.flaws \in [Spellings -> SUBSET AllFlaws]
    BY DEF Statements
  <1>2. CASE "normalised" \in reply.allowed
    <2>1. JudgedSpelling(reply) = "normalised"
      BY <1>2 DEF JudgedSpelling
    <2> QED BY <1>1, <1>2, <2>1 DEF Spellings, FlawsJudged, Blocked
  <1>3. CASE "normalised" \notin reply.allowed /\ "names" \in reply.allowed
    <2>1. JudgedSpelling(reply) = "names"
      BY <1>3 DEF JudgedSpelling
    <2> QED BY <1>1, <1>3, <2>1 DEF Spellings, FlawsJudged, Blocked
  <1>4. CASE "normalised" \notin reply.allowed /\ "names" \notin reply.allowed
    <2>1. JudgedSpelling(reply) = "raw"
      BY <1>4 DEF JudgedSpelling
    <2> QED BY <1>1, <1>4, <2>1 DEF Spellings, FlawsJudged, Blocked
  <1> QED BY <1>2, <1>3, <1>4

(* The statement ask() returns is the spelling judged, with its flaws.      *)
LEMMA GuardedKeeps ==
  ASSUME NEW reply \in Statements, NEW own \in Nat,
         NEW written \in BOOLEAN, sql' \in Guarded(reply, own, written)
  PROVE  /\ SqlTyped'
         /\ sql'.spelling = JudgedSpelling(reply) /\ sql'.allowed = reply.allowed
         /\ sql'.flaws = FlawsJudged(reply)
  <1>1. PICK c \in Caps(own) :
          sql' = [spelling |-> FinalSql(reply), allowed |-> reply.allowed,
                  flaws |-> reply.flaws[FinalSql(reply)], own |-> own, limit |-> c.limit,
                  auto |-> c.auto, lowered |-> c.lowered, written |-> written]
    BY DEF Guarded
  <1>2. c.limit \in Nat /\ c.auto \in BOOLEAN /\ c.lowered \in BOOLEAN
    <2> USE AskPipelineAssumption DEF AskPipelineAssumption
    <2>1. CASE own = 0 /\ FetchStyle
      <3>1. c = [limit |-> 0, auto |-> FALSE, lowered |-> FALSE]
        BY <2>1 DEF Caps
      <3> QED BY <3>1
    <2>2. CASE own = 0 /\ ~FetchStyle
      <3>1. c = [limit |-> MaxRows, auto |-> TRUE, lowered |-> FALSE]
        BY <2>2 DEF Caps
      <3> QED BY <3>1
    <2>3. CASE own # 0 /\ own > MaxRows
      <3>1. \/ c = [limit |-> MaxRows, auto |-> FALSE, lowered |-> TRUE]
            \/ c = [limit |-> own, auto |-> FALSE, lowered |-> FALSE]
        BY <2>3 DEF Caps
      <3>2. CASE c = [limit |-> MaxRows, auto |-> FALSE, lowered |-> TRUE]
        BY <3>2
      <3>3. CASE c = [limit |-> own, auto |-> FALSE, lowered |-> FALSE]
        BY <3>3
      <3> QED BY <3>1, <3>2, <3>3
    <2>4. CASE own # 0 /\ ~(own > MaxRows)
      <3>1. c = [limit |-> own, auto |-> FALSE, lowered |-> FALSE]
        BY <2>4 DEF Caps
      <3> QED BY <3>1
    <2> QED BY <2>1, <2>2, <2>3, <2>4
  <1>3. FinalSql(reply) \in Spellings /\ reply.allowed \in SUBSET Spellings
        /\ reply.flaws[FinalSql(reply)] = FlawsJudged(reply)
        /\ FlawsJudged(reply) \in SUBSET (AllFlaws \cup {"code"})
    BY SpellingJudged DEF FinalSql, FlawsJudged, Statements
  <1> QED BY <1>1, <1>2, <1>3 DEF SqlTyped, FinalSql

(* Every step keeps the invariant.                                          *)
LEMMA AskPreserved == AskInv /\ [Next]_vars => AskInv'
  <1> SUFFICES ASSUME AskInv, [Next]_vars PROVE AskInv'
    OBVIOUS
  <1> USE DEF callVars, execVars
  <1>1. CASE RequestFails
    BY <1>1, Frame DEF RequestFails, NoQuestion, HasAnswer, loopVars
  <1>2. CASE RetryRequest
    BY <1>2, Frame DEF RetryRequest, NoQuestion, HasAnswer, loopVars
  <1>3. ASSUME NEW code \in {"CANCELLED", "LLM_TIMEOUT", "LLM_UNAVAILABLE"}, CallFails(code)
        PROVE  AskInv'
    BY <1>3, Frame DEF CallFails, EndCall, Fail, NoQuestion, HasAnswer, loopVars
  <1>4. CASE AskRefused
    BY <1>4, Frame DEF AskRefused, Fail, NoQuestion, HasAnswer, loopVars
  <1>5. ASSUME NEW max \in 1 .. MaxRows + 1, Run(max)
        PROVE  AskInv'
    BY <1>5, Frame DEF Run, StartExecution, NoQuestion, HasAnswer, loopVars
  <1>6. ASSUME NEW max \in 1 .. MaxRows + 1, RunWritten(max)
        PROVE  AskInv'
    BY <1>6, Frame DEF RunWritten, StartExecution, NoQuestion, HasAnswer, loopVars
  <1>7. ASSUME NEW own \in Limits, NEW max \in 1 .. MaxRows + 1, Execute(own, max)
        PROVE  AskInv'
    BY <1>7, Frame DEF Execute, StartExecution, NoQuestion, HasAnswer, loopVars
  <1>8. ASSUME NEW stored \in BOOLEAN, ExecuteBlocked(stored)
        PROVE  AskInv'
    BY <1>8, Frame DEF ExecuteBlocked, NoQuestion, HasAnswer, loopVars
  <1>9. ASSUME NEW stored \in BOOLEAN, ExecuteOk(stored)
        PROVE  AskInv'
    BY <1>9, Frame DEF ExecuteOk, AfterExecution, NoStmt, NoQuestion, HasAnswer, loopVars
  <1>10. ASSUME NEW code \in {"DB_QUERY_ERROR", "DB_TIMEOUT", "CANCELLED"}, NEW stored \in BOOLEAN, ExecuteFails(code, stored)
        PROVE  AskInv'
    BY <1>10, Frame DEF ExecuteFails, AfterExecution, NoStmt, NoQuestion, HasAnswer, loopVars
  <1>11. CASE CaseFix
    BY <1>11, Frame DEF CaseFix, NoQuestion, HasAnswer, loopVars
  <1>12. CASE AskForFix
    BY <1>12, Frame DEF AskForFix, NoQuestion, HasAnswer, loopVars
  <1>13. CASE ThrowDbError
    BY <1>13, Frame DEF ThrowDbError, NoQuestion, HasAnswer, loopVars
  <1>14. ASSUME NEW usable \in BOOLEAN, FixReply(usable)
        PROVE  AskInv'
    BY <1>14, Frame DEF FixReply, EndCall, NoQuestion, HasAnswer, loopVars
  <1>15. ASSUME NEW s \in Signals, Abort(s)
        PROVE  AskInv'
    BY <1>15, Frame DEF Abort, NoQuestion, HasAnswer, loopVars
  <1>16. ASSUME NEW own \in Limits, AskWritten(own)
        PROVE  AskInv'
    <2>1. own \in Nat
      BY AskPipelineAssumption DEF AskPipelineAssumption
    <2>2. CatalogQuery \in Statements /\ JudgedSpelling(CatalogQuery) = "raw"
          /\ FlawsJudged(CatalogQuery) = {} /\ CatalogQuery.allowed = {"raw"}
      BY DEF CatalogQuery, Statements, JudgedSpelling, FlawsJudged, Spellings
    <2>3. SqlTyped' /\ sql'.spelling \in sql'.allowed /\ sql'.flaws = {}
      BY <1>16, <2>1, <2>2, GuardedKeeps DEF AskWritten
    <2> QED
      BY <1>16, <2>3 DEF AskWritten, AskInv, LoopInv, NotesInv, PromptInv, AnswerIsGrounded, HasAnswer, NoQuestion
  <1>17. ASSUME NEW sampled \in BOOLEAN, AskPrompts(sampled)
        PROVE  AskInv'
    <2>1. calls' \in Nat /\ calls' <= calls + 1 /\ pc' = "model"
      BY <1>17, StartCallCounts DEF AskInv, LoopInv, AskPrompts
    <2>2. Cardinality(oneShots) \in Nat
      BY OneShotsCounted DEF AskInv, LoopInv
    <2>3. LoopInv'
      BY <1>17, <2>1, <2>2 DEF AskInv, LoopInv, AskPrompts, NoQuestion
    <2>4. PromptInv'
      BY <1>17 DEF AskPrompts, PromptInv
    <2>5. SqlTyped' /\ notes' = {}
      BY <1>17 DEF AskInv, SqlTyped, NotesInv, NoQuestion, AskPrompts
    <2> QED
      BY <2>1, <2>3, <2>4, <2>5 DEF AskInv, NotesInv, AnswerIsGrounded, HasAnswer, NoQuestion
  <1>18. CASE ReplyOverflow
    <2>1. SqlTyped' /\ pc = "model" /\ notes = {} /\ UNCHANGED <<sql, notes>>
      BY <1>18 DEF AskInv, SqlTyped, NotesInv, ReplyOverflow, Replied
    <2> QED BY <1>18, <2>1, OneShotKeeps, ThrowKeeps DEF ReplyOverflow
  <1>19. ASSUME NEW metadata \in BOOLEAN, NEW near \in BOOLEAN, ReplyImpossible(metadata, near)
        PROVE  AskInv'
    <2>1. SqlTyped' /\ pc = "model" /\ notes = {} /\ UNCHANGED <<sql, notes>>
      BY <1>19 DEF AskInv, SqlTyped, NotesInv, ReplyImpossible, Replied
    <2> QED BY <1>19, <2>1, OneShotKeeps, ThrowKeeps DEF ReplyImpossible
  <1>20. ASSUME NEW kind \in {"empty", "refusal", "prose"}, ReplyNoSql(kind)
        PROVE  AskInv'
    <2>1. SqlTyped' /\ notes = {} /\ UNCHANGED <<oneShots, notes>>
      BY <1>20 DEF AskInv, SqlTyped, NotesInv, ReplyNoSql, Replied
    <2> QED BY <1>20, <2>1, RepairKeeps, ThrowKeeps DEF ReplyNoSql
  <1>21. ASSUME NEW reply \in SqlReplies, NEW stored \in BOOLEAN, ReplyBlocked(reply, stored)
        PROVE  AskInv'
    <2>1. notes = {} /\ UNCHANGED <<oneShots, notes>>
      BY <1>21 DEF AskInv, NotesInv, ReplyBlocked, Replied
    <2>2. SqlTyped'
      <3>1. reply.allowed \in SUBSET Spellings
        BY AskPipelineAssumption DEF AskPipelineAssumption, Statements
      <3>2. CASE sql' = [NoSql EXCEPT !.allowed = reply.allowed]
        BY <3>1, <3>2 DEF SqlTyped, NoSql, Spellings
      <3>3. CASE sql' = sql
        BY <3>3 DEF AskInv, SqlTyped
      <3> QED BY <1>21, <3>2, <3>3 DEF ReplyBlocked
    <2>3. reply.allowed = {}
      BY <1>21, SpellingJudged, AskPipelineAssumption DEF AskPipelineAssumption, ReplyBlocked
    <2>4. CASE Repair({})
      BY <2>1, <2>2, <2>4, RepairKeeps
    <2>5. CASE sql' = [NoSql EXCEPT !.allowed = reply.allowed] /\ Throw("GUARD_BLOCKED")
      <3>1. sql'.allowed = {}
        BY <2>3, <2>5 DEF NoSql
      <3> QED BY <2>1, <2>2, <2>5, <3>1, ThrowKeeps
    <2> QED BY <1>21, <2>4, <2>5 DEF ReplyBlocked
  <1>22. ASSUME NEW reply \in SqlReplies, ReplyFlawed(reply)
        PROVE  AskInv'
    <2>1. SqlTyped' /\ notes = {} /\ UNCHANGED <<oneShots, notes>>
      BY <1>22 DEF AskInv, SqlTyped, NotesInv, ReplyFlawed, Replied
    <2> QED BY <1>22, <2>1, RepairKeeps, ThrowKeeps DEF ReplyFlawed
  <1>23. ASSUME NEW reply \in SqlReplies, NEW own \in Limits, NEW codes \in 0 .. CODE_MAX_PROBES + 1,
                ReplyAccepted(reply, own, codes)
        PROVE  AskInv'
    <2>1. own \in Nat /\ reply \in Statements /\ FlawsJudged(reply) \in SUBSET AllFlaws
      BY SpellingJudged, AskPipelineAssumption DEF AskPipelineAssumption
    <2>2. SqlTyped' /\ sql'.spelling = JudgedSpelling(reply) /\ sql'.allowed = reply.allowed
          /\ sql'.flaws = FlawsJudged(reply)
      BY <1>23, <2>1, GuardedKeeps DEF ReplyAccepted
    <2>3. ~Blocked(reply) /\ pc' \in {"answered", "probe"} /\ notes = {}
      BY <1>23 DEF ReplyAccepted, Replied, AskInv, NotesInv
    <2>4. LoopInv'
      BY <1>23, <2>3 DEF ReplyAccepted, EndCall, AskInv, LoopInv, NoQuestion
    <2>5. PromptInv'
      BY <1>23 DEF ReplyAccepted, AskInv, PromptInv
    <2>6. AnswerIsGrounded'
      <3>1. sql'.spelling \in sql'.allowed
        BY <2>2, <2>3 DEF Blocked
      <3>2. sql'.flaws \cap (Fatal \cup {"literalOnly"}) = {}
        BY <1>23, <2>2 DEF ReplyAccepted, PassesFloors
      <3> QED BY <2>3, <3>1, <3>2 DEF AnswerIsGrounded
    <2>7. NotesInv'
      <3>1. notes' = FlawsJudged(reply) \cap Noted /\ "code" \notin FlawsJudged(reply)
        BY <1>23, <2>1, <2>3 DEF ReplyAccepted, NotesFor, AllFlaws
      <3>2. attempt' < MAX_REPAIRS => FlawsJudged(reply) = {}
        BY <1>23 DEF ReplyAccepted, PassesFloors
      <3> QED BY <2>2, <2>3, <3>1, <3>2 DEF NotesInv, NoQuestion
    <2> QED BY <2>2, <2>4, <2>5, <2>6, <2>7 DEF AskInv
  <1>24. ASSUME NEW absent \in BOOLEAN, Probe(absent)
        PROVE  AskInv'
    <2>1. pc = "probe" /\ notes = sql.flaws \cap (Noted \cup {"code"})
      BY <1>24 DEF Probe, AskInv, NotesInv
    <2>2. CASE ~absent
      BY <1>24, <2>2 DEF Probe, AskInv, LoopInv, SqlTyped, NotesInv, PromptInv, AnswerIsGrounded, HasAnswer, NoQuestion
    <2>3. CASE TellModel /\ Repair({"probed"}) /\ sql' = NoSql /\ UNCHANGED notes
      <3>1. notes = {} /\ UNCHANGED oneShots
        BY <1>24, <2>1, <2>3 DEF Probe, AskInv, NotesInv, Repair
      <3>2. SqlTyped'
        BY <2>3 DEF SqlTyped, NoSql, Spellings
      <3> QED BY <2>3, <3>1, <3>2, RepairKeeps DEF TellModel
    <2>4. CASE /\ sql' = [sql EXCEPT !.flaws = @ \cup {"code"}]
               /\ notes' = notes \cup {"code"}
               /\ pc' = "answered"
               /\ UNCHANGED <<callVars, attempt, prompt, error>>
      <3>1. SqlTyped' /\ sql'.spelling = sql.spelling /\ sql'.allowed = sql.allowed
            /\ sql'.flaws = sql.flaws \cup {"code"}
        BY <2>4 DEF AskInv, SqlTyped
      <3>2. NotesInv'
        BY <2>1, <2>4, <3>1 DEF NotesInv, NoQuestion
      <3>3. AnswerIsGrounded'
        BY <1>24, <2>1, <2>4, <3>1 DEF Probe, AskInv, AnswerIsGrounded, HasAnswer, Fatal
      <3> QED
        BY <1>24, <2>4, <3>1, <3>2, <3>3 DEF Probe, AskInv, LoopInv, PromptInv, NoQuestion
    <2> QED BY <1>24, <2>2, <2>3, <2>4 DEF Probe
  <1>25. CASE NextQuestion
    <2>2. Cardinality({}) = 0
      BY FS_EmptySet
    <2>3. LoopInv' /\ SqlTyped'
      BY <1>25, <2>2, AskPipelineAssumption
      DEF AskPipelineAssumption, NextQuestion, LoopInv, SqlTyped, NoSql, Spellings, NoQuestion
    <2> QED
      BY <1>25, <2>3 DEF NextQuestion, AskInv, NotesInv, PromptInv, AnswerIsGrounded, HasAnswer, NoSql, NoQuestion
  <1>26. CASE UNCHANGED vars
    BY <1>26, Frame DEF vars, NoQuestion, HasAnswer, loopVars
  <1> QED
    BY <1>1, <1>2, <1>3, <1>4, <1>5, <1>6, <1>7, <1>8, <1>9, <1>10, <1>11, <1>12, <1>13, <1>14, <1>15, <1>16, <1>17, <1>18, <1>19, <1>20, <1>21, <1>22, <1>23, <1>24, <1>25, <1>26
    DEF Next, ModelStep, ExecStep, CallerStep

(* The strengthening holds of every behaviour.                              *)
THEOREM AskInvCorrect == SafeSpec => []AskInv
  BY AskInitial, AskPreserved, PTL DEF SafeSpec

(* One question costs at most MAX_REPAIRS + 4 model calls (askImpl), for    *)
(* any bound on repairs and whatever the model replies.                     *)
THEOREM CallsCorrect == SafeSpec => []ModelCallsBounded
  <1>1. AskInv => ModelCallsBounded
    <2> SUFFICES ASSUME AskInv PROVE ModelCallsBounded
      OBVIOUS
    <2>1. Cardinality(oneShots) \in Nat /\ Cardinality(oneShots) <= 3
      BY OneShotsCounted DEF AskInv, LoopInv
    <2> QED
      BY <2>1, AskPipelineAssumption
      DEF AskPipelineAssumption, AskInv, LoopInv, ModelCallsBounded, CallBudget
  <1> QED BY <1>1, AskInvCorrect, PTL

(* The text askImpl returns is the very spelling the guard allowed and the  *)
(* floors read, whichever spellings a reply has and whatever their flaws;   *)
(* and a question is blocked only when no spelling was allowed.             *)
THEOREM GroundedCorrect == SafeSpec => []AnswerIsGrounded
  <1>1. AskInv => AnswerIsGrounded
    BY DEF AskInv
  <1> QED BY <1>1, AskInvCorrect, PTL

(* The notes on an answer are exactly those of its own flaws.               *)
THEOREM NotesCorrect == SafeSpec => []NotesMatchAnswer
  <1>1. AskInv => NotesMatchAnswer
    BY DEF AskInv, NotesInv, NotesMatchAnswer
  <1> QED BY <1>1, AskInvCorrect, PTL

(* Without allowDataInPrompt no request carries row values.                 *)
THEOREM RowDataCorrect == SafeSpec => []RowDataNeedsOptIn
  <1>1. AskInv => RowDataNeedsOptIn
    BY DEF AskInv, PromptInv, RowDataNeedsOptIn
  <1> QED BY <1>1, AskInvCorrect, PTL

-----------------------------------------------------------------------------
(* Every request is sent by a step that has just found the ask's signal     *)
(* quiet (callModel's tests, the catch of run()).                           *)
LEMMA RequestPreserved == NoRequestAfterAbort /\ [Next]_vars => NoRequestAfterAbort'
  <1> SUFFICES ASSUME NoRequestAfterAbort, [Next]_vars PROVE NoRequestAfterAbort'
    OBVIOUS
  <1> USE DEF callVars
  <1>1. CASE RequestFails
    BY <1>1 DEF RequestFails, NoRequestAfterAbort
  <1>2. CASE RetryRequest
    BY <1>2 DEF RetryRequest, NoRequestAfterAbort
  <1>3. ASSUME NEW code \in {"CANCELLED", "LLM_TIMEOUT", "LLM_UNAVAILABLE"}, CallFails(code)
        PROVE  NoRequestAfterAbort'
    BY <1>3 DEF CallFails, EndCall, Fail, NoRequestAfterAbort
  <1>4. CASE ReplyOverflow
    BY <1>4 DEF ReplyOverflow, OneShot, Throw, StartCall, EndCall, Fail, NoRequestAfterAbort
  <1>5. ASSUME NEW metadata \in BOOLEAN, NEW near \in BOOLEAN, ReplyImpossible(metadata, near)
        PROVE  NoRequestAfterAbort'
    BY <1>5 DEF ReplyImpossible, OneShot, Throw, StartCall, EndCall, Fail, NoRequestAfterAbort
  <1>6. ASSUME NEW kind \in {"empty", "refusal", "prose"}, ReplyNoSql(kind)
        PROVE  NoRequestAfterAbort'
    BY <1>6 DEF ReplyNoSql, Repair, Throw, StartCall, EndCall, Fail, NoRequestAfterAbort
  <1>7. ASSUME NEW reply \in SqlReplies, NEW stored \in BOOLEAN, ReplyBlocked(reply, stored)
        PROVE  NoRequestAfterAbort'
    BY <1>7 DEF ReplyBlocked, Repair, Throw, StartCall, EndCall, Fail, NoRequestAfterAbort
  <1>8. ASSUME NEW reply \in SqlReplies, ReplyFlawed(reply)
        PROVE  NoRequestAfterAbort'
    BY <1>8 DEF ReplyFlawed, Repair, Throw, StartCall, EndCall, Fail, NoRequestAfterAbort
  <1>9. ASSUME NEW reply \in SqlReplies, NEW own \in Limits, NEW codes \in 0 .. CODE_MAX_PROBES + 1,
                ReplyAccepted(reply, own, codes)
        PROVE  NoRequestAfterAbort'
    BY <1>9 DEF ReplyAccepted, EndCall, NoRequestAfterAbort
  <1>10. ASSUME NEW absent \in BOOLEAN, Probe(absent)
        PROVE  NoRequestAfterAbort'
    BY <1>10 DEF Probe, Repair, StartCall, NoRequestAfterAbort
  <1>11. ASSUME NEW stored \in BOOLEAN, ExecuteOk(stored)
        PROVE  NoRequestAfterAbort'
    BY <1>11 DEF ExecuteOk, NoRequestAfterAbort
  <1>12. ASSUME NEW code \in {"DB_QUERY_ERROR", "DB_TIMEOUT", "CANCELLED"}, NEW stored \in BOOLEAN, ExecuteFails(code, stored)
        PROVE  NoRequestAfterAbort'
    BY <1>12 DEF ExecuteFails, NoRequestAfterAbort
  <1>13. CASE CaseFix
    BY <1>13 DEF CaseFix, NoRequestAfterAbort
  <1>14. CASE AskForFix
    BY <1>14 DEF AskForFix, MayRepair, NoRequestAfterAbort
  <1>15. CASE ThrowDbError
    BY <1>15 DEF ThrowDbError, NoRequestAfterAbort
  <1>16. ASSUME NEW usable \in BOOLEAN, FixReply(usable)
        PROVE  NoRequestAfterAbort'
    BY <1>16 DEF FixReply, EndCall, NoRequestAfterAbort
  <1>17. CASE AskRefused
    BY <1>17 DEF AskRefused, Fail, NoRequestAfterAbort
  <1>18. ASSUME NEW own \in Limits, AskWritten(own)
        PROVE  NoRequestAfterAbort'
    BY <1>18 DEF AskWritten, NoRequestAfterAbort
  <1>19. ASSUME NEW sampled \in BOOLEAN, AskPrompts(sampled)
        PROVE  NoRequestAfterAbort'
    BY <1>19 DEF AskPrompts, StartCall, NoRequestAfterAbort
  <1>20. ASSUME NEW max \in 1 .. MaxRows + 1, Run(max)
        PROVE  NoRequestAfterAbort'
    BY <1>20 DEF Run, StartExecution, NoRequestAfterAbort
  <1>21. ASSUME NEW max \in 1 .. MaxRows + 1, RunWritten(max)
        PROVE  NoRequestAfterAbort'
    BY <1>21 DEF RunWritten, StartExecution, NoRequestAfterAbort
  <1>22. ASSUME NEW own \in Limits, NEW max \in 1 .. MaxRows + 1, Execute(own, max)
        PROVE  NoRequestAfterAbort'
    BY <1>22 DEF Execute, StartExecution, NoRequestAfterAbort
  <1>23. ASSUME NEW stored \in BOOLEAN, ExecuteBlocked(stored)
        PROVE  NoRequestAfterAbort'
    BY <1>23 DEF ExecuteBlocked, NoRequestAfterAbort
  <1>24. ASSUME NEW s \in Signals, Abort(s)
        PROVE  NoRequestAfterAbort'
    BY <1>24 DEF Abort, NoRequestAfterAbort
  <1>25. CASE NextQuestion
    BY <1>25 DEF NextQuestion, NoRequestAfterAbort
  <1>26. CASE UNCHANGED vars
    BY <1>26 DEF vars, NoRequestAfterAbort
  <1> QED
    BY <1>1, <1>2, <1>3, <1>4, <1>5, <1>6, <1>7, <1>8, <1>9, <1>10, <1>11, <1>12, <1>13, <1>14, <1>15, <1>16, <1>17, <1>18, <1>19, <1>20, <1>21, <1>22, <1>23, <1>24, <1>25, <1>26
    DEF Next, ModelStep, ExecStep, CallerStep

(* A step that touches no counter keeps the books when it starts and ends   *)
(* no execution.                                                            *)
LEMMA CountFrame ==
  ASSUME CountInv, UNCHANGED <<runs, happened, history, lost>>,
         pc' = "executing" <=> pc = "executing"
  PROVE  CountInv'
  BY DEF CountInv

(* recordHistory: one more outcome, stored or lost.                         *)
LEMMA RecordCounts ==
  ASSUME CountInv, NEW status \in Statuses, NEW stored \in BOOLEAN,
         RecordHistory(status, stored)
  PROVE  /\ happened' \in [Statuses -> Nat] /\ history' \in [Statuses -> Nat]
         /\ lost' \in Nat
         /\ \A s \in Statuses : history'[s] <= happened'[s]
         /\ Total(happened)' = Total(happened) + 1
         /\ Total(happened)' = Total(history)' + lost'
  <1>1. happened' \in [Statuses -> Nat] /\ history' \in [Statuses -> Nat] /\ lost' \in Nat
    BY DEF CountInv, RecordHistory
  <1>2. \A s \in Statuses : history'[s] <= happened'[s]
    BY DEF CountInv, RecordHistory
  <1>3. Total(happened)' = Total(happened) + 1
    BY DEF CountInv, RecordHistory, Total, Statuses
  <1>4. Total(happened)' = Total(history)' + lost'
    <2>1. CASE stored
      <3>1. Total(history)' = Total(history) + 1 /\ lost' = lost
        BY <2>1 DEF CountInv, RecordHistory, Total, Statuses
      <3>2. Total(history) \in Nat
        BY DEF CountInv, Total, Statuses
      <3> QED BY <1>3, <3>1, <3>2 DEF CountInv
    <2>2. CASE ~stored
      <3>1. Total(history)' = Total(history) /\ lost' = lost + 1
        BY <2>2 DEF CountInv, RecordHistory, Total, Statuses
      <3>2. Total(history) \in Nat
        BY DEF CountInv, Total, Statuses
      <3> QED BY <1>3, <3>1, <3>2 DEF CountInv
    <2> QED BY <2>1, <2>2
  <1> QED BY <1>1, <1>2, <1>3, <1>4

(* Every step keeps the books.                                              *)
LEMMA CountPreserved == CountInv /\ [Next]_vars => CountInv'
  <1> SUFFICES ASSUME CountInv, [Next]_vars PROVE CountInv'
    OBVIOUS
  <1> USE DEF execVars
  <1>0. Total(happened) \in Nat /\ runs \in Nat
    BY DEF CountInv, Total, Statuses
  <1>1. CASE RequestFails
    BY <1>1, CountFrame DEF RequestFails
  <1>2. CASE RetryRequest
    BY <1>2, CountFrame DEF RetryRequest
  <1>3. ASSUME NEW code \in {"CANCELLED", "LLM_TIMEOUT", "LLM_UNAVAILABLE"}, CallFails(code)
        PROVE  CountInv'
    BY <1>3, CountFrame DEF CallFails, EndCall, Fail
  <1>4. CASE ReplyOverflow
    BY <1>4, CountFrame DEF ReplyOverflow, OneShot, Throw, StartCall, EndCall, Fail, Replied
  <1>5. ASSUME NEW metadata \in BOOLEAN, NEW near \in BOOLEAN, ReplyImpossible(metadata, near)
        PROVE  CountInv'
    BY <1>5, CountFrame DEF ReplyImpossible, OneShot, Throw, StartCall, EndCall, Fail, Replied
  <1>6. ASSUME NEW kind \in {"empty", "refusal", "prose"}, ReplyNoSql(kind)
        PROVE  CountInv'
    BY <1>6, CountFrame DEF ReplyNoSql, Repair, Throw, StartCall, EndCall, Fail, Replied
  <1>7. ASSUME NEW reply \in SqlReplies, NEW stored \in BOOLEAN, ReplyBlocked(reply, stored)
        PROVE  CountInv'
    <2>1. "blocked" \in Statuses
      BY DEF Statuses
    <2>2. pc = "model" /\ pc' # "executing" /\ runs' = runs
      BY <1>7 DEF ReplyBlocked, Repair, Throw, StartCall, EndCall, Fail, Replied
    <2>3. \/ UNCHANGED <<happened, history, lost>>
          \/ RecordHistory("blocked", stored)
      BY <1>7 DEF ReplyBlocked
    <2>4. CASE UNCHANGED <<happened, history, lost>>
      BY <2>2, <2>4, CountFrame
    <2>5. CASE RecordHistory("blocked", stored)
      BY <1>0, <2>1, <2>2, <2>5, RecordCounts DEF CountInv
    <2> QED BY <2>3, <2>4, <2>5
  <1>8. ASSUME NEW reply \in SqlReplies, ReplyFlawed(reply)
        PROVE  CountInv'
    BY <1>8, CountFrame DEF ReplyFlawed, Repair, Throw, StartCall, EndCall, Fail, Replied
  <1>9. ASSUME NEW reply \in SqlReplies, NEW own \in Limits, NEW codes \in 0 .. CODE_MAX_PROBES + 1,
                ReplyAccepted(reply, own, codes)
        PROVE  CountInv'
    BY <1>9, CountFrame DEF ReplyAccepted, EndCall, Replied
  <1>10. ASSUME NEW absent \in BOOLEAN, Probe(absent)
        PROVE  CountInv'
    BY <1>10, CountFrame DEF Probe, Repair, StartCall
  <1>11. ASSUME NEW stored \in BOOLEAN, ExecuteOk(stored)
        PROVE  CountInv'
    <2>1. "ok" \in Statuses
      BY DEF Statuses
    <2>2. pc' # "executing" /\ RecordHistory("ok", stored) /\ runs' = runs /\ pc = "executing"
      BY <1>11 DEF ExecuteOk, AfterExecution
    <2> QED BY <1>0, <2>1, <2>2, RecordCounts DEF CountInv
  <1>12. ASSUME NEW code \in {"DB_QUERY_ERROR", "DB_TIMEOUT", "CANCELLED"}, NEW stored \in BOOLEAN, ExecuteFails(code, stored)
        PROVE  CountInv'
    <2>1. "error" \in Statuses
      BY DEF Statuses
    <2>2. pc' # "executing" /\ RecordHistory("error", stored) /\ runs' = runs /\ pc = "executing"
      BY <1>12 DEF ExecuteFails, AfterExecution
    <2> QED BY <1>0, <2>1, <2>2, RecordCounts DEF CountInv
  <1>13. CASE CaseFix
    BY <1>13, CountFrame DEF CaseFix
  <1>14. CASE AskForFix
    BY <1>14, CountFrame DEF AskForFix, MayRepair
  <1>15. CASE ThrowDbError
    BY <1>15, CountFrame DEF ThrowDbError
  <1>16. ASSUME NEW usable \in BOOLEAN, FixReply(usable)
        PROVE  CountInv'
    BY <1>16, CountFrame DEF FixReply, EndCall
  <1>17. CASE AskRefused
    BY <1>17, CountFrame DEF AskRefused, Fail
  <1>18. ASSUME NEW own \in Limits, AskWritten(own)
        PROVE  CountInv'
    BY <1>18, CountFrame DEF AskWritten
  <1>19. ASSUME NEW sampled \in BOOLEAN, AskPrompts(sampled)
        PROVE  CountInv'
    BY <1>19, CountFrame DEF AskPrompts, StartCall
  <1>20. ASSUME NEW max \in 1 .. MaxRows + 1, Run(max)
        PROVE  CountInv'
    BY <1>0, <1>20 DEF Run, StartExecution, CountInv, Total
  <1>21. ASSUME NEW max \in 1 .. MaxRows + 1, RunWritten(max)
        PROVE  CountInv'
    BY <1>0, <1>21 DEF RunWritten, StartExecution, CountInv, Total
  <1>22. ASSUME NEW own \in Limits, NEW max \in 1 .. MaxRows + 1, Execute(own, max)
        PROVE  CountInv'
    BY <1>0, <1>22 DEF Execute, StartExecution, CountInv, Total
  <1>23. ASSUME NEW stored \in BOOLEAN, ExecuteBlocked(stored)
        PROVE  CountInv'
    <2>1. "blocked" \in Statuses
      BY DEF Statuses
    <2> QED BY <1>0, <1>23, <2>1, RecordCounts DEF ExecuteBlocked, CountInv
  <1>24. ASSUME NEW s \in Signals, Abort(s)
        PROVE  CountInv'
    BY <1>24, CountFrame DEF Abort
  <1>25. CASE NextQuestion
    BY <1>25 DEF NextQuestion, CountInv, Total, Statuses
  <1>26. CASE UNCHANGED vars
    BY <1>26, CountFrame DEF vars
  <1> QED
    BY <1>1, <1>2, <1>3, <1>4, <1>5, <1>6, <1>7, <1>8, <1>9, <1>10, <1>11, <1>12, <1>13, <1>14, <1>15, <1>16, <1>17, <1>18, <1>19, <1>20, <1>21, <1>22, <1>23, <1>24, <1>25, <1>26
    DEF Next, ModelStep, ExecStep, CallerStep

(* What guardSql's row cap makes of a limit: itself, or the policy's cap,   *)
(* said to be one.                                                          *)
LEMMA CapsCapped ==
  ASSUME NEW limit \in Nat, NEW c \in Caps(limit)
  PROVE  c.limit \in Nat /\ Capped(limit, c.limit, c.auto \/ c.lowered)
  <1> USE AskPipelineAssumption DEF AskPipelineAssumption, Capped
  <1>1. CASE limit = 0 /\ FetchStyle
    <2>1. c = [limit |-> 0, auto |-> FALSE, lowered |-> FALSE]
      BY <1>1 DEF Caps
    <2> QED BY <1>1, <2>1
  <1>2. CASE limit = 0 /\ ~FetchStyle
    <2>1. c = [limit |-> MaxRows, auto |-> TRUE, lowered |-> FALSE]
      BY <1>2 DEF Caps
    <2> QED BY <1>2, <2>1
  <1>3. CASE limit # 0 /\ limit > MaxRows
    <2>1. \/ c = [limit |-> MaxRows, auto |-> FALSE, lowered |-> TRUE]
          \/ c = [limit |-> limit, auto |-> FALSE, lowered |-> FALSE]
      BY <1>3 DEF Caps
    <2>2. CASE c = [limit |-> MaxRows, auto |-> FALSE, lowered |-> TRUE]
      BY <1>3, <2>2
    <2>3. CASE c = [limit |-> limit, auto |-> FALSE, lowered |-> FALSE]
      BY <2>3
    <2> QED BY <2>1, <2>2, <2>3
  <1>4. CASE limit # 0 /\ ~(limit > MaxRows)
    <2>1. c = [limit |-> limit, auto |-> FALSE, lowered |-> FALSE]
      BY <1>4 DEF Caps
    <2> QED BY <2>1
  <1> QED BY <1>1, <1>2, <1>3, <1>4

(* The statement a guarded reply becomes.                                   *)
LEMMA GuardedCapped ==
  ASSUME NEW reply, NEW own \in Nat, NEW written, NEW g \in Guarded(reply, own, written)
  PROVE  g.own \in Nat /\ g.limit \in Nat /\ Capped(g.own, g.limit, g.auto \/ g.lowered)
  <1>1. PICK c \in Caps(own) :
          g = [spelling |-> FinalSql(reply), allowed |-> reply.allowed,
               flaws |-> reply.flaws[FinalSql(reply)], own |-> own, limit |-> c.limit,
               auto |-> c.auto, lowered |-> c.lowered, written |-> written]
    BY DEF Guarded
  <1>2. c.limit \in Nat /\ Capped(own, c.limit, c.auto \/ c.lowered)
    BY CapsCapped
  <1> QED BY <1>1, <1>2

(* A cap that was said to be one is told to the reader of the rows.         *)
LEMMA CapTold ==
  ASSUME NEW all \in Nat, NEW own \in Nat, NEW limit \in Nat, NEW cap \in 1 .. MaxRows,
         NEW flagged, Capped(own, limit, flagged),
         NEW offered, NEW rows, NEW wanted,
         offered = IF limit = 0 THEN all ELSE Smaller(all, limit),
         wanted = IF own = 0 THEN all ELSE Smaller(all, own),
         rows = Smaller(offered, cap), rows < wanted
  PROVE  offered > cap \/ (flagged /\ rows >= cap)
  <1> USE AskPipelineAssumption DEF AskPipelineAssumption
  <1>1. CASE limit = own
    BY <1>1 DEF Smaller
  <1>2. CASE limit = MaxRows /\ flagged /\ (own = 0 \/ own >= MaxRows)
    BY <1>2 DEF Smaller
  <1> QED BY <1>1, <1>2 DEF Capped

(* A step that touches neither the statements nor the result and starts no  *)
(* execution.                                                               *)
LEMMA LimitFrame ==
  ASSUME LimitInv, UNCHANGED <<sql, stmt, result, total>>,
         pc' = "executing" => pc = "executing"
  PROVE  LimitInv'
  BY DEF LimitInv, AnswerTruncationTold

(* A statement taken for the answer, or dropped, outside an execution.      *)
LEMMA LimitSql ==
  ASSUME LimitInv, UNCHANGED <<result, total>>, pc' # "executing",
         sql'.own \in Nat, sql'.limit \in Nat,
         Capped(sql'.own, sql'.limit, sql'.auto \/ sql'.lowered)
  PROVE  LimitInv'
  BY DEF LimitInv, AnswerTruncationTold

(* The row limits NoSql has: none.                                          *)
LEMMA NoSqlCapped == NoSql.own = 0 /\ NoSql.limit = 0
                     /\ Capped(NoSql.own, NoSql.limit, NoSql.auto \/ NoSql.lowered)
  BY DEF NoSql, Capped

(* executeGuarded starts from a statement whose limits are accounted for:   *)
(* the verdicts of the two guards add up.                                   *)
LEMMA ExecutionCapped ==
  ASSUME LimitInv, NEW origin, NEW own \in Nat, NEW limit \in Nat, NEW prior \in BOOLEAN,
         NEW max \in 1 .. MaxRows + 1, StartExecution(origin, own, limit, prior, max),
         origin \in {"answer", "user"} => Capped(own, limit, prior)
  PROVE  LimitInv'
  <1>1. PICK c \in Caps(limit) :
          stmt' = [origin |-> origin, own |-> own, limit |-> c.limit,
                   cap |-> Smaller(max, MaxRows), flagged |-> c.auto \/ c.lowered \/ prior]
    BY DEF StartExecution
  <1>2. c.limit \in Nat /\ Capped(limit, c.limit, c.auto \/ c.lowered)
    BY CapsCapped
  <1>3. Smaller(max, MaxRows) \in 1 .. MaxRows
    BY AskPipelineAssumption DEF AskPipelineAssumption, Smaller
  <1>4. origin \in {"answer", "user"} => Capped(own, c.limit, (c.auto \/ c.lowered) \/ prior)
    BY <1>2, AskPipelineAssumption DEF AskPipelineAssumption, Capped
  <1>5. stmt'.own \in Nat /\ stmt'.limit \in Nat /\ stmt'.cap \in 1 .. MaxRows
    BY <1>1, <1>2, <1>3
  <1>6. stmt'.origin \in {"answer", "user"} => Capped(stmt'.own, stmt'.limit, stmt'.flagged)
    BY <1>1, <1>4 DEF Capped
  <1>7. UNCHANGED <<sql, total>> /\ result' = NoResult
    BY DEF StartExecution, loopVars
  <1>8. AnswerTruncationTold'
    BY <1>7 DEF AnswerTruncationTold, NoResult
  <1> QED BY <1>5, <1>6, <1>7, <1>8 DEF LimitInv

(* Every step keeps the limits accounted for.                               *)
LEMMA LimitPreserved == SqlTyped /\ LimitInv /\ [Next]_vars => LimitInv'
  <1> SUFFICES ASSUME SqlTyped, LimitInv, [Next]_vars PROVE LimitInv'
    OBVIOUS
  <1> USE DEF execVars, loopVars
  <1>1. CASE RequestFails
    BY <1>1, LimitFrame DEF RequestFails
  <1>2. CASE RetryRequest
    BY <1>2, LimitFrame DEF RetryRequest
  <1>3. ASSUME NEW code \in {"CANCELLED", "LLM_TIMEOUT", "LLM_UNAVAILABLE"}, CallFails(code)
        PROVE  LimitInv'
    BY <1>3, LimitFrame DEF CallFails, EndCall, Fail
  <1>4. CASE ReplyOverflow
    BY <1>4, LimitFrame DEF ReplyOverflow, OneShot, Throw, StartCall, EndCall, Fail, Replied
  <1>5. ASSUME NEW metadata \in BOOLEAN, NEW near \in BOOLEAN, ReplyImpossible(metadata, near)
        PROVE  LimitInv'
    BY <1>5, LimitFrame DEF ReplyImpossible, OneShot, Throw, StartCall, EndCall, Fail, Replied
  <1>6. ASSUME NEW kind \in {"empty", "refusal", "prose"}, ReplyNoSql(kind)
        PROVE  LimitInv'
    BY <1>6, LimitFrame DEF ReplyNoSql, Repair, Throw, StartCall, EndCall, Fail, Replied
  <1>7. ASSUME NEW reply \in SqlReplies, NEW stored \in BOOLEAN, ReplyBlocked(reply, stored)
        PROVE  LimitInv'
    <2>1. pc' # "executing" /\ UNCHANGED <<stmt, result, total>>
      BY <1>7 DEF ReplyBlocked, Repair, Throw, StartCall, EndCall, Fail
    <2>2. CASE sql' = sql
      BY <2>1, <2>2, LimitFrame
    <2>3. CASE sql' = [NoSql EXCEPT !.allowed = reply.allowed]
      <3>1. sql'.own = 0 /\ sql'.limit = 0
        BY <2>3 DEF NoSql
      <3>2. Capped(sql'.own, sql'.limit, sql'.auto \/ sql'.lowered)
        BY <3>1 DEF Capped
      <3> QED BY <2>1, <3>1, <3>2, LimitSql
    <2> QED BY <1>7, <2>2, <2>3 DEF ReplyBlocked
  <1>8. ASSUME NEW reply \in SqlReplies, ReplyFlawed(reply)
        PROVE  LimitInv'
    BY <1>8, LimitFrame DEF ReplyFlawed, Repair, Throw, StartCall, EndCall, Fail, Replied
  <1>9. ASSUME NEW reply \in SqlReplies, NEW own \in Limits, NEW codes \in 0 .. CODE_MAX_PROBES + 1,
                ReplyAccepted(reply, own, codes)
        PROVE  LimitInv'
    <2>1. own \in Nat /\ sql' \in Guarded(reply, own, FALSE)
      BY <1>9, AskPipelineAssumption DEF AskPipelineAssumption, ReplyAccepted
    <2>2. sql'.own \in Nat /\ sql'.limit \in Nat
          /\ Capped(sql'.own, sql'.limit, sql'.auto \/ sql'.lowered)
      BY <2>1, GuardedCapped
    <2>3. pc' # "executing"
      BY <1>9 DEF ReplyAccepted
    <2> QED BY <1>9, <2>2, <2>3, LimitSql DEF ReplyAccepted
  <1>10. ASSUME NEW absent \in BOOLEAN, Probe(absent)
        PROVE  LimitInv'
    <2>1. pc' # "executing" /\ UNCHANGED <<stmt, result, total>>
      BY <1>10 DEF Probe, Repair, StartCall
    <2>2. CASE sql' = sql
      BY <2>1, <2>2, LimitFrame
    <2>3. CASE sql' = NoSql
      BY <2>1, <2>3, NoSqlCapped, LimitSql
    <2>4. CASE sql' = [sql EXCEPT !.flaws = @ \cup {"code"}]
      <3>1. sql'.own = sql.own /\ sql'.limit = sql.limit
            /\ sql'.auto = sql.auto /\ sql'.lowered = sql.lowered
        BY <2>4 DEF SqlTyped
      <3>2. sql'.own \in Nat /\ sql'.limit \in Nat
            /\ Capped(sql'.own, sql'.limit, sql'.auto \/ sql'.lowered)
        BY <3>1 DEF LimitInv
      <3> QED BY <2>1, <3>2, LimitSql
    <2> QED BY <1>10, <2>2, <2>3, <2>4 DEF Probe
  <1>11. ASSUME NEW stored \in BOOLEAN, ExecuteOk(stored)
        PROVE  LimitInv'
    <2> DEFINE bound(n, limit) == IF limit = 0 THEN n ELSE Smaller(n, limit)
               offered == bound(total, stmt.limit)
               rows == Smaller(offered, stmt.cap)
               wanted == bound(total, stmt.own)
    <2>1. pc' # "executing" /\ UNCHANGED <<sql, total>> /\ pc = "executing"
      BY <1>11 DEF ExecuteOk, AfterExecution
    <2>2. result' = [origin |-> stmt.origin, rows |-> rows,
                     truncated |-> Truncated(offered, rows), wanted |-> wanted]
      BY <1>11 DEF ExecuteOk
    <2>3. total \in Nat /\ stmt.own \in Nat /\ stmt.limit \in Nat /\ stmt.cap \in 1 .. MaxRows
          /\ (stmt.origin \in {"answer", "user"} =>
                Capped(stmt.own, stmt.limit, stmt.flagged))
      BY <2>1 DEF LimitInv
    <2>4. ASSUME stmt.origin \in {"answer", "user"}, rows < wanted
          PROVE  offered > stmt.cap \/ (stmt.flagged /\ rows >= stmt.cap)
      BY <2>3, <2>4, CapTold
    <2>5. stmt.origin \in {"answer", "user"} /\ rows < wanted => Truncated(offered, rows)
      BY <2>4 DEF Truncated
    <2> HIDE DEF offered, rows, wanted
    <2>6. AnswerTruncationTold'
      BY <2>2, <2>5 DEF AnswerTruncationTold
    <2> QED BY <2>1, <2>6 DEF LimitInv
  <1>12. ASSUME NEW code \in {"DB_QUERY_ERROR", "DB_TIMEOUT", "CANCELLED"}, NEW stored \in BOOLEAN, ExecuteFails(code, stored)
        PROVE  LimitInv'
    <2>1. pc' # "executing" /\ UNCHANGED <<sql, result, total>>
      BY <1>12 DEF ExecuteFails, AfterExecution
    <2> QED BY <2>1 DEF LimitInv, AnswerTruncationTold
  <1>13. CASE CaseFix
    BY <1>13, LimitFrame DEF CaseFix
  <1>14. CASE AskForFix
    BY <1>14, LimitFrame DEF AskForFix, MayRepair
  <1>15. CASE ThrowDbError
    BY <1>15, LimitFrame DEF ThrowDbError
  <1>16. ASSUME NEW usable \in BOOLEAN, FixReply(usable)
        PROVE  LimitInv'
    BY <1>16, LimitFrame DEF FixReply, EndCall
  <1>17. CASE AskRefused
    BY <1>17, LimitFrame DEF AskRefused, Fail
  <1>18. ASSUME NEW own \in Limits, AskWritten(own)
        PROVE  LimitInv'
    <2>1. own \in Nat /\ sql' \in Guarded(CatalogQuery, own, TRUE)
      BY <1>18, AskPipelineAssumption DEF AskPipelineAssumption, AskWritten
    <2>2. sql'.own \in Nat /\ sql'.limit \in Nat
          /\ Capped(sql'.own, sql'.limit, sql'.auto \/ sql'.lowered)
      BY <2>1, GuardedCapped
    <2> QED BY <1>18, <2>2, LimitSql DEF AskWritten
  <1>19. ASSUME NEW sampled \in BOOLEAN, AskPrompts(sampled)
        PROVE  LimitInv'
    BY <1>19, LimitFrame DEF AskPrompts, StartCall
  <1>20. ASSUME NEW max \in 1 .. MaxRows + 1, Run(max)
        PROVE  LimitInv'
    <2>1. sql.own \in Nat /\ sql.limit \in Nat /\ (sql.auto \/ sql.lowered) \in BOOLEAN
          /\ Capped(sql.own, sql.limit, sql.auto \/ sql.lowered)
      BY DEF SqlTyped, LimitInv
    <2> QED BY <1>20, <2>1, ExecutionCapped DEF Run
  <1>21. ASSUME NEW max \in 1 .. MaxRows + 1, RunWritten(max)
        PROVE  LimitInv'
    <2>1. sql.own \in Nat /\ sql.limit \in Nat
      BY DEF LimitInv
    <2> QED BY <1>21, <2>1, ExecutionCapped DEF RunWritten
  <1>22. ASSUME NEW own \in Limits, NEW max \in 1 .. MaxRows + 1, Execute(own, max)
        PROVE  LimitInv'
    <2>1. own \in Nat /\ Capped(own, own, FALSE)
      BY AskPipelineAssumption DEF AskPipelineAssumption, Capped
    <2> QED BY <1>22, <2>1, ExecutionCapped DEF Execute
  <1>23. ASSUME NEW stored \in BOOLEAN, ExecuteBlocked(stored)
        PROVE  LimitInv'
    BY <1>23, LimitFrame DEF ExecuteBlocked
  <1>24. ASSUME NEW s \in Signals, Abort(s)
        PROVE  LimitInv'
    BY <1>24, LimitFrame DEF Abort
  <1>25. CASE NextQuestion
    <2>1. total' \in Nat /\ sql' = NoSql /\ result' = NoResult /\ pc' # "executing"
      BY <1>25, AskPipelineAssumption DEF AskPipelineAssumption, NextQuestion
    <2>2. AnswerTruncationTold'
      BY <2>1 DEF AnswerTruncationTold, NoResult
    <2> QED BY <2>1, <2>2, NoSqlCapped DEF LimitInv
  <1>26. CASE UNCHANGED vars
    BY <1>26, LimitFrame DEF vars
  <1> QED
    BY <1>1, <1>2, <1>3, <1>4, <1>5, <1>6, <1>7, <1>8, <1>9, <1>10, <1>11, <1>12, <1>13, <1>14, <1>15, <1>16, <1>17, <1>18, <1>19, <1>20, <1>21, <1>22, <1>23, <1>24, <1>25, <1>26
    DEF Next, ModelStep, ExecStep, CallerStep

(* The initial state.                                                       *)
LEMMA RunInitial == Init => RunInv
  <1> SUFFICES ASSUME Init PROVE RunInv
    OBVIOUS
  <1>1. NoRequestAfterAbort /\ CountInv
    BY DEF Init, NoRequestAfterAbort, CountInv, Total, Statuses
  <1>2. total \in Nat /\ sql = NoSql /\ result = NoResult /\ pc # "executing"
    BY AskPipelineAssumption DEF AskPipelineAssumption, Init
  <1>3. AnswerTruncationTold
    BY <1>2 DEF AnswerTruncationTold, NoResult
  <1>4. LimitInv
    BY <1>2, <1>3, NoSqlCapped DEF LimitInv
  <1> QED BY <1>1, <1>4 DEF RunInv

(* The strengthening of the executions holds of every behaviour, beside     *)
(* that of the question.                                                    *)
THEOREM RunInvCorrect == SafeSpec => []RunInv
  <1>1. AskInv /\ RunInv /\ [Next]_vars => RunInv'
    <2> SUFFICES ASSUME AskInv, RunInv, [Next]_vars PROVE RunInv'
      OBVIOUS
    <2>1. SqlTyped /\ NoRequestAfterAbort /\ CountInv /\ LimitInv
      BY DEF AskInv, RunInv
    <2>2. NoRequestAfterAbort'
      BY <2>1, RequestPreserved
    <2>3. CountInv'
      BY <2>1, CountPreserved
    <2>4. LimitInv'
      BY <2>1, LimitPreserved
    <2> QED BY <2>2, <2>3, <2>4 DEF RunInv
  <1> QED BY <1>1, RunInitial, AskInvCorrect, PTL DEF SafeSpec

(* No provider request is sent once ask()'s signal is aborted: not by the   *)
(* loop, not after a backoff, not for the correction of a failed run.       *)
THEOREM RequestCorrect == SafeSpec => []NoRequestAfterAbort
  <1>1. RunInv => NoRequestAfterAbort
    BY DEF RunInv
  <1> QED BY <1>1, RunInvCorrect, PTL

(* Every execution and every block is one history row of its own status, or *)
(* one warning, for any number of executions (recordHistory).               *)
THEOREM HistoryCorrect == SafeSpec => []HistoryTellsTheTruth
  <1>1. RunInv => HistoryTellsTheTruth
    BY DEF RunInv, CountInv, Total, HistoryTellsTheTruth
  <1> QED BY <1>1, RunInvCorrect, PTL

(* A model's answer or a caller's statement that a cap of ours cut short is *)
(* reported truncated, for any row cap and any limits (executeGuarded).     *)
THEOREM TruncationCorrect == SafeSpec => []AnswerTruncationTold
  <1>1. RunInv => AnswerTruncationTold
    BY DEF RunInv, LimitInv
  <1> QED BY <1>1, RunInvCorrect, PTL

(* What is told of an execution is what happened, in history and on screen. *)
THEOREM RunToldCorrect == SafeSpec => []RunToldTruly
  <1>1. HistoryTellsTheTruth /\ AnswerTruncationTold => RunToldTruly
    BY DEF RunToldTruly
  <1> QED BY <1>1, HistoryCorrect, TruncationCorrect, PTL

-----------------------------------------------------------------------------
(* StageFields, as long as a projection selects or removes top-level or    *)
(* dotted fields ("in", "out").  A projection that removes inside an       *)
(* object value ("inner") is outside the theorems: there the walk does     *)
(* report fields that are present.                                         *)

(* The inductive invariant: a narrowed walk knows a superset of what the   *)
(* document holds, and has reported nothing that is there.                 *)
WalkInv ==
  /\ NarrowedCovers
  /\ AbsenceProven
  /\ reported \in [some : BOOLEAN, there : BOOLEAN]

(* A projection's keys that are not `_id` are all of them.                 *)
LEMMA ProjectKeys ==
  ASSUME NEW keys \in SUBSET ((Roots \ {"_id"}) \X BOOLEAN)
  PROVE  RootsOf(keys) \ {"_id"} = {} <=> keys = {}
<1>1. ASSUME keys # {} PROVE RootsOf(keys) \ {"_id"} # {}
  <2>1. PICK k \in keys : TRUE
    BY <1>1
  <2>2. k[1] \in RootsOf(keys) /\ k[1] # "_id"
    BY <2>1 DEF RootsOf
  <2> QED
    BY <2>2
<1>2. keys = {} => RootsOf(keys) \ {"_id"} = {}
  BY DEF RootsOf
<1> QED
  BY <1>1, <1>2

(* What a bare key removes, with `_id` beside it.                          *)
LEMMA BareWithId ==
  ASSUME NEW keys
  PROVE  Bare(keys \cup {<<"_id", FALSE>>}) = Bare(keys) \cup {"_id"}
<1>1. ASSUME NEW r \in Bare(keys \cup {<<"_id", FALSE>>}) PROVE r \in Bare(keys) \cup {"_id"}
  <2>1. PICK k \in keys \cup {<<"_id", FALSE>>} : ~k[2] /\ r = k[1]
    BY <1>1 DEF Bare
  <2>2. CASE k \in keys
    BY <2>1, <2>2 DEF Bare
  <2>3. CASE k = <<"_id", FALSE>>
    BY <2>1, <2>3
  <2> QED
    BY <2>1, <2>2, <2>3
<1>2. ASSUME NEW r \in Bare(keys) \cup {"_id"} PROVE r \in Bare(keys \cup {<<"_id", FALSE>>})
  <2>1. CASE r \in Bare(keys)
    BY <2>1 DEF Bare
  <2>2. CASE r = "_id"
    <3>1. <<"_id", FALSE>> \in {k \in keys \cup {<<"_id", FALSE>>} : ~k[2]}
      OBVIOUS
    <3>2. <<"_id", FALSE>>[1] = r
      BY <2>2
    <3> QED
      BY <3>1, <3>2 DEF Bare
  <2> QED
    BY <1>2, <2>1, <2>2
<1> QED
  BY <1>1, <1>2

(* A projection leaves the document nothing the walk does not know of.     *)
LEMMA ProjectCovered ==
  ASSUME ProjectForms \subseteq {"in", "out"},
         NEW p \in Projections,
         narrowed => holds \subseteq available,
         Narrows("$project", p[2], p[1], p[3])
  PROVE  Projects(p[2], p[1], p[3]) \subseteq AfterProject(p[2], p[1], p[3])
<1> DEFINE keys == p[1]
           form == p[2]
           id == p[3]
<1>1. /\ keys \in SUBSET ((Roots \ {"_id"}) \X BOOLEAN)
      /\ form \in {"in", "out"}
      /\ id \in {"drop", "keep", "none"}
      /\ keys = {} => id # "none" /\ form = IF id = "drop" THEN "out" ELSE "in"
      /\ form # "in" => id # "keep"
  BY DEF Projections, KeysOf, Narrowing
<1>2. RootsOf(keys) \ {"_id"} = {} <=> keys = {}
  BY <1>1, ProjectKeys
<1>3. CASE form = "in"
  <2>1. IsInclusionProjection(form, keys, id)
    BY <1>1, <1>2, <1>3 DEF IsInclusionProjection
  <2>2. AfterProject(form, keys, id) = ProjectedNames(keys, id)
    BY <2>1 DEF AfterProject
  <2>3. Projects(form, keys, id)
          = (RootsOf(keys) \ {"_id"}) \cup (IF id = "drop" THEN {} ELSE holds \cap {"_id"})
    BY <1>3 DEF Projects
  <2> QED
    BY <2>2, <2>3 DEF ProjectedNames
<1>4. CASE form = "out"
  <2>1. ~IsInclusionProjection(form, keys, id)
    BY <1>1, <1>2, <1>4 DEF IsInclusionProjection
  <2>2. holds \subseteq available
    BY <2>1 DEF Narrows, Narrowing
  <2>3. Projects(form, keys, id)
          = holds \ (Bare(keys) \cup IF id = "drop" THEN {"_id"} ELSE {})
    BY <1>4 DEF Projects
  <2>4. AfterProject(form, keys, id)
          = available \ Bare(keys \cup IF id = "none" THEN {} ELSE {<<"_id", FALSE>>})
    BY <2>1 DEF AfterProject, Drops
  <2>5. CASE id = "none"
    BY <2>2, <2>3, <2>4, <2>5
  <2>6. CASE id = "drop"
    BY <2>2, <2>3, <2>4, <2>6, BareWithId
  <2> QED
    BY <1>1, <1>4, <2>5, <2>6
<1> QED
  BY <1>1, <1>3, <1>4

(* One stage: the invariant goes on holding when its effect is covered.    *)
LEMMA StageStep ==
  ASSUME NEW name, NEW keys, NEW form, NEW id, NEW refs,
         WalkInv,
         WalkStage(name, keys, form, id, refs),
         Narrows(name, form, keys, id) =>
           Really(name, keys, form, id) \subseteq After(name, keys, form, id)
  PROVE  WalkInv'
<1>1. CASE UnknownRef(refs)
  <2>1. PICK f \in refs \ available : reported' = [some |-> TRUE, there |-> f \in holds]
    BY <1>1 DEF WalkStage
  <2>2. f \notin holds
    BY <1>1, <2>1 DEF WalkInv, NarrowedCovers, UnknownRef, WalkStage
  <2>3. walking' = FALSE
    BY <1>1 DEF WalkStage
  <2> QED
    BY <2>1, <2>2, <2>3 DEF WalkInv, NarrowedCovers, AbsenceProven
<1>2. CASE ~UnknownRef(refs)
  <2>1. /\ holds' = Really(name, keys, form, id)
        /\ narrowed' = Narrows(name, form, keys, id)
        /\ available' = IF narrowed' THEN After(name, keys, form, id) ELSE {}
        /\ reported' = reported
    BY <1>2 DEF WalkStage
  <2>2. narrowed' => holds' \subseteq available'
    BY <2>1
  <2> QED
    BY <2>1, <2>2 DEF WalkInv, NarrowedCovers, AbsenceProven
<1> QED
  BY <1>1, <1>2

LEMMA WalkInvStep ==
  ASSUME ProjectForms \subseteq {"in", "out"}, WalkInv, [StageNext]_stageVars
  PROVE  WalkInv'
<1>1. ASSUME NEW name \in Narrowing \cup Passing
                            \cup {"$addFields", "$set", "$unset", "$lookup", "$unwind"},
             NEW refs \in SUBSET Roots, NEW keys \in KeysOf(name),
             WalkStage(name, keys, "in", "none", refs)
      PROVE  WalkInv'
  <2>1. ASSUME Narrows(name, "in", keys, "none")
        PROVE  Really(name, keys, "in", "none") \subseteq After(name, keys, "in", "none")
    <3>1. CASE name \in Narrowing
      BY <3>1 DEF Really, After, Narrowing
    <3>2. CASE name \notin Narrowing
      <4>1. name # "$project"
        BY <1>1 DEF Narrowing, Passing
      <4>2. holds \subseteq available
        BY <2>1, <3>2, <4>1, <1>1 DEF Narrows, WalkInv, NarrowedCovers, WalkStage
      <4>3. CASE name \in {"$addFields", "$set", "$lookup", "$unwind"}
        BY <3>2, <4>1, <4>2, <4>3 DEF Really, After
      <4>4. CASE name = "$unset"
        BY <3>2, <4>2, <4>4 DEF Really, After, Drops, Narrowing
      <4>5. CASE name \in Passing
        BY <3>2, <4>2, <4>5 DEF Really, After, Passing, Narrowing
      <4> QED
        BY <1>1, <3>2, <4>3, <4>4, <4>5
    <3> QED
      BY <3>1, <3>2
  <2> QED
    BY <1>1, <2>1, StageStep
<1>2. ASSUME NEW p \in Projections, NEW refs \in SUBSET Roots,
             WalkStage("$project", p[1], p[2], p[3], refs)
      PROVE  WalkInv'
  <2>1. narrowed => holds \subseteq available
    BY <1>2 DEF WalkInv, NarrowedCovers, WalkStage
  <2>2. Narrows("$project", p[2], p[1], p[3]) =>
          Projects(p[2], p[1], p[3]) \subseteq AfterProject(p[2], p[1], p[3])
    BY <2>1, ProjectCovered
  <2>3. /\ Really("$project", p[1], p[2], p[3]) = Projects(p[2], p[1], p[3])
        /\ After("$project", p[1], p[2], p[3]) = AfterProject(p[2], p[1], p[3])
    BY DEF Really, After, Narrowing
  <2> QED
    BY <1>2, <2>2, <2>3, StageStep
<1>3. CASE StopWalk
  BY <1>3 DEF StopWalk, WalkInv, NarrowedCovers, AbsenceProven
<1>4. CASE UNCHANGED stageVars
  BY <1>4 DEF stageVars, WalkInv, NarrowedCovers, AbsenceProven
<1> QED
  BY <1>1, <1>2, <1>3, <1>4 DEF StageNext

(* The inductive invariant holds along every walk.                         *)
THEOREM WalkInvCorrect ==
  ASSUME ProjectForms \subseteq {"in", "out"}
  PROVE  StageSpec => []WalkInv
<1>1. StageInit => WalkInv
  BY DEF StageInit, Nothing, WalkInv, NarrowedCovers, AbsenceProven
<1>2. WalkInv /\ [StageNext]_stageVars => WalkInv'
  BY WalkInvStep
<1> QED
  BY <1>1, <1>2, PTL DEF StageSpec

(* The field firstUnknownStageField reports is one no document can have at *)
(* that stage, whatever the fields and however long the pipeline.          *)
THEOREM AbsenceCorrect ==
  ASSUME ProjectForms \subseteq {"in", "out"}
  PROVE  StageSpec => []AbsenceProven
<1>1. WalkInv => AbsenceProven
  BY DEF WalkInv
<1> QED
  BY <1>1, WalkInvCorrect, PTL

-----------------------------------------------------------------------------
(* The inductive invariant of SchemaAnswer: the calls made at each pass,   *)
(* nothing returned before the end, and what is returned is honest.        *)
ProseInv ==
  /\ engineKind \in {"sql", "mongo"} /\ asks \in Nat
  /\ passAt \in {"first", "challenge", "names", "over"}
  /\ passAt = "first" => asks <= 1
  /\ passAt = "challenge" => asks = 2
  /\ passAt = "names" => engineKind = "sql"
  /\ passAt # "over" => returned = Pending
  /\ ProseIsHonest

(* An answer made of a reply that is not the sentinel is honest.           *)
LEMMA AnsweredHonest ==
  ASSUME NEW m, "sentinel" \notin m,
         returned' = Answered(m), asks' <= IF engineKind' = "sql" THEN 3 ELSE 2
  PROVE  ProseIsHonest'
BY DEF ProseIsHonest, Answered, NeedsNote, Proposes

(* So is whatever is neither an answer nor a proposal.                     *)
LEMMA SilentHonest ==
  ASSUME returned'.kind # "answer", returned'.proposed = FALSE,
         asks' <= IF engineKind' = "sql" THEN 3 ELSE 2
  PROVE  ProseIsHonest'
BY DEF ProseIsHonest

(* Grounding an answer: it is returned, or the names are asked for again.  *)
LEMMA GroundHonest ==
  ASSUME NEW m, ProseInv, Ground(m), "sentinel" \notin m, passAt \in {"first", "challenge"},
         asks <= 2, UNCHANGED <<engineKind, question>>
  PROVE  ProseInv'
<1> DEFINE clean == m \ {"bolted"}
<1>1. CASE engineKind = "sql" /\ "invented" \in clean /\ "change" \notin question
  <2>1. passAt' = "names" /\ asks' = asks + 1 /\ returned' = returned
    BY <1>1 DEF Ground
  <2>2. returned' = Pending
    BY <2>1 DEF ProseInv
  <2>3. asks' <= 3 /\ engineKind' = "sql"
    BY <1>1, <2>1 DEF ProseInv
  <2>4. ProseIsHonest'
    BY <2>2, <2>3, SilentHonest DEF Pending
  <2> QED
    BY <2>1, <2>2, <2>3, <2>4 DEF ProseInv
<1>2. CASE ~(engineKind = "sql" /\ "invented" \in clean /\ "change" \notin question)
  <2>1. passAt' = "over" /\ asks' = asks /\ returned' = Answered(clean)
    BY <1>2 DEF Ground, Return
  <2>2. ProseIsHonest'
    BY <2>1, AnsweredHonest DEF ProseInv
  <2> QED
    BY <2>1, <2>2 DEF ProseInv
<1> QED
  BY <1>1, <1>2

(* An end that is no answer.                                               *)
LEMMA EndHonest ==
  ASSUME ProseInv, UNCHANGED engineKind, passAt' = "over",
         returned'.kind # "answer", returned'.proposed = FALSE,
         asks' \in Nat, asks' <= IF engineKind = "sql" THEN 3 ELSE 2
  PROVE  ProseInv'
<1>1. ProseIsHonest'
  BY SilentHonest
<1> QED
  BY <1>1 DEF ProseInv

LEMMA CannedSilent ==
  /\ Canned.kind # "answer" /\ Canned.proposed = FALSE
  /\ Threw.kind # "answer" /\ Threw.proposed = FALSE
  /\ Pending.kind # "answer" /\ Pending.proposed = FALSE
BY DEF Canned, Threw, Pending

(* Each reply keeps the invariant.                                         *)
LEMMA ReplyHonest ==
  ASSUME NEW m, ProseInv, FirstReply(m) \/ ChallengeReply(m) \/ NamesReply(m)
  PROVE  ProseInv'
<1>1. CASE FirstReply(m)
  <2>1. CASE Declines(m) /\ AboutThisDatabase
    <3>1. /\ passAt' = "challenge" /\ asks' = 2 /\ returned' = returned
          /\ engineKind' = engineKind
      BY <1>1, <2>1 DEF FirstReply, OffTopicAnswer
    <3>2. returned' = Pending
      BY <1>1, <3>1 DEF ProseInv, FirstReply
    <3>3. ProseIsHonest'
      <4>1. asks' <= IF engineKind' = "sql" THEN 3 ELSE 2
        BY <3>1
      <4>2. returned'.kind # "answer" /\ returned'.proposed = FALSE
        BY <3>2, CannedSilent
      <4> QED
        BY <4>1, <4>2, SilentHonest
    <3> QED
      BY <3>1, <3>2, <3>3 DEF ProseInv
  <2>2. CASE (Declines(m) /\ ~AboutThisDatabase) \/ (~Declines(m) /\ OffTopicAnswer(m))
    <3>1. /\ passAt' = "over" /\ returned' = Canned /\ asks' = asks
          /\ engineKind' = engineKind
      BY <1>1, <2>2 DEF FirstReply, Return
    <3> QED
      BY <3>1, CannedSilent, EndHonest DEF ProseInv, ProseIsHonest
  <2>3. CASE ~Declines(m) /\ ~OffTopicAnswer(m)
    <3>1. Ground(m) /\ "sentinel" \notin m /\ asks = 1 /\ passAt = "first"
      BY <1>1, <2>3 DEF FirstReply, Declines
    <3>2. UNCHANGED <<engineKind, question>>
      BY <1>1 DEF FirstReply
    <3> QED
      BY <3>1, <3>2, GroundHonest
  <2> QED
    BY <2>1, <2>2, <2>3
<1>2. CASE ChallengeReply(m)
  <2>1. CASE Declines(m) \/ ("refusal" \in m /\ "names" \notin m)
    <3>1. /\ passAt' = "over" /\ returned' = Canned /\ asks' = asks
          /\ engineKind' = engineKind
      BY <1>2, <2>1 DEF ChallengeReply, Return
    <3> QED
      BY <3>1, CannedSilent, EndHonest DEF ProseInv, ProseIsHonest
  <2>2. CASE ~(Declines(m) \/ ("refusal" \in m /\ "names" \notin m))
    <3>1. Ground(m) /\ "sentinel" \notin m /\ asks = 2 /\ passAt = "challenge"
      BY <1>2, <2>2 DEF ChallengeReply, Declines, ProseInv
    <3>2. UNCHANGED <<engineKind, question>>
      BY <1>2 DEF ChallengeReply
    <3> QED
      BY <3>1, <3>2, GroundHonest
  <2> QED
    BY <2>1, <2>2
<1>3. CASE NamesReply(m)
  <2>1. /\ passAt' = "over" /\ asks' = asks /\ engineKind' = engineKind
        /\ returned' = IF "sentinel" \in m THEN Canned ELSE Answered(m)
    BY <1>3 DEF NamesReply, Return
  <2>2. CASE "sentinel" \in m
    BY <2>1, <2>2, CannedSilent, EndHonest DEF ProseInv, ProseIsHonest
  <2>3. CASE "sentinel" \notin m
    <3>1. ProseIsHonest'
      BY <2>1, <2>3, AnsweredHonest DEF ProseInv, ProseIsHonest
    <3> QED
      BY <2>1, <3>1 DEF ProseInv
  <2> QED
    BY <2>2, <2>3
<1> QED
  BY <1>1, <1>2, <1>3

LEMMA FixHonest ==
  ASSUME NEW m, ProseInv, SuggestFix(m)
  PROVE  ProseInv'
<1>1. /\ passAt' = "over" /\ asks' \in {0, 1} /\ engineKind' = engineKind
      /\ returned'.kind # "answer"
      /\ returned'.proposed => "safe" \in returned'.marks
  BY DEF SuggestFix, CaseCorrected, UsableFix, Return, Pending
<1> QED
  BY <1>1 DEF ProseInv, ProseIsHonest

LEMMA ProseInvStep ==
  ASSUME ProseInv, [ProseNext]_proseVars
  PROVE  ProseInv'
<1>1. CASE AnsweredInCode
  <2>1. /\ passAt' = "over" /\ asks' = asks /\ engineKind' = engineKind
        /\ returned' \in {Canned, Threw}
    BY <1>1 DEF AnsweredInCode, Return, Unasked
  <2> QED
    BY <2>1, CannedSilent, EndHonest DEF ProseInv, ProseIsHonest
<1>2. CASE FirstAsk
  BY <1>2 DEF FirstAsk, ProseInv, ProseIsHonest
<1>3. CASE ProseFails
  <2>1. /\ passAt' = "over" /\ asks' = asks /\ engineKind' = engineKind
        /\ returned' = Threw
    BY <1>3 DEF ProseFails, Return, Unasked
  <2> QED
    BY <2>1, CannedSilent, EndHonest DEF ProseInv, ProseIsHonest
<1>4. CASE ProseAgain
  <2>1. /\ passAt' = "first" /\ asks' = 0 /\ engineKind' = engineKind
        /\ returned' = Pending
    BY <1>4 DEF ProseAgain
  <2>2. ProseIsHonest'
    <3>1. asks' <= IF engineKind' = "sql" THEN 3 ELSE 2
      BY <2>1
    <3>2. returned'.kind # "answer" /\ returned'.proposed = FALSE
      BY <2>1, CannedSilent
    <3> QED
      BY <3>1, <3>2, SilentHonest
  <2> QED
    BY <2>1, <2>2 DEF ProseInv
<1>5. ASSUME NEW m \in Replies,
             FirstReply(m) \/ ChallengeReply(m) \/ NamesReply(m) \/ SuggestFix(m)
      PROVE  ProseInv'
  BY <1>5, ReplyHonest, FixHonest
<1>6. ASSUME NEW allowed \in BOOLEAN, Explain(allowed) PROVE ProseInv'
  <2>1. /\ passAt' = "over" /\ asks' \in {0, 1} /\ engineKind' = engineKind
        /\ returned'.kind # "answer" /\ returned'.proposed = FALSE
    BY <1>6 DEF Explain, Return, Pending, Threw
  <2>2. asks' \in Nat /\ asks' <= IF engineKind = "sql" THEN 3 ELSE 2
    BY <2>1
  <2> QED
    BY <2>1, <2>2, EndHonest
<1>7. CASE UNCHANGED proseVars
  BY <1>7 DEF proseVars, ProseInv, ProseIsHonest
<1> QED
  BY <1>1, <1>2, <1>3, <1>4, <1>5, <1>6, <1>7 DEF ProseNext

(* The flags of a prose answer are about the text that is returned,        *)
(* whichever of the three replies it is, for any marks of questions and    *)
(* replies.                                                                *)
THEOREM ProseCorrect == ProseSpec => []ProseIsHonest
<1>1. ProseInit => ProseInv
  BY DEF ProseInit, ProseInv, ProseIsHonest, Pending
<1>2. ProseInv /\ [ProseNext]_proseVars => ProseInv'
  BY ProseInvStep
<1>3. ProseInv => ProseIsHonest
  BY DEF ProseInv
<1> QED
  BY <1>1, <1>2, <1>3, PTL DEF ProseSpec

-----------------------------------------------------------------------------
(* MongoEngine: the catalog a caller is given is never from before the     *)
(* last invalidateCatalog() ahead of its call.                             *)

(* The shape of the state the argument needs: callers, and a sequence.     *)
ShapeInv ==
  /\ epoch \in Nat
  /\ DOMAIN client = Clients
  /\ \E S : reads \in Seq(S)

(* What a caller waits for is under way, and began no earlier than its     *)
(* call; its call is no later than now.                                    *)
CallerInv(c) ==
  /\ client[c].since \in Nat /\ client[c].since <= epoch
  /\ client[c].waits # 0 =>
       /\ client[c].waits \in DOMAIN reads
       /\ reads[client[c].waits].at # "ended"
       /\ reads[client[c].waits].began \in Nat
       /\ reads[client[c].waits].began >= client[c].since
  /\ client[c].of # -1 => client[c].of \in Nat /\ client[c].of >= client[c].since

(* What can be joined, or taken from the cache, is of this generation.     *)
PresentInv ==
  /\ cachedCatalog.read # 0 => cachedCatalog.began = epoch
  /\ sharedRead # 0 =>
       /\ sharedRead \in DOMAIN reads
       /\ reads[sharedRead].at # "ended"
       /\ reads[sharedRead].began = epoch

MongoInv == ShapeInv /\ PresentInv /\ \A c \in Clients : CallerInv(c)

LEMMA OverStep ==
  ASSUME MongoInv, NEW c \in Clients, client' = Over(c), UNCHANGED mongoCache
  PROVE  MongoInv'
<1>1. ASSUME NEW d \in Clients PROVE CallerInv(d)'
  <2>1. CASE d = c
    <3>1. client'[d] = IdleClient
      BY <2>1 DEF Over, MongoInv, ShapeInv
    <3> QED
      BY <3>1 DEF CallerInv, IdleClient, MongoInv, ShapeInv, mongoCache
  <2>2. CASE d # c
    <3>1. client'[d] = client[d]
      BY <2>2 DEF Over, MongoInv, ShapeInv
    <3> QED
      BY <3>1 DEF CallerInv, MongoInv, mongoCache
  <2> QED
    BY <2>1, <2>2
<1>2. ShapeInv'
  BY DEF MongoInv, ShapeInv, Over, mongoCache
<1>3. PresentInv'
  BY DEF MongoInv, PresentInv, mongoCache
<1> QED
  BY <1>1, <1>2, <1>3 DEF MongoInv

(* A caller that takes the catalog of the moment, joins the read under way *)
(* or starts one.                                                          *)
LEMMA CatalogStep ==
  ASSUME MongoInv, NEW c \in Clients, NEW does, Catalog(c, does)
  PROVE  MongoInv'
<1>1. CASE InTtl
  <2>1. /\ client' = [client EXCEPT ![c] =
                        Given(does, epoch, cachedCatalog.began, cachedCatalog.names)]
        /\ UNCHANGED mongoCache
    BY <1>1 DEF Catalog
  <2>2. ASSUME NEW d \in Clients PROVE CallerInv(d)'
    <3>1. CASE d = c
      <4>1. client'[d] = Given(does, epoch, cachedCatalog.began, cachedCatalog.names)
        BY <2>1, <3>1 DEF MongoInv, ShapeInv
      <4>2. cachedCatalog.began = epoch /\ epoch \in Nat /\ epoch' = epoch
        BY <1>1, <2>1 DEF InTtl, MongoInv, PresentInv, ShapeInv, mongoCache
      <4> QED
        BY <4>1, <4>2 DEF CallerInv, Given
    <3>2. CASE d # c
      BY <2>1, <3>2 DEF CallerInv, MongoInv, ShapeInv, mongoCache
    <3> QED
      BY <3>1, <3>2
  <2> QED
    BY <2>1, <2>2 DEF MongoInv, ShapeInv, PresentInv, mongoCache
<1>2. CASE ~InTtl /\ sharedRead # 0
  <2>1. /\ client' = [client EXCEPT ![c] = WaitsFor(does, epoch, sharedRead)]
        /\ UNCHANGED mongoCache
    BY <1>2 DEF Catalog
  <2>2. ASSUME NEW d \in Clients PROVE CallerInv(d)'
    <3>1. CASE d = c
      <4>1. client'[d] = WaitsFor(does, epoch, sharedRead)
        BY <2>1, <3>1 DEF MongoInv, ShapeInv
      <4> QED
        BY <1>2, <2>1, <4>1 DEF CallerInv, WaitsFor, MongoInv, PresentInv, ShapeInv, mongoCache
    <3>2. CASE d # c
      BY <2>1, <3>2 DEF CallerInv, MongoInv, ShapeInv, mongoCache
    <3> QED
      BY <3>1, <3>2
  <2> QED
    BY <2>1, <2>2 DEF MongoInv, ShapeInv, PresentInv, mongoCache
<1>3. CASE ~InTtl /\ sharedRead = 0
  <2> DEFINE e == [began |-> epoch, names |-> {}, warned |-> FALSE, at |-> "connect"]
             n == Len(reads) + 1
  <2>1. /\ reads' = Append(reads, e) /\ sharedRead' = n
        /\ client' = [client EXCEPT ![c] = WaitsFor(does, epoch, n)]
        /\ cachedCatalog' = cachedCatalog /\ epoch' = epoch
    BY <1>3 DEF Catalog
  <2>2. e.began = epoch /\ e.at = "connect"
    OBVIOUS
  <2> HIDE DEF e
  <2>3. PICK S : reads \in Seq(S)
    BY DEF MongoInv, ShapeInv
  <2>4. reads \in Seq(S \cup {e})
    BY <2>3
  <2>5. /\ reads' \in Seq(S \cup {e})
        /\ DOMAIN reads' = 1 .. n /\ reads'[n] = e /\ n \in Nat /\ n # 0
        /\ \A r \in DOMAIN reads : r \in DOMAIN reads' /\ reads'[r] = reads[r]
    BY <2>1, <2>4
  <2>6. ASSUME NEW d \in Clients PROVE CallerInv(d)'
    <3>1. CASE d = c
      <4>1. client'[d] = WaitsFor(does, epoch, n)
        BY <2>1, <3>1 DEF MongoInv, ShapeInv
      <4>2. /\ client'[d].since = epoch /\ client'[d].waits = n /\ client'[d].of = -1
        BY <4>1 DEF WaitsFor
      <4>3. n \in DOMAIN reads' /\ reads'[n].at # "ended" /\ reads'[n].began = epoch
        BY <2>2, <2>5
      <4> QED
        BY <2>1, <4>2, <4>3 DEF CallerInv, MongoInv, ShapeInv
    <3>2. CASE d # c
      <4>1. client'[d] = client[d]
        BY <2>1, <3>2 DEF MongoInv, ShapeInv
      <4> QED
        BY <2>1, <2>5, <4>1 DEF CallerInv, MongoInv
    <3> QED
      BY <3>1, <3>2
  <2>7. PresentInv'
    BY <2>1, <2>2, <2>5 DEF PresentInv, MongoInv
  <2>8. ShapeInv'
    BY <2>1, <2>5 DEF ShapeInv, MongoInv
  <2> QED
    BY <2>6, <2>7, <2>8 DEF MongoInv
<1> QED
  BY <1>1, <1>2, <1>3 DEF Catalog

(* A read that goes on keeps its generation.                               *)
LEMMA IntrospectStep ==
  ASSUME MongoInv, NEW r \in DOMAIN reads, NEW names, Introspect(r, names)
  PROVE  MongoInv'
<1> DEFINE e == [began |-> reads[r].began, names |-> names,
                 warned |-> names # collections, at |-> "read"]
<1>1. /\ reads' = [reads EXCEPT ![r] = e]
      /\ UNCHANGED <<cachedCatalog, sharedRead, epoch, client>>
  BY DEF Introspect
<1>2. e.began = reads[r].began /\ e.at = "read"
  OBVIOUS
<1> HIDE DEF e
<1>3. PICK S : reads \in Seq(S)
  BY DEF MongoInv, ShapeInv
<1>4. /\ reads' \in Seq(S \cup {e}) /\ DOMAIN reads' = DOMAIN reads
      /\ \A s \in DOMAIN reads : reads'[s] = IF s = r THEN e ELSE reads[s]
  BY <1>1, <1>3
<1>5. \A s \in DOMAIN reads : /\ reads'[s].began = reads[s].began
                              /\ reads[s].at # "ended" => reads'[s].at # "ended"
  BY <1>2, <1>4
<1>6. ASSUME NEW d \in Clients PROVE CallerInv(d)'
  BY <1>1, <1>4, <1>5 DEF CallerInv, MongoInv
<1> QED
  BY <1>1, <1>4, <1>5, <1>6 DEF MongoInv, ShapeInv, PresentInv

(* A read that ends wakes those who wait for it, and nobody else.          *)
LEMMA ReadEndsStep ==
  ASSUME MongoInv, NEW r \in DOMAIN reads, NEW ok \in BOOLEAN, ReadEnds(r, ok)
  PROVE  MongoInv'
<1> DEFINE good == ok /\ ~(reads[r].warned /\ reads[r].names = {})
           waiting == {c \in Clients : client[c].waits = r}
           e == [began |-> 0, names |-> {}, warned |-> FALSE, at |-> "ended"]
<1>1. /\ reads[r].at = IF ok THEN "read" ELSE "connect"
      /\ reads' = [reads EXCEPT ![r] = e]
      /\ sharedRead' = 0 /\ epoch' = epoch
      /\ cachedCatalog' =
           IF good /\ MayCacheRead(r)
           THEN [read |-> r, began |-> reads[r].began, names |-> reads[r].names, fresh |-> TRUE]
           ELSE cachedCatalog
      /\ client' = [c \in Clients |->
           IF c \notin waiting THEN client[c]
           ELSE IF good THEN Given(client[c].does, client[c].since, reads[r].began, reads[r].names)
           ELSE IdleClient]
  BY DEF ReadEnds
<1> HIDE DEF good, e
<1>2. PICK S : reads \in Seq(S)
  BY DEF MongoInv, ShapeInv
<1>3. /\ reads' \in Seq(S \cup {e}) /\ DOMAIN reads' = DOMAIN reads
      /\ \A s \in DOMAIN reads : s # r => reads'[s] = reads[s]
  BY <1>1, <1>2
<1>4. r # 0
  BY <1>2
<1>5. ASSUME NEW d \in Clients PROVE CallerInv(d)'
  <2>0. epoch \in Nat /\ CallerInv(d)
    BY DEF MongoInv, ShapeInv
  <2>1. CASE d \notin waiting
    <3>1. client'[d] = client[d] /\ client[d].waits # r
      BY <1>1, <2>1
    <3> QED
      BY <1>1, <1>3, <2>0, <3>1 DEF CallerInv
  <2>2. CASE d \in waiting /\ good
    <3>1. client'[d] = Given(client[d].does, client[d].since, reads[r].began, reads[r].names)
      BY <1>1, <2>2
    <3>2. /\ client'[d].since = client[d].since /\ client'[d].waits = 0
          /\ client'[d].of = reads[r].began
      BY <3>1 DEF Given
    <3>3. reads[r].began \in Nat /\ reads[r].began >= client[d].since
      BY <1>4, <2>0, <2>2 DEF CallerInv
    <3> QED
      BY <1>1, <2>0, <3>2, <3>3 DEF CallerInv
  <2>3. CASE d \in waiting /\ ~good
    <3>1. client'[d] = IdleClient
      BY <1>1, <2>3
    <3> QED
      BY <1>1, <2>0, <3>1 DEF CallerInv, IdleClient
  <2> QED
    BY <2>1, <2>2, <2>3
<1>6. PresentInv'
  BY <1>1 DEF PresentInv, MayCacheRead, MongoInv
<1>7. ShapeInv'
  BY <1>1, <1>3 DEF ShapeInv, MongoInv
<1> QED
  BY <1>5, <1>6, <1>7 DEF MongoInv

(* A step that leaves callers and cache as they are, or ends a call.       *)
LEMMA StillStep ==
  ASSUME MongoInv, UNCHANGED <<mongoCache, client>>
  PROVE  MongoInv'
BY DEF MongoInv, ShapeInv, PresentInv, CallerInv, mongoCache

(* The loop of an ask: its caller goes on, or its call is over.            *)
LEMMA LoopStep ==
  ASSUME MongoInv, NEW c \in Clients, MongoModel(c)
  PROVE  MongoInv'
<1>1. UNCHANGED mongoCache
  BY DEF MongoModel, ModelFails, ModelImpossible, ModelNoPipeline, ModelFlawed
<1>2. client' = Over(c) \/ client' = client
  BY DEF MongoModel, ModelFails, ModelImpossible, ModelNoPipeline, ModelFlawed,
         RepairOrThrow, FreeRetry
<1> QED
  BY <1>1, <1>2, OverStep, StillStep

LEMMA MongoInvStep ==
  ASSUME MongoInv, [MEngineNext]_mongoVars
  PROVE  MongoInv'
<1>1. ASSUME NEW c \in Clients, MongoAsk(c) PROVE MongoInv'
  BY <1>1, CatalogStep, OverStep DEF MongoAsk, mongoCache
<1>2. ASSUME NEW c \in Clients, NEW b \in BOOLEAN, MongoExecute(c, b) PROVE MongoInv'
  BY <1>2, CatalogStep, OverStep DEF MongoExecute, mongoCache
<1>3. ASSUME NEW c \in Clients, MongoModel(c) PROVE MongoInv'
  BY <1>3, LoopStep
<1>4. ASSUME NEW r \in DOMAIN reads, MongoRead(r) PROVE MongoInv'
  BY <1>4, IntrospectStep, ReadEndsStep DEF MongoRead
<1>5. CASE Expire
  <2>1. /\ cachedCatalog'.read = cachedCatalog.read
        /\ cachedCatalog'.began = cachedCatalog.began
        /\ UNCHANGED <<sharedRead, epoch, reads, client>>
    BY <1>5 DEF Expire
  <2> QED
    BY <2>1 DEF MongoInv, ShapeInv, PresentInv, CallerInv
<1>6. CASE InvalidateCatalog
  <2>1. /\ cachedCatalog'.read = 0 /\ sharedRead' = 0 /\ epoch' = epoch + 1
        /\ UNCHANGED <<reads, client>>
    BY <1>6 DEF InvalidateCatalog, NotCached
  <2> QED
    BY <2>1 DEF MongoInv, ShapeInv, PresentInv, CallerInv
<1>7. CASE DatabaseChanges
  BY <1>7, StillStep DEF DatabaseChanges
<1>8. ASSUME NEW c \in Clients, NEW p \in Pipelines, Aggregate(c, p) PROVE MongoInv'
  <2>1. client' = Over(c) /\ UNCHANGED mongoCache
    BY <1>8 DEF Aggregate, GivesOut
  <2> QED
    BY <2>1, OverStep
<1>9. ASSUME NEW c \in Clients, NEW p \in Pipelines, NEW passes \in Judged,
             NEW flaw \in PipelineFlaws, ModelAnswers(c, p, passes, flaw)
      PROVE  MongoInv'
  <2>1. client' = Over(c) /\ UNCHANGED mongoCache
    BY <1>9 DEF ModelAnswers, GivesOut
  <2> QED
    BY <2>1, OverStep
<1>10. CASE UNCHANGED mongoVars
  BY <1>10, StillStep DEF mongoVars
<1> QED
  BY <1>1, <1>2, <1>3, <1>4, <1>5, <1>6, <1>7, <1>8, <1>9, <1>10 DEF MEngineNext

(* The inductive invariant of the Mongo engine's catalog.                  *)
THEOREM MongoInvCorrect == MEngineSpec => []MongoInv
<1>1. MEngineInit => MongoInv
  <2> SUFFICES ASSUME MEngineInit PROVE MongoInv
    OBVIOUS
  <2>1. reads \in Seq({})
    BY DEF MEngineInit
  <2>2. cachedCatalog.read = 0 /\ sharedRead = 0 /\ epoch = 0
    BY DEF MEngineInit, NotCached
  <2>3. ASSUME NEW c \in Clients PROVE CallerInv(c)
    BY <2>2 DEF MEngineInit, CallerInv, IdleClient
  <2> QED
    BY <2>1, <2>2, <2>3 DEF MEngineInit, MongoInv, ShapeInv, PresentInv
<1>2. MongoInv /\ [MEngineNext]_mongoVars => MongoInv'
  BY MongoInvStep
<1> QED
  BY <1>1, <1>2, PTL DEF MEngineSpec

(* Whoever asks for the catalog after an invalidateCatalog() gets one whose*)
(* introspection began after it, however many callers share its reads.     *)
THEOREM NothingFromBeforeCorrect == MEngineSpec => []NothingFromBefore
<1>1. MongoInv => NothingFromBefore
  BY DEF MongoInv, CallerInv, NothingFromBefore
<1> QED
  BY <1>1, MongoInvCorrect, PTL

-----------------------------------------------------------------------------
(* MongoEngine: what is given out, and what a question costs.              *)

(* The free retries are two.                                               *)
LEMMA ShotsCounted ==
  ASSUME NEW S \in SUBSET {"shrink", "fuzzy"}
  PROVE  /\ IsFiniteSet(S) /\ Cardinality(S) \in Nat /\ Cardinality(S) <= 2
         /\ \A x \in {"shrink", "fuzzy"} \ S : Cardinality(S \cup {x}) = Cardinality(S) + 1
<1> DEFINE T == {"shrink", "fuzzy"}
<1>1. IsFiniteSet({"shrink"}) /\ Cardinality({"shrink"}) = 1
  BY FS_Singleton
<1>2. IsFiniteSet({"shrink"} \cup {"fuzzy"}) /\ Cardinality({"shrink"} \cup {"fuzzy"}) = 2
  <2>1. "fuzzy" \notin {"shrink"} /\ 1 + 1 = 2
    OBVIOUS
  <2> QED BY <1>1, <2>1, FS_AddElement
<1>3. IsFiniteSet(T) /\ Cardinality(T) = 2
  <2>1. {"shrink"} \cup {"fuzzy"} = T
    OBVIOUS
  <2> QED BY <1>2, <2>1
<1>4. IsFiniteSet(S) /\ Cardinality(S) \in Nat /\ Cardinality(S) <= 2
  BY <1>3, FS_Subset, FS_CardinalityType
<1>5. ASSUME NEW x \in T \ S PROVE Cardinality(S \cup {x}) = Cardinality(S) + 1
  BY <1>4, FS_AddElement
<1> QED BY <1>4, <1>5

(* A repair and a free retry pay for the call they make; entering the loop *)
(* makes the one call that is free.                                        *)
LEMMA RepairPaid ==
  ASSUME NEW l, Paid(l), l.attempt < MONGO_MAX_REPAIRS
  PROVE  Paid(Repaired(l))
<1>1. Cardinality(l.shots) \in Nat
  BY ShotsCounted DEF Paid
<1> QED BY <1>1, MongoEngineAssumption DEF Paid, Repaired, MongoEngineAssumption

LEMMA RetryPaid ==
  ASSUME NEW l, Paid(l), NEW name \in {"shrink", "fuzzy"}, name \notin l.shots
  PROVE  Paid(Retried(l, name))
<1>1. Cardinality(l.shots) \in Nat /\ Cardinality(l.shots \cup {name}) = Cardinality(l.shots) + 1
  BY ShotsCounted DEF Paid
<1> QED BY <1>1, MongoEngineAssumption DEF Paid, Retried, MongoEngineAssumption

LEMMA EntryPaid ==
  /\ Paid(AtEntry)
  /\ \A l : Paid(l) => Paid(FirstCall(l))
<1>1. Cardinality({}) = 0
  BY FS_EmptySet
<1>2. Paid(AtEntry)
  BY <1>1, MongoEngineAssumption DEF Paid, AtEntry, MongoEngineAssumption
<1>3. ASSUME NEW l, Paid(l) PROVE Paid(FirstCall(l))
  <2>1. Cardinality(l.shots) \in Nat
    BY <1>3, ShotsCounted DEF Paid
  <2> QED BY <1>3, <2>1, MongoEngineAssumption DEF Paid, FirstCall, MongoEngineAssumption
<1> QED BY <1>2, <1>3

(* resolveCollection and rewriteJoinTargets: what leaves is the pipeline   *)
(* that came, as the catalog spells it.                                    *)
LEMMA ResolvedSame ==
  ASSUME NEW p \in Pipelines, NEW names, NEW q \in Resolved(p, names)
  PROVE  SameInCatalog(p, q, names)
<1>1. PICK n \in ResolveCollection(p.on, names), js \in RewriteJoinTargets(p, names) :
        q = [on |-> n, joins |-> js]
  BY DEF Resolved
<1>2. q.on = n /\ q.joins = js
  BY <1>1
<1>3. n \in names /\ SameName(n, p.on) /\ (p.on \in names => n = p.on)
  BY DEF ResolveCollection, SameName
<1>4. js \subseteq names /\ \A j \in p.joins : \E m \in js : m \in ResolveCollection(j, names)
  BY DEF RewriteJoinTargets
<1>5. p.joins \cap names \subseteq js
  BY <1>4 DEF ResolveCollection
<1> QED BY <1>2, <1>3, <1>4, <1>5 DEF SameInCatalog

(* A step that gives nothing out and leaves the loops alone.               *)
LEMMA LoopsStill ==
  ASSUME SoundInv, UNCHANGED <<loop, unsound>>
  PROVE  SoundInv'
BY DEF SoundInv

(* A step that puts one caller's loop in a state that is paid for.         *)
LEMMA LoopMoves ==
  ASSUME SoundInv, NEW c \in Clients, NEW l, Paid(l), loop' = [loop EXCEPT ![c] = l],
         UNCHANGED unsound
  PROVE  SoundInv'
<1>1. ASSUME NEW d \in Clients PROVE Paid(loop'[d])
  BY DEF SoundInv
<1> QED BY <1>1 DEF SoundInv

(* catalog() puts its caller at the entry of the loop, or just inside.     *)
LEMMA CatalogPaid ==
  ASSUME SoundInv, NEW c \in Clients, NEW does, Catalog(c, does), UNCHANGED unsound
  PROVE  SoundInv'
<1>1. Paid(AtEntry) /\ Paid(FirstCall(AtEntry))
  BY EntryPaid
<1>2. \/ loop' = [loop EXCEPT ![c] = AtEntry]
      \/ loop' = [loop EXCEPT ![c] = FirstCall(AtEntry)]
  BY DEF Catalog
<1> QED BY <1>1, <1>2, LoopMoves

(* The end of a read lets its waiting askers into their loops.             *)
LEMMA ReadEndsPaid ==
  ASSUME SoundInv, NEW r \in DOMAIN reads, NEW ok \in BOOLEAN, ReadEnds(r, ok), UNCHANGED unsound
  PROVE  SoundInv'
<1>1. DOMAIN loop' = Clients
  BY DEF ReadEnds
<1>2. ASSUME NEW c \in Clients PROVE Paid(loop'[c])
  <2>1. loop'[c] = loop[c] \/ loop'[c] = FirstCall(loop[c])
    BY DEF ReadEnds
  <2>2. Paid(loop[c])
    BY DEF SoundInv
  <2>3. Paid(FirstCall(loop[c]))
    BY <2>2, EntryPaid
  <2> QED BY <2>1, <2>2, <2>3
<1> QED BY <1>1, <1>2 DEF SoundInv

(* The loop: repairs while attempts are left, a free retry of each kind.   *)
LEMMA ModelPaid ==
  ASSUME SoundInv, NEW c \in Clients, MongoModel(c), UNCHANGED unsound
  PROVE  SoundInv'
<1>1. Paid(loop[c])
  BY DEF SoundInv
<1>2. CASE RepairOrThrow(c)
  <2>1. CASE UNCHANGED loop
    BY <2>1, LoopsStill
  <2>2. CASE /\ loop[c].attempt < MONGO_MAX_REPAIRS
             /\ loop' = [loop EXCEPT ![c] = Repaired(loop[c])]
    <3>1. Paid(Repaired(loop[c]))
      BY <1>1, <2>2, RepairPaid
    <3> QED BY <2>2, <3>1, LoopMoves
  <2> QED BY <1>2, <2>1, <2>2 DEF RepairOrThrow
<1>3. ASSUME NEW name \in {"shrink", "fuzzy"}, FreeRetry(c, name) PROVE SoundInv'
  <2>1. CASE UNCHANGED loop
    BY <2>1, LoopsStill
  <2>2. CASE /\ name \notin loop[c].shots
             /\ loop' = [loop EXCEPT ![c] = Retried(loop[c], name)]
    <3>1. Paid(Retried(loop[c], name))
      BY <1>1, <2>2, RetryPaid
    <3> QED BY <2>2, <3>1, LoopMoves
  <2> QED BY <1>3, <2>1, <2>2 DEF FreeRetry
<1>4. CASE UNCHANGED loop
  BY <1>4, LoopsStill
<1> QED
  BY <1>2, <1>3, <1>4
  DEF MongoModel, ModelFails, ModelImpossible, ModelNoPipeline, ModelFlawed

(* What ask() returns and execute() sends is the pipeline it was given, as *)
(* the catalog it resolved it against spells it.                           *)
LEMMA GivenOutSound ==
  ASSUME SoundInv, NEW c \in Clients, NEW p \in Pipelines, NEW clean, clean,
         NEW q \in Resolved(p, client[c].names), GivesOut(c, p, q, clean), UNCHANGED loop
  PROVE  SoundInv'
<1>1. SameInCatalog(p, q, client[c].names)
  BY ResolvedSame
<1> QED BY <1>1 DEF GivesOut, SoundInv

(* Every step of the engine.                                               *)
LEMMA SoundInvStep ==
  ASSUME SoundInv, [MEngineNext]_mongoVars
  PROVE  SoundInv'
<1>1. ASSUME NEW c \in Clients, MongoAsk(c), UNCHANGED unsound PROVE SoundInv'
  BY <1>1, CatalogPaid, LoopsStill DEF MongoAsk
<1>2. ASSUME NEW c \in Clients, NEW b \in BOOLEAN, MongoExecute(c, b), UNCHANGED unsound
      PROVE  SoundInv'
  BY <1>2, CatalogPaid, LoopsStill DEF MongoExecute
<1>3. ASSUME NEW c \in Clients, MongoModel(c), UNCHANGED unsound PROVE SoundInv'
  BY <1>3, ModelPaid
<1>4. ASSUME NEW r \in DOMAIN reads, MongoRead(r), UNCHANGED unsound PROVE SoundInv'
  BY <1>4, ReadEndsPaid, LoopsStill DEF MongoRead, Introspect
<1>5. CASE (Expire \/ InvalidateCatalog \/ DatabaseChanges) /\ UNCHANGED unsound
  BY <1>5, LoopsStill DEF Expire, InvalidateCatalog, DatabaseChanges
<1>6. ASSUME NEW c \in Clients, NEW p \in Pipelines, Aggregate(c, p) PROVE SoundInv'
  <2>1. UNCHANGED loop
    BY <1>6 DEF Aggregate
  <2>2. \/ UNCHANGED unsound
        \/ \E q \in Resolved(p, client[c].names) : GivesOut(c, p, q, TRUE)
    BY <1>6 DEF Aggregate
  <2> QED BY <2>1, <2>2, GivenOutSound, LoopsStill
<1>7. ASSUME NEW c \in Clients, NEW p \in Pipelines, NEW passes \in Judged,
             NEW flaw \in PipelineFlaws, ModelAnswers(c, p, passes, flaw)
      PROVE  SoundInv'
  <2>1. flaw = "none" /\ passes # {}
    BY <1>7 DEF ModelAnswers, Floors, PipelineFlaws, PipelineAllowed
  <2>2. PICK q \in Resolved(p, client[c].names) :
          GivesOut(c, p, q, flaw = "none" /\ passes # {})
    BY <1>7 DEF ModelAnswers
  <2>3. UNCHANGED loop
    BY <1>7 DEF ModelAnswers
  <2>4. GivesOut(c, p, q, TRUE)
    BY <2>1, <2>2 DEF GivesOut
  <2> QED BY <2>3, <2>4, GivenOutSound
<1>8. CASE UNCHANGED mongoVars
  BY <1>8, LoopsStill DEF mongoVars
<1> QED
  BY <1>1, <1>2, <1>3, <1>4, <1>5, <1>6, <1>7, <1>8 DEF MEngineNext

(* The pipelines ask() returns and execute() sends are those that came, as *)
(* the catalog spells them, none of them rejected by the guard or a floor; *)
(* one question costs at most MAX_REPAIRS + 3 model calls.  For any names, *)
(* any number of callers and any bound on repairs.                         *)
THEOREM PipelineCorrect == MEngineSpec => []PipelineSound
<1>1. MEngineInit => SoundInv
  <2> SUFFICES ASSUME MEngineInit PROVE SoundInv
    OBVIOUS
  <2> QED BY EntryPaid DEF MEngineInit, SoundInv
<1>2. SoundInv /\ [MEngineNext]_mongoVars => SoundInv'
  BY SoundInvStep
<1>3. SoundInv => PipelineSound
  <2> SUFFICES ASSUME SoundInv, NEW c \in Clients PROVE loop[c].calls <= MongoCallBudget
    BY DEF SoundInv, PipelineSound
  <2>1. Paid(loop[c]) /\ Cardinality(loop[c].shots) \in Nat /\ Cardinality(loop[c].shots) <= 2
    BY ShotsCounted DEF SoundInv, Paid
  <2> QED BY <2>1, MongoEngineAssumption DEF Paid, MongoCallBudget, MongoEngineAssumption
<1> QED
  BY <1>1, <1>2, <1>3, PTL DEF MEngineSpec
=============================================================================
