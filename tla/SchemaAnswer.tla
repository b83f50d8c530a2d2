---------------------------- MODULE SchemaAnswer ----------------------------
(***************************************************************************)
(* The prose half of the engines: explainSchema, explain and suggestFix of *)
(* packages/core/src/engine.ts, and explainSchema of mongo/engine.ts.  A   *)
(* question goes through up to three model calls; whatever the model says, *)
(* what is returned carries flags a host acts on.                          *)
(*                                                                         *)
(* A reply is the set of marks the tests of the code find in it; a         *)
(* question is the set of marks found in it.                               *)
(***************************************************************************)
EXTENDS Integers, FiniteSets

CONSTANTS
  ReplyMarks,    \* the marks replies may have, a subset of AllReplyMarks
  QuestionMarks  \* the marks questions may have, a subset of AllQuestionMarks

AllReplyMarks ==
  {"sentinel",    \* isOffTopic: the reply is the OUT_OF_SCOPE marker
   "bolted",      \* the marker was added to an answer: stripSentinel
   "degenerate",  \* isDegenerateAnswer: a word or two
   "refusal",     \* isProseRefusal
   "names",       \* mentionsCatalogName or looksDatabaseRelated
   "write",       \* PROPOSED_WRITE_RE, MONGO_WRITE_COMMAND_RE
   "invented",    \* unknownReferencesInProse is not empty
   "readOnly",    \* it says "read-only" itself
   "query",       \* extractSql, extractPipeline find a query
   "safe",        \* ... that the guard allows
   "known"}       \* ... whose names all exist

AllQuestionMarks ==
  {"injection", "capability",
   "noTables",    \* the connection has nothing to describe
   "database",    \* looksDatabaseRelated, a catalog name in it, a follow-up
   "change",      \* SCHEMA_CHANGE_RE, isSchemaProposalQuestion
   "write",       \* isWriteRequest
   "statement"}   \* a write statement is written in it

ASSUME SchemaAnswerAssumption ==
  ReplyMarks \subseteq AllReplyMarks /\ QuestionMarks \subseteq AllQuestionMarks

VARIABLES
  engineKind,  \* "sql" or "mongo"
  question,    \* the marks of the question
  passAt,      \* the call under way: "first", "challenge" or "names"; or "over"
  asks,        \* model calls made
  returned     \* what the caller got

proseVars == <<engineKind, question, passAt, asks, returned>>

Pending == [kind |-> "none", marks |-> {}, note |-> FALSE, grounded |-> FALSE,
            proposed |-> FALSE]
Canned == [Pending EXCEPT !.kind = "canned", !.grounded = TRUE]
Threw == [Pending EXCEPT !.kind = "error"]

(* A reply the tests can tell apart: a refusal, a fragment or an answer.   *)
Replies ==
  {m \in SUBSET ReplyMarks :
     /\ "sentinel" \in m => m = {"sentinel"}
     /\ "degenerate" \in m => m \subseteq {"degenerate", "write"}
     /\ {"safe", "known"} \cap m # {} => "query" \in m
     /\ "write" \in m => "safe" \notin m}

ProseInit ==
  /\ engineKind \in {"sql", "mongo"}
  /\ question \in SUBSET QuestionMarks
  /\ passAt = "first" /\ asks = 0 /\ returned = Pending

Return(r) == passAt' = "over" /\ returned' = r
Unasked == UNCHANGED <<engineKind, question, asks>>

(* Empty or too long; injection and capability answered in code; nothing   *)
(* to describe.                                                            *)
AnsweredInCode ==
  /\ passAt = "first" /\ asks = 0
  /\ Return(IF question \cap {"injection", "capability", "noTables"} # {} THEN Canned ELSE Threw)
  /\ Unasked

(* isSchemaChange, proposesWrite: what else makes it a question about this *)
(* database.  A write request counts in the SQL engine alone.              *)
AboutThisDatabase ==
  \/ question \cap {"database", "change"} # {}
  \/ engineKind = "sql" /\ "write" \in question

Declines(m) == "sentinel" \in m \/ ("degenerate" \in m /\ "write" \notin m)

(* The deterministic backstop for models that ignore the sentinel rule.    *)
OffTopicAnswer(m) == ~AboutThisDatabase /\ m \cap {"names", "write"} = {}

(* A write in the answer or in the question carries the read-only note,    *)
(* which comes last so that it survives the repair pass.                   *)
NeedsNote(m) == ("write" \in m \/ "statement" \in question) /\ "readOnly" \notin m

(* A query worth handing back: read-only, of names that exist.             *)
Proposes(m) == {"query", "safe", "known"} \subseteq m

Answered(m) ==
  [kind |-> "answer", marks |-> m, note |-> NeedsNote(m),
   grounded |-> "invented" \notin m, proposed |-> Proposes(m)]

(* Strip, ground, and repair once when names were invented: the SQL engine *)
(* asks again unless new names are the proposal, the Mongo engine does not.*)
Ground(m) ==
  LET clean == m \ {"bolted"} IN
  IF engineKind = "sql" /\ "invented" \in clean /\ "change" \notin question
  THEN passAt' = "names" /\ asks' = asks + 1 /\ UNCHANGED returned
  ELSE Return(Answered(clean)) /\ UNCHANGED asks

(* The first call is sent.                                                 *)
FirstAsk ==
  /\ passAt = "first" /\ asks = 0
  /\ question \cap {"injection", "capability", "noTables"} = {}
  /\ asks' = 1
  /\ UNCHANGED <<engineKind, question, passAt, returned>>

(* Its reply: a refusal is challenged once when the question is plainly    *)
(* about data, and accepted otherwise.                                     *)
FirstReply(m) ==
  /\ passAt = "first" /\ asks = 1
  /\ \/ /\ Declines(m) /\ AboutThisDatabase
        /\ passAt' = "challenge" /\ asks' = asks + 1 /\ UNCHANGED returned
     \/ /\ (Declines(m) /\ ~AboutThisDatabase) \/ (~Declines(m) /\ OffTopicAnswer(m))
        /\ Return(Canned) /\ UNCHANGED asks
     \/ ~Declines(m) /\ ~OffTopicAnswer(m) /\ Ground(m)
  /\ UNCHANGED <<engineKind, question>>

(* The challenged refusal: in prose now, since no sentinel is offered.     *)
ChallengeReply(m) ==
  /\ passAt = "challenge"
  /\ \/ /\ Declines(m) \/ ("refusal" \in m /\ "names" \notin m)
        /\ Return(Canned) /\ UNCHANGED asks
     \/ /\ ~(Declines(m) \/ ("refusal" \in m /\ "names" \notin m))
        /\ Ground(m)
  /\ UNCHANGED <<engineKind, question>>

(* Mutant: the repaired answer is returned as it comes.                    *)
NamesReplyUnchecked(m) ==
  /\ passAt = "names"
  /\ Return(Answered(m))
  /\ UNCHANGED <<engineKind, question, asks>>

(* The repair of invented names, grounded again.                           *)
NamesReply(m) ==
  /\ passAt = "names"
  /\ Return(IF "sentinel" \in m THEN Canned ELSE Answered(m))
  /\ UNCHANGED <<engineKind, question, asks>>

(* callModel rejects.                                                      *)
ProseFails ==
  /\ passAt # "over" /\ asks > 0
  /\ Return(Threw)
  /\ Unasked

-----------------------------------------------------------------------------
(* suggestFix: null unless there is a question and a catalog; a wrong case *)
(* is corrected from the catalog, else the model is asked, and its fix     *)
(* must be new, allowed and of names that exist.  It never throws.         *)
CaseCorrected(m) == Return([Pending EXCEPT !.kind = "fix", !.proposed = TRUE, !.marks = m])
UsableFix(m) == {"query", "safe", "known"} \subseteq m

SuggestFix(m) ==
  /\ passAt = "first" /\ asks = 0 /\ engineKind = "sql" /\ question = {}
  /\ \/ {"query", "safe"} \subseteq m /\ CaseCorrected(m) /\ UNCHANGED asks
     \/ /\ asks' = 1
        /\ Return(IF UsableFix(m) THEN [Pending EXCEPT !.kind = "fix", !.proposed = TRUE,
                                                       !.marks = m]
                  ELSE [Pending EXCEPT !.kind = "noFix"])
  /\ UNCHANGED <<engineKind, question>>

(* explain: guarded first, so that it is no free channel to the model.     *)
Explain(allowed) ==
  /\ passAt = "first" /\ asks = 0 /\ question = {}
  /\ asks' = IF allowed THEN 1 ELSE 0
  /\ Return(IF allowed THEN [Pending EXCEPT !.kind = "explained"] ELSE Threw)
  /\ UNCHANGED <<engineKind, question>>

(* The next question.                                                      *)
ProseAgain ==
  /\ passAt = "over"
  /\ question' \in SUBSET QuestionMarks
  /\ passAt' = "first" /\ asks' = 0 /\ returned' = Pending
  /\ UNCHANGED engineKind

ProseNext ==
  \/ AnsweredInCode \/ FirstAsk \/ ProseFails \/ ProseAgain
  \/ \E m \in Replies :
       FirstReply(m) \/ ChallengeReply(m) \/ NamesReply(m) \/ SuggestFix(m)
  \/ \E allowed \in BOOLEAN : Explain(allowed)

ProseSpec == ProseInit /\ [][ProseNext]_proseVars
-----------------------------------------------------------------------------
(* Whichever of the three replies ends up as the answer: the raw sentinel  *)
(* is never it, a statement that writes carries the read-only note,        *)
(* `grounded` is about the text that is returned and not an earlier one, a *)
(* query handed back for "run that" is read-only and of names that exist,  *)
(* and the question cost at most three calls, two in the Mongo engine.     *)
ProseIsHonest ==
  /\ asks <= IF engineKind = "sql" THEN 3 ELSE 2
  /\ returned.kind = "answer" =>
       /\ "sentinel" \notin returned.marks
       /\ "write" \in returned.marks => returned.note \/ "readOnly" \in returned.marks
       /\ returned.grounded <=> "invented" \notin returned.marks
       /\ returned.proposed => "known" \in returned.marks
  /\ returned.proposed => "safe" \in returned.marks
=============================================================================
