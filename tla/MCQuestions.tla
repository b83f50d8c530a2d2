----------------------------- MODULE MCQuestions -----------------------------
(* A question in the engines for TLC: the SQL engine's ask() and run(), the *)
(* Mongo engine's ask() and execute(), the field floor the latter walks,    *)
(* and the prose answers of both.  They share no state, so a behaviour      *)
(* exercises one of the four.                                               *)
EXTENDS MCAskPipeline, MongoEngine, StageFields, SchemaAnswer, TLC

VARIABLE focus

allVars == <<focus, vars, mongoVars, stageVars, proseVars>>

\* What another behaviour exercises stays in one of its initial states.
QuestionInit ==
  /\ focus \in {"sql", "mongo", "fields", "prose"}
  /\ Init /\ MEngineInit /\ StageInit /\ ProseInit
  /\ focus # "sql" => total = 0
  /\ focus # "mongo" => collections = {}
  /\ focus # "fields" => holds = {}
  /\ focus # "prose" => engineKind = "sql" /\ question = {}

QuestionNext ==
  \/ focus = "sql" /\ Next /\ UNCHANGED <<focus, mongoVars, stageVars, proseVars>>
  \/ focus = "mongo" /\ MEngineNext /\ UNCHANGED <<focus, vars, stageVars, proseVars>>
  \/ focus = "fields" /\ StageNext /\ UNCHANGED <<focus, vars, mongoVars, proseVars>>
  \/ focus = "prose" /\ ProseNext /\ UNCHANGED <<focus, vars, mongoVars, stageVars>>

QuestionSpec == QuestionInit /\ [][QuestionNext]_allVars

\* Callers, and the spellings of a name, are interchangeable.
Interchangeable == Permutations(Clients) \cup Permutations(Spelled)
==============================================================================
