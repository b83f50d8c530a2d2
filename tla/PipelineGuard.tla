---------------------------- MODULE PipelineGuard ----------------------------
(***************************************************************************)
(* The guard of MongoDB pipelines, core's guardPipeline (mongo/guard.ts)   *)
(* and the IDE's MongoGuard.kt: an allowlist of stages walked into every   *)
(* sub-pipeline, and a trailing $limit added or lowered in the pipeline    *)
(* and in every branch of a $facet.                                        *)
(*                                                                         *)
(* A pipeline is the function of its parts by their place: the whole is at *)
(* <<>>, and sub-pipeline i (one of $lookup and $unionWith, the branches   *)
(* of $facet) of stage k of the part at b is at b \o <<k, i>>. A part is a *)
(* sequence of stages, a stage its operator and the row count of $limit    *)
(* and $sample (TextRows when the count is not a number).                  *)
(***************************************************************************)
EXTENDS Naturals, Sequences, SequencesExt, FiniteSetsExt

CONSTANTS PipelineCap,   \* the policy's maxRows
          MaxNesting,    \* the policy's maxDepth, counted in sub-pipelines
          Pipelines      \* the pipelines a model may write

Plenty == PipelineCap + 3     \* more documents than any count below
TextRows == PipelineCap + 4   \* a $limit whose count is not a number

(* $match stands for every allowed stage that keeps or drops documents,
   $unwind for those that can multiply them; "push" is a $group that collects
   an array; "where" holds a JavaScript operator, "regex" a pattern that is
   too long, nested or unreadable, at some depth of its value. "out" stands
   for the stages that are not allowed, "twoKeys" for an object that is not a
   stage. *)
AllowedStages == {"match", "limit", "sample", "group", "push", "unwind",
                  "facet", "lookup", "unionWith", "where", "regex"}

Stages == [op : AllowedStages \union {"out", "twoKeys"}, rows : Nat]
Limit(n) == [op |-> "limit", rows |-> n]

ASSUME PipelineAssumption ==
    /\ PipelineCap \in Nat
    /\ \A P \in Pipelines : /\ <<>> \in DOMAIN P /\ DOMAIN P \subseteq Seq(Nat)
                           /\ \A b \in DOMAIN P : P[b] \in Seq(Stages)

VARIABLES pipeline,   \* the pipeline as the model wrote it
          form,       \* "strict" or "shell" JSON, "hugeInteger", or not JSON at all
          host,       \* "core" or "ide": whose guard reads it
          sentOut     \* what leaves the guard: a verdict, or that it is still waited for

pipelineVars == <<pipeline, form, host, sentOut>>
NoStages == [b \in {<<>>} |-> <<>>]
Blocked(rule) == [rule |-> rule, stages |-> NoStages]
Waiting == Blocked("pending")

-----------------------------------------------------------------------------
(* A stage by its place, after the place of the part it stands in. One comes
   before those inside it, and before the later ones. *)
StagesOf(P) == UNION {{Append(b, k) : k \in 1..Len(P[b])} : b \in DOMAIN P}
StageAt(P, x) == P[Front(x)][Last(x)]
Precedes(x, y) ==
    \/ IsStrictPrefix(x, y)
    \/ \E n \in 1..Len(x) : n <= Len(y) /\ x[n] < y[n] /\ \A m \in 1..(n - 1) : x[m] = y[m]
First(S) == CHOOSE x \in S : \A y \in S \ {x} : Precedes(x, y)

(* boundsRowCount: a $limit or $sample with a number. *)
BoundsRowCount(stage) == stage.op \in {"limit", "sample"} /\ stage.rows # TextRows

(* scanValue: what a stage's value may not hold at any depth, its
   sub-pipelines included, and where it does. *)
Held(P, x) ==
    CASE Len(Front(x)) \div 2 > MaxNesting -> "too_deep"
      [] StageAt(P, x).op = "where"        -> "operator_denied"
      [] StageAt(P, x).op = "regex"        -> "regex_unsafe"
      [] OTHER                             -> "none"
ScanValue(P, x) == {y \in StagesOf(P) : IsPrefix(x, y) /\ Held(P, y) # "none"}

(* walkPipeline: the stages that break a rule. The verdict names the rule of
   the first, in the order of the stages and, for a stage, before those of its
   sub-pipelines. *)
Offends(P, x) ==
    \/ StageAt(P, x).op \notin AllowedStages
    \/ ScanValue(P, x) # {}
    \/ StageAt(P, x).op = "push" /\ ~\E j \in 1..(Last(x) - 1) : BoundsRowCount(P[Front(x)][j])
WalkPipeline(P) == {x \in StagesOf(P) : Offends(P, x)}
Violation(P) ==
    LET x == First(WalkPipeline(P))
    IN CASE StageAt(P, x).op = "twoKeys"          -> "invalid_stage"
         [] StageAt(P, x).op \notin AllowedStages \union {"twoKeys"} -> "stage_denied"
         [] StageAt(P, x).op \in AllowedStages    ->
              IF ScanValue(P, x) # {} THEN Held(P, First(ScanValue(P, x))) ELSE "unbounded_accumulator"

(* limitDecision: only the last stage governs what a pipeline returns. *)
LimitDecision(s) ==
    IF s # <<>> /\ Last(s).op = "limit" /\ Last(s).rows # TextRows
      THEN IF Last(s).rows > PipelineCap THEN "high" ELSE "ok"
      ELSE "none"

(* capPipeline: the whole, and the branches of a $facet in what it caps. *)
CapStages(s) ==
    CASE LimitDecision(s) = "none" -> Append(s, Limit(PipelineCap))
      [] LimitDecision(s) = "high" -> Append(Front(s), Limit(PipelineCap))
      [] OTHER                     -> s
InFacets(P, b) ==
    \A n \in 1..Len(b) : n % 2 = 1 => P[SubSeq(b, 1, n - 1)][b[n]].op = "facet"
CapPipeline(P) == [b \in DOMAIN P |-> IF InFacets(P, b) THEN CapStages(P[b]) ELSE P[b]]

(* guardPipeline: relaxShellJson accepts the shell's JSON, an integer beyond
   2^53 would be rounded by JSON.parse. *)
GuardPipeline(P) ==
    CASE form = "garbage"     -> Blocked("parse_failed")
      [] form = "hugeInteger" -> Blocked("integer_unsafe")
      [] form \notin {"garbage", "hugeInteger"} /\ WalkPipeline(P) # {} -> Blocked(Violation(P))
      [] OTHER                -> [rule |-> "allowed", stages |-> CapPipeline(P)]

(* MongoGuard.guard: extended JSON keeps its integers. *)
IdeGuardPipeline(P) ==
    CASE form = "garbage"     -> Blocked("parse_failed")
      [] form # "garbage" /\ WalkPipeline(P) # {} -> Blocked(Violation(P))
      [] OTHER                -> [rule |-> "allowed", stages |-> CapPipeline(P)]

PipelineInit ==
    /\ pipeline \in Pipelines
    /\ form \in {"strict", "shell", "hugeInteger", "garbage"}
    /\ form # "strict" => DOMAIN pipeline = {<<>>} /\ Len(pipeline[<<>>]) = 1
    /\ host \in {"core", "ide"}
    /\ sentOut = Waiting

GuardOnePipeline ==
    /\ sentOut = Waiting
    /\ sentOut' = IF host = "core" THEN GuardPipeline(pipeline) ELSE IdeGuardPipeline(pipeline)
    /\ UNCHANGED <<pipeline, form, host>>

PipelineNext == GuardOnePipeline
PipelineSpec == PipelineInit /\ [][PipelineNext]_pipelineVars

-----------------------------------------------------------------------------
(* The most documents a part passes on, of a large collection, when each of
   its $unionWith stages adds as many documents as `more` says. *)
Passed(stage, before, more) ==
    CASE stage.op \in {"limit", "sample"} -> Min({before, stage.rows})
      [] stage.op = "unwind"              -> IF before = 0 THEN 0 ELSE Plenty
      [] stage.op = "unionWith"           -> Min({Plenty, before + more})
      [] stage.op = "facet"               -> 1
      [] stage.op \notin {"limit", "sample", "unwind", "unionWith", "facet"} -> before
Docs(s, more) ==
    LET docs[k \in 0..Len(s)] == IF k = 0 THEN Plenty ELSE Passed(s[k], docs[k - 1], more[k])
    IN docs
Returned(s, more) == Docs(s, more)[Len(s)]
Unions(s) == {k \in 1..Len(s) : s[k].op = "unionWith"}

(* The capped pipeline Q of P returns what P would, up to the cap, and so
   does every branch of a facet, which MongoDB gathers into one document;
   nothing else in it changes. *)
CappedForm(P, Q) ==
    /\ DOMAIN Q = DOMAIN P
    /\ \A b \in DOMAIN P :
         /\ InFacets(P, b) => \A more \in [Unions(P[b]) -> 0..Plenty] :
                                Returned(Q[b], more) = Min({Returned(P[b], more), PipelineCap})
         /\ ~InFacets(P, b) => Q[b] = P[b]
         /\ \A k \in 1..Len(P[b]) : k < Len(P[b]) \/ P[b][k].op # "limit" => Q[b][k] = P[b][k]

(* No stage that writes or runs JavaScript, at any depth. *)
Clean(P) == \A b \in DOMAIN P : \A k \in 1..Len(P[b]) : P[b][k].op \in AllowedStages \ {"where", "regex"}

(* Wherever a $facet, a $unionWith or an $unwind stands among the stages, a
   pipeline either guard lets through returns at most the cap, in every branch,
   and otherwise what was asked (capPipeline, limitDecision); a pipeline that
   writes or runs JavaScript at any depth is not let through. *)
PipelineBounded ==
    sentOut.rule = "allowed" => Clean(sentOut.stages) /\ CappedForm(pipeline, sentOut.stages)
=============================================================================
