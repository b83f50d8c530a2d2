----------------------------- MODULE GuardProofs -----------------------------
(***************************************************************************)
(* Proofs about the guards and about what is stored of what they let       *)
(* through, checked by the run of MCRules.  For any cap and any counts,    *)
(* what either SQL guard lets through is capped as asked, and is let       *)
(* through again (SqlGuard); for a text of any length, the cap that core   *)
(* writes at its end is what every database reads (SqlText); for pipelines *)
(* of any length and depth, what is let through writes nothing and returns *)
(* no more documents than the cap (PipelineGuard); the three together      *)
(* (MCRules).  For any number of calls and any caps, the stores list the   *)
(* newest rows and the best examples of their own user (Stores).           *)
(***************************************************************************)
EXTENDS MCRules, RulesProofs

-----------------------------------------------------------------------------
(* SqlGuard *)

(* The rule a list names is one that applies.                              *)
LEMMA RuleNamed ==
  ASSUME NEW rules, NEW n \in Nat, Len(rules) = n
  PROVE  \/ FirstRule(rules) = "none"
         \/ \E k \in 1..n : rules[k][1] /\ FirstRule(rules) = rules[k][2]
  <1> DEFINE hits == {k \in 1..Len(rules) : rules[k][1]}
  <1>1. CASE hits = {}
    BY <1>1 DEF FirstRule
  <1>2. CASE hits # {}
    <2>1. hits \subseteq Nat
      OBVIOUS
    <2>2. Min(hits) \in hits
      BY <2>1, <1>2, LeastOfNaturals
    <2>3. FirstRule(rules) = rules[Min(hits)][2]
      BY <1>2 DEF FirstRule
    <2> QED BY <2>2, <2>3
  <1> QED BY <1>1, <1>2

(* A list whose names are not "none" says "none" when no rule applies.     *)
LEMMA NoRuleApplies ==
  ASSUME NEW rules, NEW n \in Nat, Len(rules) = n,
         \A k \in 1..n : rules[k][1] => rules[k][2] # "none"
  PROVE  FirstRule(rules) = "none" <=> \A k \in 1..n : ~rules[k][1]
  <1> DEFINE hits == {k \in 1..Len(rules) : rules[k][1]}
  <1>1. CASE hits = {}
    BY <1>1 DEF FirstRule
  <1>2. CASE hits # {}
    <2>1. Min(hits) \in hits
      <3>1. hits \subseteq Nat
        OBVIOUS
      <3> QED BY <3>1, <1>2, LeastOfNaturals
    <2>2. FirstRule(rules) = rules[Min(hits)][2]
      BY <1>2 DEF FirstRule
    <2> QED BY <2>1, <2>2
  <1> QED BY <1>1, <1>2

(* No rule of a tree is called "allowed".                                  *)
LEMMA WalkNames ==
  ASSUME NEW s, NEW allowFiles
  PROVE  CoreWalk(s, allowFiles) \notin {"allowed", "pending"} /\ IdeWalk(s, allowFiles) \notin {"allowed", "pending"}
  <1> DEFINE core == <<
    <<s.fault = "tooDeep", "too_deep">>,
    <<WritesInside(s), "statement_not_allowed">>,
    <<s.fault = "into", "select_into">>,
    <<CoreFileRelation(s), "file_relation">>,
    <<AdvancesSequence(s), "sequence_pseudo_column">>,
    <<CoreDenies(s.engine, s.fn, allowFiles), "function_denied">> >>
  <1> DEFINE ide == <<
    <<s.fault = "tooDeep", "too_deep">>,
    <<WritesInside(s), "writable_cte">>,
    <<s.fault = "into", "select_into">>,
    <<IdeFileRelation(s), "file_relation">>,
    <<IdeDenies(s.engine, s.fn, allowFiles), "function_denied">>,
    <<AdvancesSequence(s), "sequence_pseudo_column">> >>
  <1>1. /\ CoreWalk(s, allowFiles) = FirstRule(core) /\ Len(core) = 6
        /\ \A k \in 1..6 : core[k][2] \notin {"allowed", "pending"}
    BY DEF CoreWalk
  <1>2. /\ IdeWalk(s, allowFiles) = FirstRule(ide) /\ Len(ide) = 6
        /\ \A k \in 1..6 : ide[k][2] \notin {"allowed", "pending"}
    BY DEF IdeWalk
  <1> HIDE DEF core, ide
  <1>3. \/ FirstRule(core) = "none"
        \/ \E k \in 1..6 : core[k][1] /\ FirstRule(core) = core[k][2]
    BY <1>1, RuleNamed
  <1>4. \/ FirstRule(ide) = "none"
        \/ \E k \in 1..6 : ide[k][1] /\ FirstRule(ide) = ide[k][2]
    BY <1>2, RuleNamed
  <1> QED BY <1>1, <1>2, <1>3, <1>4

(* What core's guard has found when no rule of its list applied.           *)
CoreClear(s, allowFiles) ==
  /\ ~(s.fault = "empty")
  /\ ~(s.fault = "tooLong")
  /\ ~RunsComment(s)
  /\ ~(s.fault = "second")
  /\ ~Pragma(s)
  /\ ~(Show(s) /\ s.verb = "showCall")
  /\ ~Show(s)
  /\ ~(IsFetch(s.engine) /\ Own(s).kind \in {"countOffset", "param"})
  /\ ~(s.fault = "locking")
  /\ ~(s.fault = "outfile")
  /\ ~(s.fault = "backtick" /\ Quote(s.engine) # "backtick")
  /\ ~Wedges(s)
  /\ ~(s.fault = "unparseable" \/ s.verb \notin {"select", "explain"} \/ (s.verb = "explain" /\ Own(s).kind \in {"fetch", "percent"}))
  /\ ~(s.fault = "write")
  /\ ~(CoreWalk(s, allowFiles) # "none")

LEMMA CoreRules ==
  ASSUME NEW s, NEW allowFiles
  PROVE  /\ CoreRule(s, allowFiles) = "none" <=> CoreClear(s, allowFiles)
         /\ s.verb = "select" => CoreRule(s, allowFiles) # "allowed"
         /\ CoreRule(s, allowFiles) # "pending"
  <1> DEFINE rules == <<
    <<s.fault = "empty", "empty">>,
    <<s.fault = "tooLong", "too_long">>,
    <<RunsComment(s), "mysql_executable_comment">>,
    <<s.fault = "second", "multi_statement">>,
    <<Pragma(s), IF s.verb = "pragmaRead" THEN "allowed" ELSE "pragma_denied">>,
    <<Show(s) /\ s.verb = "showCall", "show_expression">>,
    <<Show(s), IF s.verb = "showPlain" THEN "allowed" ELSE "show_denied">>,
    <<IsFetch(s.engine) /\ Own(s).kind \in {"countOffset", "param"}, "limit_unsupported">>,
    <<s.fault = "locking", "locking_clause">>,
    <<s.fault = "outfile", "into_outfile">>,
    <<s.fault = "backtick" /\ Quote(s.engine) # "backtick", "backtick_identifier">>,
    <<Wedges(s), "recursive_no_limit">>,
    <<s.fault = "unparseable" \/ s.verb \notin {"select", "explain"}
        \/ (s.verb = "explain" /\ Own(s).kind \in {"fetch", "percent"}), "parse_failed">>,
    <<s.fault = "write", "statement_not_allowed">>,
    <<CoreWalk(s, allowFiles) # "none", CoreWalk(s, allowFiles)>> >>
  <1>1. CoreRule(s, allowFiles) = FirstRule(rules) /\ Len(rules) = 15
    BY DEF CoreRule
  <1>2. /\ rules[1][1] <=> (s.fault = "empty")
        /\ rules[2][1] <=> (s.fault = "tooLong")
        /\ rules[3][1] <=> (RunsComment(s))
        /\ rules[4][1] <=> (s.fault = "second")
        /\ rules[5][1] <=> (Pragma(s))
        /\ rules[6][1] <=> (Show(s) /\ s.verb = "showCall")
        /\ rules[7][1] <=> (Show(s))
        /\ rules[8][1] <=> (IsFetch(s.engine) /\ Own(s).kind \in {"countOffset", "param"})
        /\ rules[9][1] <=> (s.fault = "locking")
        /\ rules[10][1] <=> (s.fault = "outfile")
        /\ rules[11][1] <=> (s.fault = "backtick" /\ Quote(s.engine) # "backtick")
        /\ rules[12][1] <=> (Wedges(s))
        /\ rules[13][1] <=> (s.fault = "unparseable" \/ s.verb \notin {"select", "explain"} \/ (s.verb = "explain" /\ Own(s).kind \in {"fetch", "percent"}))
        /\ rules[14][1] <=> (s.fault = "write")
        /\ rules[15][1] <=> (CoreWalk(s, allowFiles) # "none")
    BY Zenon
  <1>3. /\ rules[15][2] = CoreWalk(s, allowFiles)
        /\ \A k \in 1..14 : rules[k][2] # "none"
    OBVIOUS
  <1>8. /\ CoreWalk(s, allowFiles) \notin {"allowed", "pending"}
        /\ s.verb = "select" => ~Pragma(s) /\ ~Show(s)
    BY WalkNames DEF Pragma, Show
  <1>9. \A k \in 1..14 : rules[k][2] # "pending" /\ (rules[k][2] = "allowed" => k = 5 \/ k = 7)
    OBVIOUS
  <1> HIDE DEF rules
  <1>4. \A k \in 1..15 : k \in 1..14 \/ k = 15
    OBVIOUS
  <1>5. \A k \in 1..15 : rules[k][1] => rules[k][2] # "none"
    BY <1>2, <1>3, <1>4
  <1>6. (\A k \in 1..15 : ~rules[k][1]) <=>
          /\ ~rules[1][1] /\ ~rules[2][1] /\ ~rules[3][1] /\ ~rules[4][1] /\ ~rules[5][1]
          /\ ~rules[6][1] /\ ~rules[7][1] /\ ~rules[8][1] /\ ~rules[9][1] /\ ~rules[10][1]
          /\ ~rules[11][1] /\ ~rules[12][1] /\ ~rules[13][1] /\ ~rules[14][1] /\ ~rules[15][1]
    OBVIOUS
  <1>7. (\A k \in 1..15 : ~rules[k][1]) <=> CoreClear(s, allowFiles)
    BY <1>2, <1>6, Zenon DEF CoreClear
  <1>10. ASSUME s.verb = "select" PROVE \A k \in 1..15 : rules[k][1] => rules[k][2] # "allowed"
    BY <1>2, <1>3, <1>4, <1>8, <1>9, <1>10
  <1>11. \/ FirstRule(rules) = "none"
         \/ \E k \in 1..15 : rules[k][1] /\ FirstRule(rules) = rules[k][2]
    BY <1>1, RuleNamed
  <1>12. \A k \in 1..15 : rules[k][2] # "pending"
    BY <1>3, <1>4, <1>8, <1>9
  <1> QED BY <1>1, <1>5, <1>7, <1>10, <1>11, <1>12, NoRuleApplies

(* What the IDE's guard has found when no rule of its list applied.        *)
IdeClear(s, allowFiles) ==
  /\ ~(s.fault = "empty")
  /\ ~(s.fault = "tooLong")
  /\ ~RunsComment(s)
  /\ ~(s.fault = "second")
  /\ ~Pragma(s)
  /\ ~Show(s)
  /\ ~(s.fault = "locking")
  /\ ~(s.fault = "outfile")
  /\ ~(s.fault = "backtick" /\ Quote(s.engine) # "backtick")
  /\ ~(s.fault = "unparseable" \/ s.verb \notin {"select", "explain"})
  /\ ~(s.fault = "write")
  /\ ~(IdeWalk(s, allowFiles) # "none")

LEMMA IdeRules ==
  ASSUME NEW s, NEW allowFiles
  PROVE  /\ IdeRule(s, allowFiles) = "none" <=> IdeClear(s, allowFiles)
         /\ s.verb = "select" => IdeRule(s, allowFiles) # "allowed"
         /\ IdeRule(s, allowFiles) # "pending"
  <1> DEFINE rules == <<
    <<s.fault = "empty", "empty">>,
    <<s.fault = "tooLong", "too_long">>,
    <<RunsComment(s), "mysql_executable_comment">>,
    <<s.fault = "second", "multi_statement">>,
    <<Pragma(s), IF s.verb = "pragmaRead" THEN "allowed" ELSE "pragma_denied">>,
    <<Show(s), IF s.verb = "showCall" THEN "show_expression"
               ELSE IF s.verb = "showPlain" THEN "allowed" ELSE "show_denied">>,
    <<s.fault = "locking", "locking_clause">>,
    <<s.fault = "outfile", "into_outfile">>,
    <<s.fault = "backtick" /\ Quote(s.engine) # "backtick", "backtick_identifier">>,
    <<s.fault = "unparseable" \/ s.verb \notin {"select", "explain"}, "parse_failed">>,
    <<s.fault = "write", "statement_not_allowed">>,
    <<IdeWalk(s, allowFiles) # "none", IdeWalk(s, allowFiles)>> >>
  <1>1. IdeRule(s, allowFiles) = FirstRule(rules) /\ Len(rules) = 12
    BY DEF IdeRule
  <1>2. /\ rules[1][1] <=> (s.fault = "empty")
        /\ rules[2][1] <=> (s.fault = "tooLong")
        /\ rules[3][1] <=> (RunsComment(s))
        /\ rules[4][1] <=> (s.fault = "second")
        /\ rules[5][1] <=> (Pragma(s))
        /\ rules[6][1] <=> (Show(s))
        /\ rules[7][1] <=> (s.fault = "locking")
        /\ rules[8][1] <=> (s.fault = "outfile")
        /\ rules[9][1] <=> (s.fault = "backtick" /\ Quote(s.engine) # "backtick")
        /\ rules[10][1] <=> (s.fault = "unparseable" \/ s.verb \notin {"select", "explain"})
        /\ rules[11][1] <=> (s.fault = "write")
        /\ rules[12][1] <=> (IdeWalk(s, allowFiles) # "none")
    BY Zenon
  <1>3. /\ rules[12][2] = IdeWalk(s, allowFiles)
        /\ \A k \in 1..11 : rules[k][2] # "none"
    OBVIOUS
  <1>8. /\ IdeWalk(s, allowFiles) \notin {"allowed", "pending"}
        /\ s.verb = "select" => ~Pragma(s) /\ ~Show(s)
    BY WalkNames DEF Pragma, Show
  <1>9. \A k \in 1..11 : rules[k][2] # "pending" /\ (rules[k][2] = "allowed" => k = 5 \/ k = 6)
    OBVIOUS
  <1> HIDE DEF rules
  <1>4. \A k \in 1..12 : k \in 1..11 \/ k = 12
    OBVIOUS
  <1>5. \A k \in 1..12 : rules[k][1] => rules[k][2] # "none"
    BY <1>2, <1>3, <1>4
  <1>6. (\A k \in 1..12 : ~rules[k][1]) <=>
          /\ ~rules[1][1] /\ ~rules[2][1] /\ ~rules[3][1] /\ ~rules[4][1] /\ ~rules[5][1]
          /\ ~rules[6][1] /\ ~rules[7][1] /\ ~rules[8][1] /\ ~rules[9][1] /\ ~rules[10][1]
          /\ ~rules[11][1] /\ ~rules[12][1]
    OBVIOUS
  <1>7. (\A k \in 1..12 : ~rules[k][1]) <=> IdeClear(s, allowFiles)
    BY <1>2, <1>6, Zenon DEF IdeClear
  <1>10. ASSUME s.verb = "select" PROVE \A k \in 1..12 : rules[k][1] => rules[k][2] # "allowed"
    BY <1>2, <1>3, <1>4, <1>8, <1>9, <1>10
  <1>11. \/ FirstRule(rules) = "none"
         \/ \E k \in 1..12 : rules[k][1] /\ FirstRule(rules) = rules[k][2]
    BY <1>1, RuleNamed
  <1>12. \A k \in 1..12 : rules[k][2] # "pending"
    BY <1>3, <1>4, <1>8, <1>9
  <1> QED BY <1>1, <1>5, <1>7, <1>10, <1>11, <1>12, NoRuleApplies

(* Limits of any kind. *)
Kinds == {"none", "all", "param", "offset", "percent", "count", "countOffset", "pair", "fetch"}
Clauses == [kind : Kinds, rows : Nat]

(* The limits a statement may have, its own and inside it.                 *)
LEMMA ClauseShapes ==
  /\ OwnLimits \subseteq Clauses /\ InnerLimits \subseteq Clauses
  /\ \A c \in OwnLimits : c.kind \in {"none", "all", "param", "offset", "percent"} => c.rows = 0
  /\ \A c \in InnerLimits : c.kind \in {"all", "count"}
  /\ \A k \in Kinds : Clause(k, MaxRows) \in Clauses
  <1>1. \A k \in Kinds, n \in Nat : Clause(k, n) \in Clauses /\ Clause(k, n).kind = k /\ Clause(k, n).rows = n
    BY DEF Clause, Clauses
  <1>2. ASSUME NEW c \in OwnLimits
        PROVE  /\ c \in Clauses
               /\ c.kind \in {"none", "all", "param", "offset", "percent"} => c.rows = 0
    <2>1. \/ \E k \in {"none", "all", "param", "offset", "percent"} : c = Clause(k, 0)
          \/ \E k \in {"count", "countOffset", "pair", "fetch"}, n \in Counts : c = Clause(k, n)
      BY <1>2 DEF OwnLimits, NoLimit
    <2>2. CASE \E k \in {"none", "all", "param", "offset", "percent"} : c = Clause(k, 0)
      BY <2>2 DEF Clause, Clauses, Kinds
    <2>3. CASE \E k \in {"count", "countOffset", "pair", "fetch"}, n \in Counts : c = Clause(k, n)
      BY <2>3, SqlGuardAssumption DEF SqlGuardAssumption, Clause, Clauses, Kinds
    <2> QED BY <2>1, <2>2, <2>3
  <1>3. ASSUME NEW c \in InnerLimits
        PROVE  c \in Clauses /\ c.kind \in {"all", "count"}
    <2>1. c = Clause("all", 0) \/ \E n \in Counts : c = Clause("count", n)
      BY <1>3 DEF InnerLimits
    <2> QED BY <2>1, SqlGuardAssumption DEF SqlGuardAssumption, Clause, Clauses, Kinds
  <1> QED BY <1>1, <1>2, <1>3, SqlGuardAssumption DEF SqlGuardAssumption

(* A statement has one limit or two, and its dialect can write its own.    *)
LEMMA StatementShape ==
  ASSUME NEW s \in Statements
  PROVE  /\ s = [engine |-> s.engine, verb |-> s.verb, fault |-> s.fault, fn |-> s.fn, paren |-> s.paren,
                 limits |-> s.limits]
         /\ s.limits \in Seq(Clauses) /\ Len(s.limits) \in {1, 2}
         /\ Own(s) \in OwnLimits /\ Own(s) \in Writable(s.engine)
         /\ Len(s.limits) = 2 => s.limits[1] \in InnerLimits
         /\ s.paren \in BOOLEAN /\ (s.paren => Len(s.limits) = 2)
         /\ s.engine \in {"mysql", "oracle"} => s.limits[1].kind # "all" \/ Len(s.limits) = 1
  <1>1. /\ Own(s) \in Writable(s.engine)
        /\ s.engine \in {"mysql", "oracle"} => s.limits[1].kind # "all" \/ Len(s.limits) = 1
        /\ \/ s \in Shapes(Queries, Faults, {"upper"}, {FALSE}, Alone \union Nested)
           \/ s \in Shapes(Queries, {"none"}, Functions, {FALSE}, Alone)
           \/ s \in Shapes(Queries, {"none"}, {"upper"}, {TRUE}, Nested)
           \/ s \in Shapes(Verbs \ Queries, {"none"}, {"upper"}, {FALSE}, {<<NoLimit>>})
    BY DEF Statements
  <1>2. <<NoLimit>> \in Alone
    BY DEF Alone, OwnLimits
  <1>3. /\ s = [engine |-> s.engine, verb |-> s.verb, fault |-> s.fault, fn |-> s.fn, paren |-> s.paren,
                limits |-> s.limits]
        /\ s.limits \in Alone \union Nested /\ s.paren \in BOOLEAN
        /\ s.paren => s.limits \in Nested
    BY <1>1, <1>2 DEF Shapes
  <1>4. ASSUME NEW l \in Alone
        PROVE  l \in Seq(Clauses) /\ Len(l) = 1 /\ l[1] \in OwnLimits
    <2>1. PICK c \in OwnLimits : l = <<c>>
      BY <1>4 DEF Alone
    <2>2. c \in Clauses
      BY ClauseShapes
    <2> QED BY <2>1, <2>2
  <1>5. ASSUME NEW l \in Nested
        PROVE  l \in Seq(Clauses) /\ Len(l) = 2 /\ l[2] \in OwnLimits /\ l[1] \in InnerLimits
    <2>1. PICK i \in InnerLimits, c \in OwnLimits : l = <<i, c>>
      BY <1>5 DEF Nested
    <2>2. c \in Clauses /\ i \in Clauses
      BY ClauseShapes
    <2> QED BY <2>1, <2>2
  <1> QED BY <1>1, <1>3, <1>4, <1>5 DEF Own

(* The limits a pass leaves, and those for which the driver caps instead.  *)
CappedKinds(e, whose) == IF ~IsFetch(e) THEN Numeric ELSE IF whose = "core" THEN {"count", "fetch"} ELSE {"fetch"}
DriverKinds(e, whose) == IF ~IsFetch(e) THEN {} ELSE IF whose = "core" THEN {"none", "percent"} ELSE {"percent"}
Asked(s) == Min({Bound(Own(s)), MaxRows})

(* The limits L are those of s with the cap on its own.                    *)
CapsTo(s, L, whose) ==
  /\ L \in Seq(Clauses) /\ Len(L) = Len(s.limits)
  /\ \A k \in 1..(Len(L) - 1) : L[k] = s.limits[k]
  /\ \/ L[Len(L)].kind \in CappedKinds(s.engine, whose) /\ L[Len(L)].rows = Asked(s)
     \/ L[Len(L)].kind \in DriverKinds(s.engine, whose) /\ L[Len(L)] = Own(s)

(* What a statement asked for, up to the cap.                              *)
LEMMA AskedRows ==
  ASSUME NEW s \in Statements
  PROVE  /\ Asked(s) \in Nat /\ Asked(s) <= MaxRows
         /\ Asked(s) = IF Own(s).kind \in Numeric \union {"fetch"} /\ Own(s).rows <= MaxRows
                        THEN Own(s).rows ELSE MaxRows
  <1>1. Own(s) \in Clauses /\ MaxRows \in Nat
    BY StatementShape, ClauseShapes, SqlGuardAssumption DEF SqlGuardAssumption
  <1>2. Bound(Own(s)) \in Nat /\ Bound(Own(s)) = IF Own(s).kind \in Numeric \union {"fetch"} THEN Own(s).rows ELSE MaxRows + 1
    BY <1>1 DEF Bound, Unlimited, Clauses
  <1>3. Asked(s) = IF Bound(Own(s)) <= MaxRows THEN Bound(Own(s)) ELSE MaxRows
    BY <1>1, <1>2, LesserOfTwo DEF Asked
  <1> QED BY <1>1, <1>2, <1>3

(* A limit put in the place of the statement's own, the others as written. *)
LEMMA LastReplaced ==
  ASSUME NEW s \in Statements, NEW whose, NEW kind \in CappedKinds(s.engine, whose), NEW old \in Seq(Clauses),
         Len(old) = Len(s.limits), \A k \in 1..(Len(old) - 1) : old[k] = s.limits[k]
  PROVE  CapsTo(s, [old EXCEPT ![Len(old)] = Clause(kind, Asked(s))], whose)
  <1> DEFINE n == Len(old)
             new == Clause(kind, Asked(s))
  <1>1. n \in 1..n /\ new \in Clauses /\ new.kind = kind /\ new.rows = Asked(s)
    <2>1. n \in {1, 2} /\ Asked(s) \in Nat
      BY StatementShape, AskedRows
    <2>2. kind \in Kinds
      BY DEF CappedKinds, Kinds, Numeric
    <2>3. new = [kind |-> kind, rows |-> Asked(s)]
      BY DEF Clause
    <2>4. new \in Clauses /\ new.kind = kind /\ new.rows = Asked(s)
      BY <2>1, <2>2, <2>3 DEF Clauses
    <2>5. \A m \in {1, 2} : m \in 1..m
      OBVIOUS
    <2> HIDE DEF new
    <2> QED BY <2>1, <2>4, <2>5
  <1>2. /\ [old EXCEPT ![n] = new] \in Seq(Clauses)
        /\ Len([old EXCEPT ![n] = new]) = n
        /\ \A j \in 1..n : [old EXCEPT ![n] = new][j] = IF j = n THEN new ELSE old[j]
    BY <1>1, ExceptSeq
  <1> DEFINE L == [old EXCEPT ![n] = new]
  <1>3. /\ Len(L) = n /\ L[Len(L)] = new
        /\ \A k \in 1..(Len(L) - 1) : L[k] = s.limits[k]
    BY <1>1, <1>2
  <1>4. L \in Seq(Clauses)
    BY <1>2
  <1> HIDE DEF L
  <1>5. CapsTo(s, L, whose)
    BY <1>1, <1>3, <1>4 DEF CapsTo
  <1> QED BY <1>5 DEF L

(* The same of the limits as they were written.                            *)
LEMMA OwnReplaced ==
  ASSUME NEW s \in Statements, NEW whose, NEW kind \in CappedKinds(s.engine, whose)
  PROVE  CapsTo(s, [s.limits EXCEPT ![Len(s.limits)] = Clause(kind, Asked(s))], whose)
  <1>1. s.limits \in Seq(Clauses)
    BY StatementShape
  <1> QED BY <1>1, LastReplaced

(* Limits that are left alone.                                             *)
LEMMA OwnKept ==
  ASSUME NEW s \in Statements, NEW whose,
         \/ Own(s).kind \in CappedKinds(s.engine, whose) /\ Own(s).rows = Asked(s)
         \/ Own(s).kind \in DriverKinds(s.engine, whose)
  PROVE  CapsTo(s, s.limits, whose)
  BY StatementShape DEF CapsTo, Own

(* The last number of the text is that of the statement's own limit.       *)
LEMMA LowerAtOwn ==
  ASSUME NEW s \in Statements, Own(s).kind \in Numeric
  PROVE  LowerAt(s.limits) = Len(s.limits)
  <1> DEFINE n == Len(s.limits)
             S == {0} \union {k \in 1..n : s.limits[k].kind \in Numeric}
  <1>1. n \in {1, 2} /\ n \in S /\ \A y \in S : y \in Nat /\ n >= y
    BY StatementShape DEF Own
  <1>2. \A x \in S : (\A y \in S : x >= y) => x = n
    BY <1>1
  <1>3. Max(S) = n
    <2>1. Max(S) \in S /\ \A y \in S : Max(S) >= y
      BY <1>1 DEF Max
    <2> QED BY <2>1, <1>2
  <1> QED BY <1>3 DEF LowerAt, LastNumeric

(* The first LIMIT ALL of the text is the statement's own, if only one.    *)
LEMMA AllAtOwn ==
  ASSUME NEW s \in Statements, Own(s).kind = "all", ~NestedAll(s)
  PROVE  AllAt(s) = Len(s.limits)
  <1> DEFINE n == Len(s.limits)
             S == {k \in 1..n : s.limits[k].kind = "all"}
  <1>1. n \in {1, 2} /\ s.paren \in BOOLEAN
    BY StatementShape
  <1>2. CASE s.paren
    BY <1>2 DEF AllAt
  <1>3. CASE ~s.paren
    <2>1. n \in S /\ \A y \in S : y = n
      <3>1. CASE n = 1
        BY <3>1 DEF Own
      <3>2. CASE n = 2
        <4>1. s.limits[2].kind = "all" /\ s.limits[1].kind # "all"
          BY <3>2, <1>3 DEF Own, NestedAll
        <4> QED BY <3>2, <4>1
      <3> QED BY <1>1, <3>1, <3>2
    <2>2. Min(S) = n
      <3>1. S \subseteq Nat /\ S # {}
        BY <2>1
      <3> QED BY <3>1, <2>1, LeastOfNaturals
    <2> QED BY <1>3, <2>2 DEF AllAt
  <1> QED BY <1>1, <1>2, <1>3

(* What inspectLimit says of each kind of limit.                           *)
LEMMA Statuses ==
  ASSUME NEW s \in Statements
  PROVE  /\ Own(s).kind \in {"none", "offset"} => Status(Own(s)) = "none"
         /\ Own(s).kind = "all" => Status(Own(s)) = "unbounded"
         /\ Own(s).kind = "param" => Status(Own(s)) = "nonliteral"
         /\ Own(s).kind \in {"count", "countOffset", "pair", "percent", "fetch"} =>
              Status(Own(s)) = IF Own(s).rows > MaxRows THEN "high" ELSE "ok"
         /\ Own(s).kind \in Kinds
         /\ ~IsFetch(s.engine) => Own(s).kind \notin {"fetch", "percent"}
         /\ IsFetch(s.engine) => Own(s).kind \notin {"pair", "offset"}
  <1>1. Own(s).kind \in Kinds
    BY StatementShape, ClauseShapes DEF Clauses
  <1>2. Own(s) \in Writable(s.engine)
    BY StatementShape
  <1>3. /\ ~IsFetch(s.engine) => Own(s).kind \notin {"fetch", "percent"}
        /\ IsFetch(s.engine) => Own(s).kind \notin {"pair", "offset"}
    BY <1>2 DEF Writable, IsFetch
  <1>4. /\ Own(s).kind \in {"none", "offset"} => Status(Own(s)) = "none"
        /\ Own(s).kind = "all" => Status(Own(s)) = "unbounded"
        /\ Own(s).kind = "param" => Status(Own(s)) = "nonliteral"
        /\ Own(s).kind \in {"count", "countOffset", "pair", "percent", "fetch"} =>
             Status(Own(s)) = IF Own(s).rows > MaxRows THEN "high" ELSE "ok"
    <2>1. /\ Own(s).kind \in {"none", "all", "param", "offset", "percent"} => Own(s).rows = 0
          /\ MaxRows \in Nat \ {0}
      BY StatementShape, ClauseShapes, SqlGuardAssumption DEF SqlGuardAssumption
    <2> QED BY <2>1 DEF Status
  <1> QED BY <1>1, <1>3, <1>4

(* Core's edit of a LIMIT caps the statement's own and nothing else.       *)
LEMMA CoreCapCaps ==
  ASSUME NEW s \in Statements, ~IsFetch(s.engine), CoreCap(s).rule = "allowed", ~NestedAll(s)
  PROVE  CapsTo(s, CoreCap(s).limits, "core")
  <1> DEFINE own == Own(s)
             n == Len(s.limits)
  <1>0. /\ own.kind \in {"none", "offset", "all", "param", "count", "countOffset", "pair"} /\ MaxRows \in Nat
        /\ own.rows \in Nat /\ own = s.limits[n]
    BY Statuses, StatementShape, ClauseShapes, SqlGuardAssumption DEF Kinds, SqlGuardAssumption, Clauses, Own
  <1>1. CappedKinds(s.engine, "core") = {"count", "countOffset", "pair"}
    BY DEF CappedKinds, Numeric
  <1>2. CASE own.kind \in {"none", "offset"}
    <2>1. Status(own) = "none" /\ Asked(s) = MaxRows
      BY <1>2, Statuses, AskedRows DEF Numeric
    <2>2. CoreCap(s).limits = [s.limits EXCEPT ![n] = Clause(AppendKind(own), Asked(s))]
      BY <2>1 DEF CoreCap, Pass, SetOwn, SetRows
    <2>3. AppendKind(own) \in CappedKinds(s.engine, "core")
      BY <1>1 DEF AppendKind
    <2> QED BY <2>2, <2>3, OwnReplaced
  <1>3. CASE own.kind = "all"
    <2>1. Status(own) = "unbounded" /\ Asked(s) = MaxRows /\ AllAt(s) = n
      BY <1>3, Statuses, AskedRows, AllAtOwn DEF Numeric
    <2>2. CoreCap(s).limits = [s.limits EXCEPT ![n] = Clause("count", Asked(s))]
      BY <2>1 DEF CoreCap, Pass, SetRows
    <2> QED BY <2>2, <1>1, OwnReplaced
  <1>4. CASE own.kind = "param"
    <2>1. Status(own) = "nonliteral"
      BY <1>4, Statuses
    <2> QED BY <2>1 DEF CoreCap, Pass
  <1>5. CASE own.kind \in Numeric /\ own.rows > MaxRows
    <2>1. Status(own) = "high" /\ Asked(s) = MaxRows /\ LowerAt(s.limits) = n
      BY <1>0, <1>5, Statuses, AskedRows, LowerAtOwn DEF Numeric
    <2>2. CoreCap(s).limits = [s.limits EXCEPT ![n] = Clause(own.kind, Asked(s))]
      BY <2>1, <1>0 DEF CoreCap, Pass, SetRows
    <2> QED BY <2>2, <1>1, <1>5, OwnReplaced DEF Numeric
  <1>6. CASE own.kind \in Numeric /\ own.rows <= MaxRows
    <2>1. Status(own) = "ok" /\ Asked(s) = own.rows
      BY <1>0, <1>6, Statuses, AskedRows DEF Numeric
    <2>2. CoreCap(s).limits = s.limits
      BY <2>1 DEF CoreCap, Pass
    <2> QED BY <2>1, <2>2, <1>1, <1>6, OwnKept DEF Numeric
  <1> QED BY <1>0, <1>2, <1>3, <1>4, <1>5, <1>6 DEF Numeric

(* So does its edit for Oracle, or the driver caps.                        *)
LEMMA OracleCapCaps ==
  ASSUME NEW s \in Statements, IsFetch(s.engine), Own(s).kind \notin {"countOffset", "param"}
  PROVE  OracleCap(s).rule = "allowed" /\ CapsTo(s, OracleCap(s).limits, "core")
  <1> DEFINE own == Own(s)
             n == Len(s.limits)
  <1>0. /\ own.kind \in {"none", "percent", "all", "count", "fetch"} /\ MaxRows \in Nat
        /\ own.rows \in Nat
    BY Statuses, StatementShape, ClauseShapes, SqlGuardAssumption DEF Kinds, SqlGuardAssumption, Clauses
  <1>1. CappedKinds(s.engine, "core") = {"count", "fetch"} /\ DriverKinds(s.engine, "core") = {"none", "percent"}
    BY DEF CappedKinds, DriverKinds
  <1>2. CASE own.kind \in {"count", "fetch"}
    <2>1. Min({own.rows, MaxRows}) = Asked(s)
      BY <1>0, <1>2, AskedRows, LesserOfTwo DEF Numeric
    <2>2. OracleCap(s) = Pass("allowed", [s.limits EXCEPT ![n] = Clause("fetch", Asked(s))])
      BY <1>2, <2>1 DEF OracleCap
    <2>3. CapsTo(s, [s.limits EXCEPT ![n] = Clause("fetch", Asked(s))], "core")
      BY <1>1, OwnReplaced
    <2> QED BY <2>2, <2>3 DEF Pass
  <1>3. CASE own.kind = "all"
    <2>1. ~NestedAll(s)
      BY StatementShape DEF NestedAll, IsFetch
    <2>2. Asked(s) = MaxRows /\ AllAt(s) = n
      BY <1>3, <2>1, AskedRows, AllAtOwn DEF Numeric
    <2>3. OracleCap(s) = Pass("allowed", [s.limits EXCEPT ![n] = Clause("count", Asked(s))])
      BY <1>3, <2>2 DEF OracleCap, SetRows
    <2> QED BY <2>3, <1>1, OwnReplaced DEF Pass
  <1>4. CASE own.kind \in {"none", "percent"}
    <2>1. OracleCap(s) = Pass("allowed", s.limits)
      BY <1>4 DEF OracleCap
    <2> QED BY <2>1, <1>1, <1>4, OwnKept DEF Pass
  <1> QED BY <1>0, <1>2, <1>3, <1>4

(* The same of the IDE's edits.                                            *)
LEMMA IdeCapCaps ==
  ASSUME NEW s \in Statements, ~IsFetch(s.engine), IdeCap(s).rule = "allowed"
  PROVE  CapsTo(s, IdeCap(s).limits, "ide")
  <1> DEFINE own == Own(s)
             n == Len(s.limits)
  <1>0. /\ own.kind \in {"none", "offset", "all", "param", "count", "countOffset", "pair"} /\ MaxRows \in Nat
        /\ own.rows \in Nat
    BY Statuses, StatementShape, ClauseShapes, SqlGuardAssumption DEF Kinds, SqlGuardAssumption, Clauses
  <1>1. CappedKinds(s.engine, "ide") = {"count", "countOffset", "pair"}
    BY DEF CappedKinds, Numeric
  <1>2. CASE own.kind \in {"none", "offset"}
    <2>1. Status(own) = "none" /\ Asked(s) = MaxRows
      BY <1>2, Statuses, AskedRows DEF Numeric
    <2>2. IdeCap(s).limits = [s.limits EXCEPT ![n] = Clause(AppendKind(own), Asked(s))]
      BY <2>1 DEF IdeCap, Pass, SetOwn, SetRows
    <2>3. AppendKind(own) \in CappedKinds(s.engine, "ide")
      BY <1>1 DEF AppendKind
    <2> QED BY <2>2, <2>3, OwnReplaced
  <1>3. CASE own.kind = "all"
    <2>1. Status(own) = "unbounded" /\ Asked(s) = MaxRows
      BY <1>3, Statuses, AskedRows DEF Numeric
    <2>2. IdeCap(s).limits = [s.limits EXCEPT ![n] = Clause("count", Asked(s))]
      BY <2>1 DEF IdeCap, Pass, SetOwn, SetRows
    <2> QED BY <2>2, <1>1, OwnReplaced
  <1>4. CASE own.kind = "param"
    <2>1. Status(own) = "nonliteral"
      BY <1>4, Statuses
    <2> QED BY <2>1 DEF IdeCap, Pass
  <1>5. CASE own.kind \in Numeric /\ own.rows > MaxRows
    <2>1. Status(own) = "high" /\ Asked(s) = MaxRows
      BY <1>0, <1>5, Statuses, AskedRows DEF Numeric
    <2>2. IdeCap(s).limits = [s.limits EXCEPT ![n] = Clause(own.kind, Asked(s))]
      BY <2>1 DEF IdeCap, Pass, SetOwn, SetRows
    <2>3. own.kind \in CappedKinds(s.engine, "ide")
      BY <1>1, <1>5 DEF Numeric
    <2> QED BY <2>2, <2>3, OwnReplaced
  <1>6. CASE own.kind \in Numeric /\ own.rows <= MaxRows
    <2>1. Status(own) = "ok" /\ Asked(s) = own.rows
      BY <1>0, <1>6, Statuses, AskedRows DEF Numeric
    <2>2. IdeCap(s).limits = s.limits
      BY <2>1 DEF IdeCap, Pass
    <2> QED BY <2>1, <2>2, <1>1, <1>6, OwnKept DEF Numeric
  <1> QED BY <1>0, <1>2, <1>3, <1>4, <1>5, <1>6 DEF Numeric

LEMMA IdeOracleCapCaps ==
  ASSUME NEW s \in Statements, IsFetch(s.engine), IdeOracleCap(s).rule = "allowed"
  PROVE  CapsTo(s, IdeOracleCap(s).limits, "ide")
  <1> DEFINE own == Own(s)
             n == Len(s.limits)
  <1>0. /\ own.kind \in {"none", "percent", "all", "count", "fetch", "countOffset", "param"} /\ MaxRows \in Nat
        /\ own.rows \in Nat
    BY Statuses, StatementShape, ClauseShapes, SqlGuardAssumption DEF Kinds, SqlGuardAssumption, Clauses
  <1>1. CappedKinds(s.engine, "ide") = {"fetch"} /\ DriverKinds(s.engine, "ide") = {"percent"}
    BY DEF CappedKinds, DriverKinds
  <1>2. CASE own.kind \in {"countOffset", "param", "all"} \/ (own.kind = "count" /\ own.rows = 0)
    BY <1>2 DEF IdeOracleCap, Pass
  <1>3. CASE own.kind = "fetch" \/ (own.kind = "count" /\ own.rows > 0)
    <2>1. Min({own.rows, MaxRows}) = Asked(s)
      BY <1>0, <1>3, AskedRows, LesserOfTwo DEF Numeric
    <2>2. IdeOracleCap(s).limits = [s.limits EXCEPT ![n] = Clause("fetch", Asked(s))]
      BY <1>3, <2>1 DEF IdeOracleCap, Pass
    <2> QED BY <2>2, <1>1, OwnReplaced
  <1>4. CASE own.kind = "percent"
    <2>1. IdeOracleCap(s).limits = s.limits
      BY <1>4 DEF IdeOracleCap, Pass
    <2> QED BY <2>1, <1>1, <1>4, OwnKept
  <1>5. CASE own.kind = "none"
    <2>1. Asked(s) = MaxRows
      BY <1>5, AskedRows DEF Numeric
    <2>2. IdeOracleCap(s).limits = [s.limits EXCEPT ![n] = Clause("fetch", Asked(s))]
      BY <1>5, <2>1 DEF IdeOracleCap, Pass, SetOwn, SetRows
    <2> QED BY <2>2, <1>1, OwnReplaced
  <1> QED BY <1>0, <1>2, <1>3, <1>4, <1>5

(* t is s with other limits, of which the last is its own.                 *)
Relimited(s, t) ==
  /\ t = [s EXCEPT !.limits = t.limits]
  /\ t.limits \in Seq(Clauses) /\ Len(t.limits) = Len(s.limits)

(* Other limits change nothing else of a statement.                        *)
LEMMA SameStatement ==
  ASSUME NEW s \in Statements, NEW t, Relimited(s, t)
  PROVE  /\ t.engine = s.engine /\ t.verb = s.verb /\ t.fault = s.fault /\ t.fn = s.fn /\ t.paren = s.paren
         /\ Len(t.limits) \in {1, 2} /\ Len(t.limits) \in 1..Len(t.limits)
         /\ Own(t) = t.limits[Len(s.limits)] /\ Own(t) \in Clauses
  <1>1. Len(t.limits) \in {1, 2}
    BY StatementShape DEF Relimited
  <1>2. t.engine = s.engine /\ t.verb = s.verb /\ t.fault = s.fault /\ t.fn = s.fn /\ t.paren = s.paren
    BY StatementShape DEF Relimited
  <1>3. \A m \in {1, 2} : m \in 1..m
    OBVIOUS
  <1>4. Len(t.limits) \in 1..Len(t.limits)
    BY <1>1, <1>3
  <1>5. t.limits[Len(t.limits)] \in Clauses
    BY <1>4, ElementOfSeq DEF Relimited
  <1>6. Own(t) = t.limits[Len(s.limits)] /\ Own(t) \in Clauses
    BY <1>5 DEF Relimited, Own
  <1> QED BY <1>1, <1>2, <1>4, <1>6

(* The rules that passed a statement pass it with its capped limits.       *)
LEMMA ClearAgain ==
  ASSUME NEW s \in Statements, NEW t, NEW allowFiles, Relimited(s, t), s.verb = "select"
  PROVE  /\ IdeClear(s, allowFiles) => IdeClear(t, allowFiles)
         /\ CoreClear(s, allowFiles) /\ Own(t).kind # "none" => IsFetch(t.engine) \/ CoreClear(t, allowFiles)
         /\ CoreClear(s, allowFiles) /\ IsFetch(t.engine) /\ Own(t).kind \notin {"countOffset", "param"} =>
              CoreClear(t, allowFiles)
  <1>1. /\ t.engine = s.engine /\ t.verb = s.verb /\ t.fault = s.fault /\ t.fn = s.fn
        /\ Len(t.limits) \in 1..Len(t.limits)
    BY SameStatement
  <1>2. CoreWalk(t, allowFiles) = CoreWalk(s, allowFiles) /\ IdeWalk(t, allowFiles) = IdeWalk(s, allowFiles)
    BY <1>1 DEF CoreWalk, IdeWalk, WritesInside, CoreFileRelation, IdeFileRelation, AdvancesSequence
  <1>3. RunsComment(t) = RunsComment(s) /\ Pragma(t) = Pragma(s) /\ Show(t) = Show(s)
    BY <1>1 DEF RunsComment, Pragma, Show
  <1>4. Own(t).kind # "none" \/ IsFetch(t.engine) => ~Wedges(t)
    BY <1>1 DEF Wedges, Own, IsFetch
  <1> QED BY <1>1, <1>2, <1>3, <1>4 DEF CoreClear, IdeClear

(* A pass over a SELECT is its rules and then its cap; over anything else  *)
(* the limits stay.                                                        *)
LEMMA CorePasses ==
  ASSUME NEW t, NEW allowFiles
  PROVE  LET p == CorePass(t, allowFiles) IN
         /\ p.rule # "pending"
         /\ t.verb = "select" /\ p.rule = "allowed" => CoreClear(t, allowFiles)
         /\ t.verb = "select" /\ CoreClear(t, allowFiles) =>
              p = IF IsFetch(t.engine) THEN OracleCap(t) ELSE CoreCap(t)
         /\ t.verb # "select" => p.limits = t.limits
  <1> DEFINE rule == CoreRule(t, allowFiles)
  <1>1. /\ rule = "none" <=> CoreClear(t, allowFiles)
        /\ t.verb = "select" => rule # "allowed"
        /\ rule # "pending"
    BY CoreRules
  <1>2. OracleCap(t).rule = "allowed" /\ CoreCap(t).rule \in {"allowed", "limit_nonliteral"}
    BY DEF OracleCap, CoreCap, Pass
  <1>3. CoreClear(t, allowFiles) => t.verb \in {"select", "explain"}
    BY DEF CoreClear
  <1> HIDE DEF rule
  <1>4. CorePass(t, allowFiles) =
          IF rule # "none" \/ t.verb = "explain" THEN Pass(IF rule = "none" THEN "allowed" ELSE rule, t.limits)
          ELSE IF IsFetch(t.engine) THEN OracleCap(t) ELSE CoreCap(t)
    BY DEF CorePass, rule
  <1> QED BY <1>1, <1>2, <1>3, <1>4 DEF Pass

(* The same of the IDE's pass.                                             *)
LEMMA IdePasses ==
  ASSUME NEW t, NEW allowFiles
  PROVE  LET p == IdePass(t, allowFiles) IN
         /\ p.rule # "pending"
         /\ t.verb = "select" /\ p.rule = "allowed" => IdeClear(t, allowFiles)
         /\ t.verb = "select" /\ IdeClear(t, allowFiles) =>
              p = IF IsFetch(t.engine) THEN IdeOracleCap(t) ELSE IdeCap(t)
         /\ t.verb # "select" => p.limits = t.limits
  <1> DEFINE rule == IdeRule(t, allowFiles)
  <1>1. /\ rule = "none" <=> IdeClear(t, allowFiles)
        /\ t.verb = "select" => rule # "allowed"
        /\ rule # "pending"
    BY IdeRules
  <1>2. IdeOracleCap(t).rule \in {"allowed", "limit_unsupported"} /\ IdeCap(t).rule \in {"allowed", "limit_nonliteral"}
    BY DEF IdeOracleCap, IdeCap, Pass
  <1>3. IdeClear(t, allowFiles) => t.verb \in {"select", "explain"}
    BY DEF IdeClear
  <1> HIDE DEF rule
  <1>4. IdePass(t, allowFiles) =
          IF rule # "none" \/ t.verb = "explain" THEN Pass(IF rule = "none" THEN "allowed" ELSE rule, t.limits)
          ELSE IF IsFetch(t.engine) THEN IdeOracleCap(t) ELSE IdeCap(t)
    BY DEF IdePass, rule
  <1> QED BY <1>1, <1>2, <1>3, <1>4 DEF Pass

(* What core's guard makes of two nested LIMIT ALL: one is replaced.       *)
OneReplaced(s, L) ==
  /\ NestedAll(s) /\ ~IsFetch(s.engine)
  /\ L \in Seq(Clauses) /\ Len(L) = Len(s.limits)
  /\ L[Len(L)] \in {Clause("all", 0), Clause("count", MaxRows)}

(* Of two nested LIMIT ALL the first pass replaces one.                    *)
LEMMA NestedPass ==
  ASSUME NEW s \in Statements, NestedAll(s)
  PROVE  OneReplaced(s, CoreCap(s).limits)
  <1>1. /\ Len(s.limits) = 2 /\ s.limits \in Seq(Clauses) /\ ~IsFetch(s.engine) /\ ~s.paren
        /\ Own(s) = s.limits[2] /\ Own(s).kind = "all" /\ s.limits[1].kind = "all" /\ Own(s) \in OwnLimits
    BY StatementShape DEF NestedAll, Own, IsFetch
  <1>2. Own(s) = Clause("all", 0)
    BY <1>1, ClauseShapes DEF Clauses, Clause
  <1>3. AllAt(s) \in {1, 2}
    <2> DEFINE S == {k \in 1..Len(s.limits) : s.limits[k].kind = "all"}
    <2>1. S \subseteq {1, 2} /\ S # {} /\ S \subseteq Nat
      BY <1>1
    <2>2. AllAt(s) = Min(S)
      BY <1>1 DEF AllAt
    <2> HIDE DEF S
    <2> QED BY <2>1, <2>2, LeastOfNaturals
  <1>4. CoreCap(s).limits = [s.limits EXCEPT ![AllAt(s)] = Clause("count", MaxRows)]
    <2>1. Status(Own(s)) = "unbounded"
      BY <1>1, Statuses
    <2> QED BY <2>1 DEF CoreCap, Pass, SetRows
  <1>5. Clause("count", MaxRows) \in Clauses /\ AllAt(s) \in 1..Len(s.limits) /\ 2 \in 1..Len(s.limits)
    BY <1>1, <1>3, ClauseShapes DEF Kinds
  <1> DEFINE L == [s.limits EXCEPT ![AllAt(s)] = Clause("count", MaxRows)]
  <1>6. /\ L \in Seq(Clauses) /\ Len(L) = Len(s.limits)
        /\ L[2] = IF 2 = AllAt(s) THEN Clause("count", MaxRows) ELSE s.limits[2]
    BY <1>1, <1>5, ExceptSeq
  <1> HIDE DEF L
  <1>7. OneReplaced(s, L)
    BY <1>1, <1>2, <1>6 DEF OneReplaced
  <1> QED BY <1>4, <1>7 DEF L

(* The first pass caps.                                                    *)
LEMMA FirstPassCaps ==
  ASSUME NEW s \in Statements, NEW allowFiles, s.verb = "select"
  PROVE  /\ CorePass(s, allowFiles).rule = "allowed" =>
              \/ CapsTo(s, CorePass(s, allowFiles).limits, "core")
              \/ OneReplaced(s, CorePass(s, allowFiles).limits)
         /\ IdePass(s, allowFiles).rule = "allowed" => CapsTo(s, IdePass(s, allowFiles).limits, "ide")
  <1>1. ASSUME CorePass(s, allowFiles).rule = "allowed"
        PROVE  \/ CapsTo(s, CorePass(s, allowFiles).limits, "core")
               \/ OneReplaced(s, CorePass(s, allowFiles).limits)
    <2>1. /\ CoreClear(s, allowFiles)
          /\ CorePass(s, allowFiles) = IF IsFetch(s.engine) THEN OracleCap(s) ELSE CoreCap(s)
      BY <1>1, CorePasses
    <2>2. CASE IsFetch(s.engine)
      <3>1. Own(s).kind \notin {"countOffset", "param"}
        BY <2>1, <2>2 DEF CoreClear
      <3> QED BY <2>1, <2>2, <3>1, OracleCapCaps
    <2>3. CASE ~IsFetch(s.engine)
      BY <1>1, <2>1, <2>3, CoreCapCaps, NestedPass
    <2> QED BY <2>2, <2>3
  <1>2. ASSUME IdePass(s, allowFiles).rule = "allowed"
        PROVE  CapsTo(s, IdePass(s, allowFiles).limits, "ide")
    <2>1. IdePass(s, allowFiles) = IF IsFetch(s.engine) THEN IdeOracleCap(s) ELSE IdeCap(s)
      BY <1>2, IdePasses
    <2> QED BY <1>2, <2>1, IdeCapCaps, IdeOracleCapCaps
  <1> QED BY <1>1, <1>2

(* The second pass allows what the first one capped and keeps the cap.     *)
LEMMA CoreCapsAgain ==
  ASSUME NEW s \in Statements, NEW t, NEW allowFiles, Relimited(s, t), s.verb = "select",
         CoreClear(s, allowFiles), CapsTo(s, t.limits, "core")
  PROVE  CorePass(t, allowFiles).rule = "allowed" /\ CapsTo(s, CorePass(t, allowFiles).limits, "core")
  <1> DEFINE own == Own(t)
  <1>1. /\ t.engine = s.engine /\ t.verb = s.verb /\ own = t.limits[Len(t.limits)]
        /\ t.limits \in Seq(Clauses) /\ Len(t.limits) = Len(s.limits)
        /\ Asked(s) \in Nat /\ Asked(s) <= MaxRows /\ MaxRows \in Nat
    BY SameStatement, AskedRows, SqlGuardAssumption DEF Relimited, Own, SqlGuardAssumption
  <1>2. \/ own.kind \in CappedKinds(s.engine, "core") /\ own.rows = Asked(s)
        \/ own.kind \in DriverKinds(s.engine, "core")
    BY <1>1 DEF CapsTo
  <1>3. CASE ~IsFetch(s.engine)
    <2>1. own.kind \in {"count", "countOffset", "pair"} /\ own.rows = Asked(s)
      BY <1>2, <1>3 DEF CappedKinds, DriverKinds, Numeric
    <2>2. CoreClear(t, allowFiles)
      BY <1>1, <1>3, <2>1, ClearAgain
    <2>3. Status(own) = "ok"
      BY <1>1, <2>1 DEF Status
    <2>4. CoreCap(t) = Pass("allowed", t.limits)
      BY <2>3 DEF CoreCap
    <2>5. CorePass(t, allowFiles) = CoreCap(t)
      BY <1>1, <1>3, <2>2, CorePasses
    <2> QED BY <2>4, <2>5 DEF Pass
  <1>4. CASE IsFetch(s.engine)
    <2>1. \/ own.kind \in {"count", "fetch"} /\ own.rows = Asked(s)
          \/ own.kind \in {"none", "percent"}
      BY <1>2, <1>4 DEF CappedKinds, DriverKinds
    <2>2. CoreClear(t, allowFiles)
      BY <1>1, <1>4, <2>1, ClearAgain
    <2>3. CorePass(t, allowFiles) = OracleCap(t)
      BY <1>1, <1>4, <2>2, CorePasses
    <2>4. CASE own.kind \in {"count", "fetch"} /\ own.rows = Asked(s)
      <3>1. Min({own.rows, MaxRows}) = Asked(s)
        BY <1>1, <2>4, LesserOfTwo
      <3>2. OracleCap(t) = Pass("allowed", [t.limits EXCEPT ![Len(t.limits)] = Clause("fetch", Asked(s))])
        BY <2>4, <3>1 DEF OracleCap
      <3>3. "fetch" \in CappedKinds(s.engine, "core") /\ \A k \in 1..(Len(t.limits) - 1) : t.limits[k] = s.limits[k]
        BY <1>4 DEF CappedKinds, CapsTo
      <3>4. CapsTo(s, [t.limits EXCEPT ![Len(t.limits)] = Clause("fetch", Asked(s))], "core")
        BY <1>1, <3>3, LastReplaced
      <3> QED BY <2>3, <3>2, <3>4 DEF Pass
    <2>5. CASE own.kind \in {"none", "percent"}
      <3>1. OracleCap(t) = Pass("allowed", t.limits)
        BY <2>5 DEF OracleCap
      <3> QED BY <2>3, <3>1 DEF Pass
    <2> QED BY <2>1, <2>4, <2>5
  <1> QED BY <1>3, <1>4

(* The same of the IDE's second pass.                                      *)
LEMMA IdeCapsAgain ==
  ASSUME NEW s \in Statements, NEW t, NEW allowFiles, Relimited(s, t), s.verb = "select",
         IdeClear(s, allowFiles), CapsTo(s, t.limits, "ide")
  PROVE  IdePass(t, allowFiles).rule = "allowed" /\ CapsTo(s, IdePass(t, allowFiles).limits, "ide")
  <1> DEFINE own == Own(t)
  <1>1. /\ t.engine = s.engine /\ t.verb = s.verb /\ own = t.limits[Len(t.limits)]
        /\ t.limits \in Seq(Clauses) /\ Len(t.limits) = Len(s.limits)
        /\ Asked(s) \in Nat /\ Asked(s) <= MaxRows /\ MaxRows \in Nat
    BY SameStatement, AskedRows, SqlGuardAssumption DEF Relimited, Own, SqlGuardAssumption
  <1>2. \/ own.kind \in CappedKinds(s.engine, "ide") /\ own.rows = Asked(s)
        \/ own.kind \in DriverKinds(s.engine, "ide")
    BY <1>1 DEF CapsTo
  <1>3. IdePass(t, allowFiles) = IF IsFetch(t.engine) THEN IdeOracleCap(t) ELSE IdeCap(t)
    BY <1>1, ClearAgain, IdePasses
  <1>4. CASE ~IsFetch(s.engine)
    <2>1. own.kind \in {"count", "countOffset", "pair"} /\ own.rows = Asked(s)
      BY <1>2, <1>4 DEF CappedKinds, DriverKinds, Numeric
    <2>2. Status(own) = "ok"
      BY <1>1, <2>1 DEF Status
    <2>3. IdeCap(t) = Pass("allowed", t.limits)
      BY <2>2 DEF IdeCap
    <2> QED BY <1>1, <1>3, <1>4, <2>3 DEF Pass
  <1>5. CASE IsFetch(s.engine)
    <2>1. CASE own.kind = "fetch" /\ own.rows = Asked(s)
      <3>1. Min({own.rows, MaxRows}) = Asked(s)
        BY <1>1, <2>1, LesserOfTwo
      <3>2. IdeOracleCap(t) = Pass("allowed", [t.limits EXCEPT ![Len(t.limits)] = Clause("fetch", Asked(s))])
        BY <2>1, <3>1 DEF IdeOracleCap
      <3>3. "fetch" \in CappedKinds(s.engine, "ide") /\ \A k \in 1..(Len(t.limits) - 1) : t.limits[k] = s.limits[k]
        BY <1>5 DEF CappedKinds, CapsTo
      <3>4. CapsTo(s, [t.limits EXCEPT ![Len(t.limits)] = Clause("fetch", Asked(s))], "ide")
        BY <1>1, <3>3, LastReplaced
      <3> QED BY <1>1, <1>3, <1>5, <3>2, <3>4 DEF Pass
    <2>2. CASE own.kind = "percent"
      <3>1. IdeOracleCap(t) = Pass("allowed", t.limits)
        BY <2>2 DEF IdeOracleCap
      <3> QED BY <1>1, <1>3, <1>5, <3>1 DEF Pass
    <2>3. (own.kind = "fetch" /\ own.rows = Asked(s)) \/ own.kind = "percent"
      BY <1>2, <1>5 DEF CappedKinds, DriverKinds
    <2> QED BY <2>1, <2>2, <2>3
  <1> QED BY <1>4, <1>5

(* And so does core of a statement with one of two replaced.               *)
LEMMA NestedAgain ==
  ASSUME NEW s \in Statements, NEW t, NEW allowFiles, Relimited(s, t), s.verb = "select",
         CoreClear(s, allowFiles), OneReplaced(s, t.limits)
  PROVE  CorePass(t, allowFiles).rule = "allowed"
  <1>1. t.engine = s.engine /\ t.verb = s.verb /\ Own(t) \in {Clause("all", 0), Clause("count", MaxRows)}
    BY SameStatement DEF OneReplaced, Relimited
  <1>2. Status(Own(t)) \in {"unbounded", "ok"} /\ Own(t).kind # "none"
    BY <1>1, SqlGuardAssumption DEF Status, Clause, SqlGuardAssumption
  <1>3. CoreClear(t, allowFiles) /\ ~IsFetch(t.engine)
    BY <1>1, <1>2, ClearAgain DEF OneReplaced
  <1>4. CorePass(t, allowFiles) = CoreCap(t)
    BY <1>1, <1>3, CorePasses
  <1> QED BY <1>2, <1>4 DEF CoreCap, Pass

ThisPass(s) == IF guard = "core" THEN CorePass(s, files) ELSE IdePass(s, files)

(* The limits of what was allowed are capped, or of two nested LIMIT ALL   *)
(* one is; what is no SELECT is as it was, and allowed again.              *)
AllowedSoFar ==
  IF first.verb = "select"
  THEN /\ IF guard = "core" THEN CoreClear(first, files) ELSE IdeClear(first, files)
       /\ \/ CapsTo(first, stmt.limits, guard)
          \/ guard = "core" /\ NestedAll(first) /\ (passes = 1 => OneReplaced(first, stmt.limits))
  ELSE stmt = first /\ ThisPass(first).rule = "allowed"

GuardInv ==
  /\ first \in Statements /\ guard \in {"core", "ide"} /\ passes \in 0..2
  /\ stmt = [first EXCEPT !.limits = stmt.limits]
  /\ passes = 0 => verdict = "pending" /\ stmt = first
  /\ passes > 0 => verdict # "pending"
  /\ passes = 2 => verdict = "allowed"
  /\ verdict = "allowed" => AllowedSoFar

(* The invariant holds of a statement as it is written ...                 *)
LEMMA GuardInvInit == GuardInit => GuardInv
  BY StatementShape DEF GuardInit, GuardInv

(* ... is kept by a pass of either guard ...                               *)
LEMMA GuardInvStep == GuardInv /\ [GuardNext]_guardVars => GuardInv'
  <1> SUFFICES ASSUME GuardInv, [GuardNext]_guardVars PROVE GuardInv'
    OBVIOUS
  <1>1. CASE UNCHANGED guardVars
    BY <1>1 DEF GuardInv, AllowedSoFar, ThisPass, guardVars
  <1>2. CASE Guard
    <2> DEFINE p == ThisPass(stmt)
    <2>1. /\ passes \in {0, 1} /\ passes' = passes + 1 /\ first' = first /\ guard' = guard /\ files' = files
          /\ verdict' = p.rule
          /\ stmt' = [stmt EXCEPT !.limits = IF p.rule = "allowed" THEN p.limits ELSE stmt.limits]
          /\ verdict \in {"pending", "allowed"}
      BY <1>2 DEF Guard, GuardInv, ThisPass
    <2>2. first \in Statements /\ guard \in {"core", "ide"}
      BY DEF GuardInv
    <2>3. /\ stmt'.limits = IF p.rule = "allowed" THEN p.limits ELSE stmt.limits
          /\ stmt' = [first EXCEPT !.limits = stmt'.limits]
      BY <2>1, <2>2, StatementShape DEF GuardInv
    <2>4. p.rule # "pending"
      BY CorePasses, IdePasses DEF ThisPass
    <2>5. CASE passes = 0
      <3>1. stmt = first
        BY <2>5 DEF GuardInv
      <3>2. ASSUME p.rule = "allowed" PROVE AllowedSoFar'
        <4>1. CASE first.verb = "select"
          <5>1. CASE guard = "core"
            BY <2>1, <2>2, <2>3, <3>1, <3>2, <4>1, <5>1, CorePasses, FirstPassCaps DEF AllowedSoFar, ThisPass, OneReplaced
          <5>2. CASE guard = "ide"
            BY <2>1, <2>2, <2>3, <3>1, <3>2, <4>1, <5>2, IdePasses, FirstPassCaps DEF AllowedSoFar, ThisPass
          <5> QED BY <2>2, <5>1, <5>2
        <4>2. CASE first.verb # "select"
          <5>1. p.limits = first.limits
            BY <3>1, <4>2, CorePasses, IdePasses DEF ThisPass
          <5>2. stmt' = first
            BY <2>2, <2>3, <3>2, <5>1, StatementShape
          <5> QED BY <2>1, <3>1, <3>2, <4>2, <5>2 DEF AllowedSoFar, ThisPass
        <4> QED BY <4>1, <4>2
      <3> QED BY <2>1, <2>2, <2>3, <2>4, <2>5, <3>2 DEF GuardInv
    <2>6. CASE passes = 1
      <3>1. AllowedSoFar
        BY <2>1, <2>6 DEF GuardInv
      <3>2. p.rule = "allowed" /\ AllowedSoFar'
        <4>1. CASE first.verb = "select" /\ CapsTo(first, stmt.limits, guard)
          <5>1. Relimited(first, stmt)
            BY <4>1 DEF Relimited, CapsTo, GuardInv
          <5>2. CASE guard = "core"
            <6>1. CoreClear(first, files)
              BY <3>1, <4>1, <5>2 DEF AllowedSoFar
            <6>2. p.rule = "allowed" /\ CapsTo(first, p.limits, guard)
              BY <2>2, <4>1, <5>1, <5>2, <6>1, CoreCapsAgain DEF ThisPass
            <6> QED BY <2>1, <2>3, <4>1, <5>2, <6>1, <6>2 DEF AllowedSoFar
          <5>3. CASE guard = "ide"
            <6>1. IdeClear(first, files)
              BY <3>1, <4>1, <5>3 DEF AllowedSoFar
            <6>2. p.rule = "allowed" /\ CapsTo(first, p.limits, guard)
              BY <2>2, <4>1, <5>1, <5>3, <6>1, IdeCapsAgain DEF ThisPass
            <6> QED BY <2>1, <2>3, <4>1, <5>3, <6>1, <6>2 DEF AllowedSoFar
          <5> QED BY <2>2, <5>2, <5>3
        <4>2. CASE first.verb = "select" /\ ~CapsTo(first, stmt.limits, guard)
          <5>1. guard = "core" /\ OneReplaced(first, stmt.limits) /\ CoreClear(first, files) /\ NestedAll(first)
            BY <2>6, <3>1, <4>2 DEF AllowedSoFar
          <5>2. Relimited(first, stmt)
            BY <5>1 DEF Relimited, OneReplaced, GuardInv
          <5>3. p.rule = "allowed"
            BY <2>2, <4>2, <5>1, <5>2, NestedAgain DEF ThisPass
          <5> QED BY <2>1, <2>6, <4>2, <5>1, <5>3 DEF AllowedSoFar
        <4>3. CASE first.verb # "select"
          <5>1. stmt = first /\ p.rule = "allowed"
            BY <3>1, <4>3 DEF AllowedSoFar
          <5>2. p.limits = first.limits
            BY <4>3, <5>1, CorePasses, IdePasses DEF ThisPass
          <5>3. stmt' = first
            BY <2>2, <2>3, <5>1, <5>2, StatementShape
          <5> QED BY <2>1, <4>3, <5>1, <5>3 DEF AllowedSoFar, ThisPass
        <4> QED BY <4>1, <4>2, <4>3
      <3> QED BY <2>1, <2>2, <2>3, <2>6, <3>2 DEF GuardInv
    <2> QED BY <2>1, <2>5, <2>6
  <1> QED BY <1>1, <1>2 DEF GuardNext

(* ... and caps what was allowed.                                          *)
LEMMA GuardInvCaps == GuardInv => CapHolds
  <1> SUFFICES ASSUME GuardInv PROVE CapHolds
    OBVIOUS
  <1>1. ASSUME verdict = "allowed", stmt.verb = "select", CapsTo(first, stmt.limits, guard)
        PROVE  CappedAsAsked
    <2> DEFINE n == Len(first.limits)
    <2>1. first \in Statements /\ n \in {1, 2} /\ first.limits \in Seq(Clauses) /\ Relimited(first, stmt)
      BY <1>1, StatementShape DEF GuardInv, Relimited, CapsTo
    <2>2. stmt.engine = first.engine /\ Own(stmt) = stmt.limits[n] /\ Len(stmt.limits) = n
      BY <2>1, SameStatement DEF Relimited
    <2>3. SubSeq(stmt.limits, 1, n - 1) = SubSeq(first.limits, 1, n - 1)
      <3>1. CASE n = 1
        BY <2>1, <2>2, <3>1 DEF Relimited
      <3>2. CASE n = 2
        BY <1>1, <2>1, <2>2, <3>2 DEF Relimited, CapsTo
      <3> QED BY <2>1, <3>1, <3>2
    <2>4. DriverCaps(stmt) \/ Bound(Own(stmt)) = Asked(first)
      BY <1>1, <2>2 DEF CapsTo, DriverCaps, Bound, CappedKinds, DriverKinds, Numeric
    <2> QED BY <2>2, <2>3, <2>4 DEF CappedAsAsked, Asked
  <1>2. stmt.verb = first.verb
    BY StatementShape DEF GuardInv
  <1>3. (guard = "core" /\ NestedAll(first)) \/ CappedAsAsked
    BY <1>1, <1>2 DEF GuardInv, AllowedSoFar, CappedAsAsked
  <1> QED BY <1>3 DEF GuardInv, CapHolds

(* THEOREM: for any cap and any counts, what either SQL guard lets through *)
(* asks for the rows it asked for or the cap, whichever is less, no limit  *)
(* of a subquery changed, and a second pass lets it through again.         *)
THEOREM CapCorrect == GuardSpec => []CapHolds
  BY GuardInvInit, GuardInvStep, GuardInvCaps, PTL DEF GuardSpec

-----------------------------------------------------------------------------
(* SqlText *)

(* A reader's states are what the scan says: each from the one before.     *)
LEMMA ScanSteps ==
  ASSUME NEW r, NEW s, Len(s) \in Nat
  PROVE  /\ Scan(r, s)[0] = Unscanned
         /\ \A k \in 1..Len(s) : Scan(r, s)[k] = Step(r, Scan(r, s)[k - 1], s[k])
  <1> DEFINE F(f, n) == f = [k \in 0..n |-> IF k = 0 THEN Unscanned ELSE Step(r, f[k - 1], s[k])]
             S == {n \in Nat : \E f : F(f, n)}
  <1>1. 0 \in S
    <2>1. F([k \in 0..0 |-> Unscanned], 0)
      OBVIOUS
    <2> QED BY <2>1
  <1>2. ASSUME NEW n \in S PROVE n + 1 \in S
    <2>1. PICK f : F(f, n)
      BY <1>2
    <2> DEFINE g == [k \in 0..(n + 1) |-> IF k = n + 1 THEN Step(r, f[n], s[n + 1]) ELSE f[k]]
    <2>2. \A k \in 0..n : g[k] = f[k]
      OBVIOUS
    <2>3. \A k \in 0..(n + 1) : g[k] = IF k = 0 THEN Unscanned ELSE Step(r, g[k - 1], s[k])
      <3>1. ASSUME NEW k \in 0..(n + 1), k # n + 1
            PROVE  g[k] = IF k = 0 THEN Unscanned ELSE Step(r, g[k - 1], s[k])
        <4>1. k \in 0..n /\ (k # 0 => k - 1 \in 0..n)
          BY <3>1
        <4>2. f[k] = IF k = 0 THEN Unscanned ELSE Step(r, f[k - 1], s[k])
          BY <2>1, <4>1
        <4> HIDE DEF g
        <4> QED BY <4>1, <4>2, <2>2
      <3>2. g[n + 1] = Step(r, g[n], s[n + 1]) /\ n + 1 # 0 /\ (n + 1) - 1 = n
        BY <2>2
      <3> HIDE DEF g
      <3> QED BY <3>1, <3>2
    <2>4. F(g, n + 1)
      <3>1. g = [k \in 0..(n + 1) |-> g[k]]
        OBVIOUS
      <3> HIDE DEF g
      <3> QED BY <2>3, <3>1
    <2>5. n + 1 \in Nat /\ \E f1 : F(f1, n + 1)
      <3> HIDE DEF g, F
      <3> QED BY <2>4
    <2> HIDE DEF F
    <2> QED BY <2>5
  <1>3. Len(s) \in S
    <2> HIDE DEF S
    <2>1. S \subseteq Nat
      BY DEF S
    <2> QED BY <1>1, <1>2, <2>1, InductionOnNat
  <1>4. PICK f : F(f, Len(s))
    BY <1>3
  <1>5. F(Scan(r, s), Len(s))
    BY <1>4 DEF Scan
  <1>6. \A k \in 0..Len(s) : Scan(r, s)[k] = IF k = 0 THEN Unscanned ELSE Step(r, Scan(r, s)[k - 1], s[k])
    BY <1>5
  <1> QED BY <1>6

(* Two texts that begin alike are read alike there.                        *)
LEMMA ScanPrefix ==
  ASSUME NEW r, NEW s, NEW t, Len(s) \in Nat, Len(t) \in Nat, NEW n \in Nat, n <= Len(s), n <= Len(t),
         \A k \in 1..n : s[k] = t[k]
  PROVE  \A k \in 0..n : Scan(r, s)[k] = Scan(r, t)[k]
  <1> DEFINE S == {k \in Nat : k <= n => Scan(r, s)[k] = Scan(r, t)[k]}
  <1>1. 0 \in S
    BY ScanSteps
  <1>2. ASSUME NEW k \in S PROVE k + 1 \in S
    <2>1. CASE k + 1 <= n
      <3>1. k + 1 \in 1..Len(s) /\ k + 1 \in 1..Len(t) /\ (k + 1) - 1 = k /\ k + 1 \in 1..n
        BY <2>1, <1>2
      <3>2. Scan(r, s)[k + 1] = Step(r, Scan(r, s)[k], s[k + 1])
        BY <3>1, ScanSteps
      <3>3. Scan(r, t)[k + 1] = Step(r, Scan(r, t)[k], t[k + 1])
        BY <3>1, ScanSteps
      <3>4. Scan(r, s)[k] = Scan(r, t)[k]
        BY <1>2, <2>1
      <3> QED BY <3>1, <3>2, <3>3, <3>4
    <2> QED BY <2>1, <1>2
  <1>3. S = Nat
    <2>1. S \subseteq Nat
      OBVIOUS
    <2> HIDE DEF S
    <2> QED BY <1>1, <1>2, <2>1, InductionOnNat
  <1> QED BY <1>3

(* Core's readers and MySQL's differ on a backslash in a string and on a   *)
(* comment in a comment, and on nothing else.                              *)
LEMMA StepAlike ==
  ASSUME NEW st, NEW ch, ch # "\\", st.in = "block" => ch \notin Openers
  PROVE  Step(TrimReader("mysql"), st, ch) = Step(DatabaseReader("mysql"), st, ch)
  BY DEF Step, TrimReader, DatabaseReader

(* Where a reader can be.                                                  *)
Places == {"code", "string", "escape", "line", "block"}
LEMMA StepPlaces ==
  ASSUME NEW r, NEW st, NEW ch, st.in \in Places
  PROVE  /\ Step(r, st, ch).in \in Places
         /\ Step(r, st, ch).in = "block" => st.in = "block" \/ ch \in Openers
  <1>1. CASE st.in = "code"
    BY <1>1 DEF Step, Reading, Places, Openers
  <1>2. CASE st.in = "escape"
    BY <1>2 DEF Step, Reading, Places
  <1>3. CASE st.in = "string"
    BY <1>3 DEF Step, Reading, Places
  <1>4. CASE st.in = "line"
    BY <1>4 DEF Step, Reading, Places
  <1>5. CASE st.in = "block"
    BY <1>5 DEF Step, Reading, Places
  <1> QED BY <1>1, <1>2, <1>3, <1>4, <1>5 DEF Places

(* A comment has an opener before it.                                      *)
LEMMA BlockOpened ==
  ASSUME NEW r, NEW s, Len(s) \in Nat
  PROVE  \A k \in 0..Len(s) : /\ Scan(r, s)[k].in \in Places
                              /\ Scan(r, s)[k].in = "block" => \E j \in 1..k : s[j] \in Openers
  <1> DEFINE P(k) == /\ Scan(r, s)[k].in \in Places
                     /\ Scan(r, s)[k].in = "block" => \E j \in 1..k : s[j] \in Openers
             S == {k \in Nat : k <= Len(s) => P(k)}
  <1>1. 0 \in S
    BY ScanSteps DEF Unscanned, Reading, Places
  <1>2. ASSUME NEW k \in S PROVE k + 1 \in S
    <2>1. SUFFICES ASSUME k + 1 <= Len(s) PROVE P(k + 1)
      BY <1>2
    <2>2. k + 1 \in 1..Len(s) /\ (k + 1) - 1 = k /\ P(k) /\ k \in Nat
      BY <2>1, <1>2
    <2>3. Scan(r, s)[k + 1] = Step(r, Scan(r, s)[k], s[k + 1])
      BY <2>1, <2>2, ScanSteps
    <2>4. /\ Scan(r, s)[k + 1].in \in Places
          /\ Scan(r, s)[k + 1].in = "block" => Scan(r, s)[k].in = "block" \/ s[k + 1] \in Openers
      BY <2>2, <2>3, StepPlaces
    <2> QED BY <2>4, <2>2
  <1>3. S = Nat
    <2>1. S \subseteq Nat
      OBVIOUS
    <2> HIDE DEF S
    <2> QED BY <1>1, <1>2, <2>1, InductionOnNat
  <1> QED BY <1>3

(* MySQL reads as trimTrailingNoise does a text without a backslash and    *)
(* with one comment at most.                                               *)
LEMMA ScanAlike ==
  ASSUME NEW s, Len(s) \in Nat, \A k \in 1..Len(s) : s[k] # "\\",
         \A j, k \in 1..Len(s) : {s[j], s[k]} \subseteq Openers => j = k
  PROVE  \A k \in 0..Len(s) : Scan(TrimReader("mysql"), s)[k] = Scan(DatabaseReader("mysql"), s)[k]
  <1> DEFINE a == TrimReader("mysql")  b == DatabaseReader("mysql")
             S == {k \in Nat : k <= Len(s) => Scan(a, s)[k] = Scan(b, s)[k]}
  <1>1. 0 \in S
    BY ScanSteps
  <1>2. ASSUME NEW k \in S PROVE k + 1 \in S
    <2>1. SUFFICES ASSUME k + 1 <= Len(s) PROVE Scan(a, s)[k + 1] = Scan(b, s)[k + 1]
      BY <1>2
    <2>2. k + 1 \in 1..Len(s) /\ (k + 1) - 1 = k /\ Scan(a, s)[k] = Scan(b, s)[k] /\ k \in 0..Len(s)
      BY <2>1, <1>2
    <2>3. Scan(a, s)[k + 1] = Step(a, Scan(a, s)[k], s[k + 1]) /\ Scan(b, s)[k + 1] = Step(b, Scan(b, s)[k], s[k + 1])
      BY <2>2, ScanSteps
    <2>4. Scan(a, s)[k].in = "block" => s[k + 1] \notin Openers
      <3>1. SUFFICES ASSUME Scan(a, s)[k].in = "block", s[k + 1] \in Openers PROVE FALSE
        OBVIOUS
      <3>2. PICK j \in 1..k : s[j] \in Openers
        BY <3>1, <2>2, BlockOpened
      <3>3. j \in 1..Len(s) /\ j # k + 1
        BY <2>2, <3>2
      <3> QED BY <3>1, <3>2, <3>3, <2>2
    <2>5. Step(a, Scan(a, s)[k], s[k + 1]) = Step(b, Scan(a, s)[k], s[k + 1])
      BY <2>2, <2>4, StepAlike
    <2> QED BY <2>2, <2>3, <2>5
  <1>3. S = Nat
    <2>1. S \subseteq Nat
      OBVIOUS
    <2> HIDE DEF S
    <2> QED BY <1>1, <1>2, <2>1, InductionOnNat
  <1> QED BY <1>3

(* The last of the places of a text, or 0.                                 *)
LEMMA LatestPlace ==
  ASSUME NEW n \in Nat, NEW S, S \subseteq 1..n
  PROVE  Latest(S) \in 0..n
  <1>1. CASE S = {}
    BY <1>1 DEF Latest
  <1>2. CASE S # {}
    <2>1. \E k \in S : \A j \in S : j <= k
      BY <1>2, GreatestOfNaturals
    <2>2. Latest(S) \in S
      BY <1>2, <2>1 DEF Latest
    <2>3. Latest(S) \in 1..n
      BY <2>2, Zenon
    <2> QED BY <2>3
  <1> QED BY <1>1, <1>2

(* trimTrailingNoise ends a text where its database sees its end.          *)
LEMMA SameEnd ==
  ASSUME NEW s, Len(s) \in Nat, NEW d \in {"postgres", "mysql"},
         d = "mysql" => /\ \A k \in 1..Len(s) : s[k] # "\\"
                        /\ \A j, k \in 1..Len(s) : {s[j], s[k]} \subseteq Openers => j = k
  PROVE  EndOf(TrimReader(d), s) = EndOf(DatabaseReader(d), s) /\ EndOf(DatabaseReader(d), s) \in 0..Len(s)
  <1>1. Marks(TrimReader(d), s) = Marks(DatabaseReader(d), s)
    <2>1. CASE d = "postgres"
      <3>1. TrimReader(d) = DatabaseReader(d)
        BY <2>1 DEF TrimReader, DatabaseReader
      <3> QED BY <3>1
    <2>2. CASE d = "mysql"
      <3>1. \A k \in 1..Len(s) : Scan(TrimReader(d), s)[k] = Scan(DatabaseReader(d), s)[k]
        BY <2>2, ScanAlike
      <3> QED BY <3>1 DEF Marks
    <2> QED BY <2>1, <2>2
  <1>2. EndOf(TrimReader(d), s) = EndOf(DatabaseReader(d), s)
    BY <1>1 DEF EndOf
  <1> DEFINE m == Marks(DatabaseReader(d), s)
             S == {k \in 1..Len(s) : m[k] = "string" \/ (m[k] = "code" /\ s[k] \notin Blank \union {";"})}
  <1>3. S \subseteq 1..Len(s) /\ EndOf(DatabaseReader(d), s) = Latest(S)
    BY DEF EndOf
  <1>4. Latest(S) \in 0..Len(s)
    <2> HIDE DEF S
    <2> QED BY <1>3, LatestPlace
  <1> QED BY <1>2, <1>3, <1>4

(* A word is code where code is read, and a line break ends a line comment. *)
LEMMA CodeRead ==
  ASSUME NEW r, NEW st
  PROVE  /\ st.in = "code" => Step(r, st, "LIMIT") = Reading("code", "code", 0)
         /\ st.in \in {"code", "line"} => Step(r, st, "n") = Reading("code", "code", 0)
  BY DEF Step, Openers

(* A line break and LIMIT after a text that its database read to its end   *)
(* are read as LIMIT, whatever came before.                                *)
LEMMA LimitRead ==
  ASSUME NEW s \in Seq(Symbols), NEW d, Scan(DatabaseReader(d), s)[Len(s)].in \in {"code", "line"}
  PROVE  Read(s \o <<"n", "LIMIT">>, d) = Read(s, d) \union {Len(s) + 2}
  <1> DEFINE t == s \o <<"n", "LIMIT">>  r == DatabaseReader(d)  n == Len(s)
  <1>1. n \in Nat /\ Len(t) = n + 2 /\ \A k \in 1..n : s[k] = t[k]
    OBVIOUS
  <1>2. t[n + 1] = "n" /\ t[n + 2] = "LIMIT"
    OBVIOUS
  <1> HIDE DEF t
  <1>3. \A k \in 0..n : Scan(r, s)[k] = Scan(r, t)[k]
    BY <1>1, ScanPrefix
  <1>4. Scan(r, t)[n].in \in {"code", "line"}
    BY <1>1, <1>3
  <1>5. Scan(r, t)[n + 1] = Step(r, Scan(r, t)[n], "n") /\ Scan(r, t)[n + 2] = Step(r, Scan(r, t)[n + 1], "LIMIT")
    <2>1. n + 1 \in 1..Len(t) /\ n + 2 \in 1..Len(t) /\ (n + 1) - 1 = n /\ (n + 2) - 1 = n + 1
      BY <1>1
    <2> QED BY <2>1, <1>1, <1>2, ScanSteps
  <1>6. Scan(r, t)[n + 1].in = "code"
    BY <1>4, <1>5, CodeRead DEF Reading
  <1>7. Scan(r, t)[n + 2].mark = "code"
    BY <1>6, <1>5, CodeRead DEF Reading
  <1>8. /\ \A k \in 1..n : Marks(r, t)[k] = Marks(r, s)[k]
        /\ Marks(r, t)[n + 2] = "code"
    BY <1>1, <1>3, <1>7 DEF Marks
  <1>9. 1..Len(t) = 1..n \union {n + 1, n + 2}
    BY <1>1
  <1> HIDE DEF r, n
  <1>10. Read(t, d) = Read(s, d) \union {n + 2}
    BY <1>1, <1>2, <1>8, <1>9 DEF Read, Blank, r, n
  <1> QED BY <1>10 DEF t, n

(* What a database reads of a text with LIMIT appended is what it reads of *)
(* the text, and LIMIT.                                                    *)
LEMMA MeaningGrows ==
  ASSUME NEW s \in Seq(Symbols), NEW d, Read(s \o <<"n", "LIMIT">>, d) = Read(s, d) \union {Len(s) + 2}
  PROVE  Meaning(s \o <<"n", "LIMIT">>, d) = Meaning(s, d) \o <<"LIMIT">>
  <1> DEFINE t == s \o <<"n", "LIMIT">>  K == Read(s, d)  last == Len(s) + 2  c == Cardinality(K)
  <1>1. Len(s) \in Nat /\ t[last] = "LIMIT" /\ \A k \in 1..Len(s) : t[k] = s[k]
    OBVIOUS
  <1>2. K \subseteq 1..Len(s)
    BY DEF Read
  <1>3. IsFiniteSet(K) /\ c \in Nat
    <2>1. IsFiniteSet(1..Len(s))
      BY <1>1, FS_Interval
    <2>2. IsFiniteSet(K)
      BY <2>1, <1>2, FS_Subset
    <2> QED BY <2>2, FS_CardinalityType
  <1>4. last \notin K /\ \A j \in K : j <= last /\ j # last
    BY <1>1, <1>2
  <1> DEFINE PlaceOf(S, k) == Cardinality({j \in S : j <= k})
  <1>5. Cardinality(K \union {last}) = c + 1
    BY <1>3, <1>4, FS_AddElement
  <1>6. \A k \in K : {j \in K \union {last} : j <= k} = {j \in K : j <= k}
    BY <1>1, <1>2
  <1>7. {j \in K \union {last} : j <= last} = K \union {last}
    BY <1>1, <1>2
  <1>8. \A k \in K : PlaceOf(K, k) <= c
    BY <1>3, FS_Subset
  <1>9. ASSUME NEW n \in 1..c
        PROVE  (CHOOSE k \in K \union {last} : PlaceOf(K \union {last}, k) = n) = (CHOOSE k \in K : PlaceOf(K, k) = n)
    <2>1. \A k : (k \in K \union {last} /\ PlaceOf(K \union {last}, k) = n) <=> (k \in K /\ PlaceOf(K, k) = n)
      <3>1. PlaceOf(K \union {last}, last) # n
        <4>1. PlaceOf(K \union {last}, last) = c + 1
          BY <1>5, <1>7
        <4>2. n <= c
          BY <1>3
        <4> HIDE DEF PlaceOf, K
        <4> QED BY <1>3, <4>1, <4>2
      <3>2. \A k \in K : PlaceOf(K \union {last}, k) = PlaceOf(K, k)
        BY <1>6
      <3> HIDE DEF PlaceOf, K
      <3> QED BY <3>1, <3>2
    <2> HIDE DEF PlaceOf, K, last
    <2> QED BY <2>1
  <1>10. (CHOOSE k \in K \union {last} : PlaceOf(K \union {last}, k) = c + 1) = last
    <2>1. PlaceOf(K \union {last}, last) = c + 1
      BY <1>5, <1>7
    <2>2. \A k \in K : PlaceOf(K \union {last}, k) # c + 1
      <3>1. \A k \in K : PlaceOf(K \union {last}, k) = PlaceOf(K, k)
        BY <1>6
      <3>2. \A k \in K : PlaceOf(K, k) \in Nat
        BY <1>1, <1>2, PlacesRanked
      <3>3. \A k \in K : PlaceOf(K, k) # c + 1
        <4> HIDE DEF PlaceOf, K, c
        <4> QED BY <3>2, <1>8, <1>3
      <3> HIDE DEF PlaceOf, K, c
      <3> QED BY <3>1, <3>3
    <2> HIDE DEF PlaceOf, K, last, c
    <2> QED BY <2>1, <2>2
  <1> DEFINE Nth(S, n) == CHOOSE k \in S : PlaceOf(S, k) = n
  <1>11. \A n \in 1..c : Nth(K, n) \in K
    <2>1. SUFFICES ASSUME NEW n \in 1..c PROVE \E k \in K : PlaceOf(K, k) = n
      BY Zenon
    <2> HIDE DEF K
    <2>2. \A m \in 1..Cardinality(K) : \E k \in K : Cardinality({j \in K : j <= k}) = m
      BY <1>1, <1>2, PlacesRanked
    <2> QED BY <2>2
  <1>12. Meaning(s, d) = [n \in 1..c |-> s[Nth(K, n)]]
    BY DEF Meaning
  <1>13. Meaning(t, d) = [n \in 1..(c + 1) |-> t[Nth(K \union {last}, n)]]
    <2>1. Read(t, d) = K \union {last}
      OBVIOUS
    <2> HIDE DEF t, K, last, c
    <2> QED BY <1>5, <2>1 DEF Meaning
  <1>14. \A n \in 1..c : Nth(K \union {last}, n) = Nth(K, n) /\ t[Nth(K, n)] = s[Nth(K, n)]
    <2> HIDE DEF PlaceOf, K, t
    <2> QED BY <1>1, <1>2, <1>9, <1>11
  <1>15. t[Nth(K \union {last}, c + 1)] = "LIMIT"
    BY <1>1, <1>10
  <1> HIDE DEF Nth, K, t, c, last
  <1> DEFINE v == [n \in 1..c |-> s[Nth(K, n)]]
  <1>16. v \in Seq({v[n] : n \in 1..c}) /\ Len(v) = c
    BY <1>3
  <1>17. /\ Len(v \o <<"LIMIT">>) = c + 1 /\ v \o <<"LIMIT">> = [n \in 1..(c + 1) |-> (v \o <<"LIMIT">>)[n]]
         /\ \A n \in 1..c : (v \o <<"LIMIT">>)[n] = v[n]
         /\ (v \o <<"LIMIT">>)[c + 1] = "LIMIT"
    <2> HIDE DEF v
    <2> QED BY <1>3, <1>16
  <1>18. Meaning(t, d) = Meaning(s, d) \o <<"LIMIT">>
    <2>1. \A n \in 1..(c + 1) : t[Nth(K \union {last}, n)] = (v \o <<"LIMIT">>)[n]
      <3>1. \A n \in 1..c : t[Nth(K \union {last}, n)] = v[n]
        BY <1>14
      <3>2. \A n \in 1..(c + 1) : n \in 1..c \/ n = c + 1
        BY <1>3
      <3> HIDE DEF v
      <3> QED BY <3>1, <3>2, <1>15, <1>17
    <2>2. Meaning(s, d) = v
      BY <1>12
    <2> HIDE DEF v
    <2> QED BY <2>1, <2>2, <1>13, <1>17
  <1> QED BY <1>18 DEF t

(* What was sent is what the guard made of the text.                       *)
TextInv ==
  /\ text \in Seq(Symbols) /\ dialect \in {"postgres", "mysql"}
  /\ sent = Unread \/ sent = Guarded

LEMMA TextInvInit == TextInit => TextInv
  <1>1. SUFFICES ASSUME TextInit PROVE TextInv
    OBVIOUS
  <1>2. PICK n \in 1..MaxText : text \in [1..n -> Symbols]
    BY <1>1 DEF TextInit
  <1>3. text \in Seq(Symbols)
    <2>1. n \in Nat
      OBVIOUS
    <2> QED BY <2>1, <1>2, SeqDef
  <1> QED BY <1>1, <1>3 DEF TextInit, TextInv

LEMMA TextInvStep == TextInv /\ [TextNext]_textVars => TextInv'
  BY DEF TextInv, TextNext, GuardText, textVars, Guarded

LEMMA TextInvBinds == TextInv => CoreCapBinds
  <1>1. SUFFICES ASSUME TextInv, port = "core", Undisputed, sent \notin {Unread, Refused} PROVE CapBindsText
    BY DEF CoreCapBinds, CapBindsText
  <1> DEFINE said == SubSeq(text, 1, EndOf(DatabaseReader(dialect), text))
  <1>2. text \in Seq(Symbols) /\ Len(text) \in Nat /\ dialect \in {"postgres", "mysql"}
    BY <1>1 DEF TextInv
  <1>3. EndOf(TrimReader(dialect), text) = EndOf(DatabaseReader(dialect), text) /\ EndOf(DatabaseReader(dialect), text) \in 0..Len(text)
    BY <1>1, <1>2, SameEnd DEF Undisputed
  <1>4. said = CoreBody(text, dialect) /\ said \in Seq(Symbols)
    BY <1>2, <1>3 DEF CoreBody
  <1>5. sent = Capped(said, dialect)
    BY <1>1, <1>4 DEF TextInv, Guarded
  <1> HIDE DEF said
  <1>6. Parses(said, dialect) /\ sent = said \o <<"n", "LIMIT">>
    BY <1>1, <1>5 DEF Capped
  <1>7. Scan(DatabaseReader(dialect), said)[Len(said)].in \in {"code", "line"}
    BY <1>6 DEF Parses
  <1>8. Read(said \o <<"n", "LIMIT">>, dialect) = Read(said, dialect) \union {Len(said) + 2}
    BY <1>4, <1>7, LimitRead
  <1>9. Meaning(sent, dialect) = Meaning(said, dialect) \o <<"LIMIT">>
    BY <1>4, <1>6, <1>8, MeaningGrows
  <1> QED BY <1>9 DEF CapBindsText, said

(* THEOREM: for texts of any length, what core's guard sends means what    *)
(* was asked, with the row cap bound to it (trimTrailingNoise, guard.ts).  *)
THEOREM TextCorrect == TextSpec => []CoreCapBinds
  BY TextInvInit, TextInvStep, TextInvBinds, PTL DEF TextSpec

-----------------------------------------------------------------------------
(* PipelineGuard *)

(* The documents a part passes on, stage after stage.                      *)
LEMMA DocsSteps ==
  ASSUME NEW s, NEW more, Len(s) \in Nat
  PROVE  /\ Docs(s, more)[0] = Plenty
         /\ \A k \in 1..Len(s) : Docs(s, more)[k] = Passed(s[k], Docs(s, more)[k - 1], more[k])
  <1> DEFINE F(f, n) == f = [k \in 0..n |-> IF k = 0 THEN Plenty ELSE Passed(s[k], f[k - 1], more[k])]
             S == {n \in Nat : \E f : F(f, n)}
  <1>1. 0 \in S
    <2>1. F([k \in 0..0 |-> Plenty], 0)
      OBVIOUS
    <2> QED BY <2>1
  <1>2. ASSUME NEW n \in S PROVE n + 1 \in S
    <2>1. PICK f : F(f, n)
      BY <1>2
    <2> DEFINE g == [k \in 0..(n + 1) |-> IF k = n + 1 THEN Passed(s[n + 1], f[n], more[n + 1]) ELSE f[k]]
    <2>2. \A k \in 0..n : g[k] = f[k]
      OBVIOUS
    <2>3. \A k \in 0..(n + 1) : g[k] = IF k = 0 THEN Plenty ELSE Passed(s[k], g[k - 1], more[k])
      <3>1. ASSUME NEW k \in 0..(n + 1), k # n + 1
            PROVE  g[k] = IF k = 0 THEN Plenty ELSE Passed(s[k], g[k - 1], more[k])
        <4>1. k \in 0..n /\ (k # 0 => k - 1 \in 0..n)
          BY <3>1
        <4>2. f[k] = IF k = 0 THEN Plenty ELSE Passed(s[k], f[k - 1], more[k])
          BY <2>1, <4>1
        <4> HIDE DEF g
        <4> QED BY <4>1, <4>2, <2>2
      <3>2. g[n + 1] = Passed(s[n + 1], g[n], more[n + 1]) /\ n + 1 # 0 /\ (n + 1) - 1 = n
        BY <2>2
      <3> HIDE DEF g
      <3> QED BY <3>1, <3>2
    <2>4. F(g, n + 1)
      <3>1. g = [k \in 0..(n + 1) |-> g[k]]
        OBVIOUS
      <3> HIDE DEF g
      <3> QED BY <2>3, <3>1
    <2>5. n + 1 \in Nat /\ \E f1 : F(f1, n + 1)
      <3> HIDE DEF g, F
      <3> QED BY <2>4
    <2> HIDE DEF F
    <2> QED BY <2>5
  <1>3. Len(s) \in S
    <2> HIDE DEF S
    <2>1. S \subseteq Nat
      BY DEF S
    <2> QED BY <1>1, <1>2, <2>1, InductionOnNat
  <1>4. PICK f : F(f, Len(s))
    BY <1>3
  <1>5. F(Docs(s, more), Len(s))
    BY <1>4 DEF Docs
  <1>6. \A k \in 0..Len(s) : Docs(s, more)[k] = IF k = 0 THEN Plenty ELSE Passed(s[k], Docs(s, more)[k - 1], more[k])
    BY <1>5
  <1> QED BY <1>6

(* Parts that begin alike pass on alike there.                             *)
LEMMA DocsPrefix ==
  ASSUME NEW s, NEW t, NEW more, Len(s) \in Nat, Len(t) \in Nat, NEW n \in Nat, n <= Len(s), n <= Len(t),
         \A k \in 1..n : s[k] = t[k]
  PROVE  Docs(s, more)[n] = Docs(t, more)[n]
  <1> DEFINE S == {k \in Nat : k <= n => Docs(s, more)[k] = Docs(t, more)[k]}
  <1>1. 0 \in S
    BY DocsSteps
  <1>2. ASSUME NEW k \in S PROVE k + 1 \in S
    <2>1. CASE k + 1 <= n
      <3>1. k + 1 \in 1..Len(s) /\ k + 1 \in 1..Len(t) /\ (k + 1) - 1 = k /\ k + 1 \in 1..n
        BY <2>1, <1>2
      <3>2. Docs(s, more)[k + 1] = Passed(s[k + 1], Docs(s, more)[k], more[k + 1])
        BY <3>1, DocsSteps
      <3>3. Docs(t, more)[k + 1] = Passed(t[k + 1], Docs(t, more)[k], more[k + 1])
        BY <3>1, DocsSteps
      <3>4. Docs(s, more)[k] = Docs(t, more)[k]
        BY <1>2, <2>1
      <3> QED BY <3>1, <3>2, <3>3, <3>4
    <2> QED BY <2>1, <1>2
  <1>3. S = Nat
    <2>1. S \subseteq Nat
      OBVIOUS
    <2> HIDE DEF S
    <2> QED BY <1>1, <1>2, <2>1, InductionOnNat
  <1> QED BY <1>3

(* What a stage passes on is a number of documents.                        *)
LEMMA PassedCounts ==
  ASSUME NEW passing \in Stages, NEW before \in Nat, NEW more, passing.op = "unionWith" => more \in Nat
  PROVE  Passed(passing, before, more) \in Nat
  <1>1. passing.rows \in Nat /\ Plenty \in Nat
    BY PipelineAssumption DEF Stages, Plenty
  <1>2. Min({before, passing.rows}) \in Nat
    BY <1>1, LesserOfTwo
  <1>3. passing.op = "unionWith" => Min({Plenty, before + more}) \in Nat
    <2>1. SUFFICES ASSUME passing.op = "unionWith" PROVE Min({Plenty, before + more}) \in Nat
      OBVIOUS
    <2>2. before + more \in Nat
      BY <2>1
    <2> DEFINE sum == before + more
    <2>3. sum \in Nat
      BY <2>2
    <2> HIDE DEF sum
    <2>4. Min({Plenty, sum}) \in Nat
      BY <2>3, <1>1, LesserOfTwo
    <2> QED BY <2>4 DEF sum
  <1> QED BY <1>1, <1>2, <1>3 DEF Passed

LEMMA DocsCounted ==
  ASSUME NEW s \in Seq(Stages), NEW more \in [Unions(s) -> 0..Plenty], NEW n \in Nat, n <= Len(s)
  PROVE  Docs(s, more)[n] \in Nat
  <1> DEFINE S == {k \in Nat : k <= Len(s) => Docs(s, more)[k] \in Nat}
  <1>0. Len(s) \in Nat /\ Plenty \in Nat
    BY PipelineAssumption DEF Plenty
  <1>1. 0 \in S
    BY <1>0, DocsSteps
  <1>2. ASSUME NEW k \in S PROVE k + 1 \in S
    <2>1. CASE k + 1 <= Len(s)
      <3>1. k + 1 \in 1..Len(s) /\ (k + 1) - 1 = k /\ k <= Len(s) /\ k \in Nat
        BY <2>1, <1>0
      <3>2. Docs(s, more)[k + 1] = Passed(s[k + 1], Docs(s, more)[k], more[k + 1])
        BY <3>1, <1>0, DocsSteps
      <3>3. Docs(s, more)[k] \in Nat /\ s[k + 1] \in Stages
        BY <3>1
      <3>4. s[k + 1].op = "unionWith" => more[k + 1] \in Nat
        <4>1. s[k + 1].op = "unionWith" => k + 1 \in Unions(s)
          BY <3>1 DEF Unions
        <4> QED BY <4>1, <1>0
      <3> QED BY <3>1, <3>2, <3>3, <3>4, PassedCounts
    <2> QED BY <2>1, <1>2
  <1>3. S = Nat
    <2>1. S \subseteq Nat
      OBVIOUS
    <2> HIDE DEF S
    <2> QED BY <1>1, <1>2, <2>1, InductionOnNat
  <1> QED BY <1>3

(* A part that ends in a $limit.                                           *)
LEMMA ReturnedLimit ==
  ASSUME NEW t \in Seq(Stages), NEW s \in Seq(Stages), NEW more \in [Unions(s) -> 0..Plenty],
         Len(t) > 0, t[Len(t)].op = "limit", Len(t) - 1 <= Len(s), \A k \in 1..(Len(t) - 1) : t[k] = s[k]
  PROVE  /\ Docs(s, more)[Len(t) - 1] \in Nat
         /\ Returned(t, more) = IF Docs(s, more)[Len(t) - 1] <= t[Len(t)].rows THEN Docs(s, more)[Len(t) - 1]
                                ELSE t[Len(t)].rows
  <1> DEFINE n == Len(t) - 1  d == Docs(s, more)[n]  r == t[Len(t)].rows
  <1>1. Len(t) \in Nat /\ Len(s) \in Nat /\ n \in Nat /\ n + 1 = Len(t) /\ Len(t) \in 1..Len(t) /\ n <= Len(t)
    OBVIOUS
  <1>2. t[Len(t)] \in Stages
    BY <1>1
  <1>3. r \in Nat
    BY <1>2 DEF Stages
  <1>4. d \in Nat
    BY <1>1, DocsCounted
  <1>5. Docs(t, more)[n] = d
    <2> HIDE DEF n
    <2>1. \A k \in 1..n : t[k] = s[k]
      BY DEF n
    <2>2. n <= Len(s)
      BY DEF n
    <2> QED BY <1>1, <2>1, <2>2, DocsPrefix
  <1>6. Docs(t, more)[Len(t)] = Passed(t[Len(t)], Docs(t, more)[Len(t) - 1], more[Len(t)])
    BY <1>1, DocsSteps
  <1>7. Returned(t, more) = Min({d, r})
    <2> HIDE DEF d
    <2>1. Passed(t[Len(t)], d, more[Len(t)]) = Min({d, r})
      BY DEF Passed
    <2> QED BY <1>5, <1>6, <2>1 DEF Returned
  <1> HIDE DEF d, r
  <1>8. Min({d, r}) = IF d <= r THEN d ELSE r
    BY <1>3, <1>4, LesserOfTwo
  <1> QED BY <1>4, <1>7, <1>8 DEF d, r

(* capPipeline on one part: what it returned, up to the cap, and no other  *)
(* stage of it changed.                                                    *)
LEMMA PartCapped ==
  ASSUME NEW s \in Seq(Stages)
  PROVE  /\ \A more \in [Unions(s) -> 0..Plenty] : Returned(CapStages(s), more) = Min({Returned(s, more), PipelineCap})
         /\ \A k \in 1..Len(s) : k < Len(s) \/ s[k].op # "limit" => CapStages(s)[k] = s[k]
         /\ CapStages(s) \in Seq(Stages)
         /\ \A k \in 1..Len(CapStages(s)) : CapStages(s)[k] = Limit(PipelineCap) \/ \E j \in 1..Len(s) : CapStages(s)[k] = s[j]
  <1>0. PipelineCap \in Nat /\ Limit(PipelineCap) \in Stages
    <2>1. PipelineCap \in Nat
      BY PipelineAssumption
    <2> QED BY <2>1 DEF Limit, Stages, AllowedStages
  <1>00. Limit(PipelineCap).op = "limit" /\ Limit(PipelineCap).rows = PipelineCap
    BY DEF Limit
  <1> DEFINE t == CapStages(s)  l == Limit(PipelineCap)
  <1>1. CASE LimitDecision(s) = "none"
    <2>1. t = Append(s, l)
      BY <1>1 DEF CapStages
    <2>2. /\ t \in Seq(Stages) /\ Len(s) \in Nat /\ Len(t) = Len(s) + 1 /\ t[Len(t)] = l
          /\ \A k \in 1..Len(s) : t[k] = s[k]
      <3> HIDE DEF t, l
      <3> QED BY <2>1, <1>0 DEF l
    <2>3. ASSUME NEW more \in [Unions(s) -> 0..Plenty] PROVE Returned(t, more) = Min({Returned(s, more), PipelineCap})
      <3> DEFINE d == Docs(s, more)[Len(s)]
      <3>1. d \in Nat /\ Returned(t, more) = IF d <= PipelineCap THEN d ELSE PipelineCap
        <4>1. Len(t) > 0 /\ t[Len(t)].op = "limit" /\ t[Len(t)].rows = PipelineCap /\ Len(t) - 1 = Len(s)
          BY <2>2, <1>00
        <4> HIDE DEF t, l
        <4> QED BY <4>1, <2>2, ReturnedLimit
      <3>2. Returned(s, more) = d
        BY DEF Returned
      <3> HIDE DEF d
      <3> QED BY <3>1, <3>2, <1>0, LesserOfTwo
    <2>4. \A k \in 1..Len(t) : t[k] = l \/ \E j \in 1..Len(s) : t[k] = s[j]
      <3> HIDE DEF t, l
      <3>1. \A k \in 1..Len(t) : k \in 1..Len(s) \/ k = Len(t)
        BY <2>2
      <3> QED BY <3>1, <2>2
    <2> HIDE DEF t, l
    <2>5. \A k \in 1..Len(s) : k < Len(s) \/ s[k].op # "limit" => t[k] = s[k]
      BY <2>2
    <2> QED BY <2>2, <2>3, <2>4, <2>5 DEF t, l
  <1>2. CASE LimitDecision(s) # "none"
    <2> DEFINE n == Len(s)
    <2>1. /\ n \in Nat /\ s # <<>> /\ s[n].op = "limit"
          /\ LimitDecision(s) = IF s[n].rows > PipelineCap THEN "high" ELSE "ok"
      BY <1>2 DEF LimitDecision, Last
    <2>2. n > 0 /\ n \in 1..n /\ n - 1 \in Nat
      BY <2>1
    <2>3. s[n] \in Stages
      BY <2>2
    <2>4. s[n].rows \in Nat
      BY <2>3 DEF Stages
    <2>5. ASSUME NEW more \in [Unions(s) -> 0..Plenty]
          PROVE  /\ Docs(s, more)[n - 1] \in Nat
                 /\ Returned(s, more) = IF Docs(s, more)[n - 1] <= s[n].rows THEN Docs(s, more)[n - 1] ELSE s[n].rows
      BY <2>1, <2>2, ReturnedLimit
    <2>6. CASE s[n].rows > PipelineCap
      <3>1. t = Append(SubSeq(s, 1, n - 1), l)
        BY <2>1, <2>6 DEF CapStages, Front
      <3>2. /\ t \in Seq(Stages) /\ Len(t) = n /\ t[n] = l /\ \A k \in 1..(n - 1) : t[k] = s[k]
        <4> DEFINE f == SubSeq(s, 1, n - 1)
        <4>1. f \in Seq(Stages) /\ Len(f) = n - 1 /\ \A k \in 1..(n - 1) : f[k] = s[k]
          <5>1. 1 \in 1..(Len(s) + 1) /\ n - 1 \in 0..Len(s)
            BY <2>1, <2>2
          <5> DEFINE m == n - 1
          <5>2. m \in Nat /\ m <= Len(s)
            BY <2>2, <5>1
          <5> HIDE DEF m, n
          <5>3. SubSeq(s, 1, m) \in Seq(Stages)
            BY <5>2, <2>1 DEF n
          <5>4. Len(SubSeq(s, 1, m)) = m /\ \A k \in 1..m : SubSeq(s, 1, m)[k] = s[k]
            BY <5>2, <2>1 DEF n
          <5> QED BY <5>3, <5>4 DEF m
        <4> HIDE DEF f, l, t, n
        <4>2. l \in Stages /\ t = Append(f, l)
          BY <3>1, <1>0 DEF l, f
        <4> QED BY <4>1, <4>2, <2>1, <2>2
      <3>3. ASSUME NEW more \in [Unions(s) -> 0..Plenty] PROVE Returned(t, more) = Min({Returned(s, more), PipelineCap})
        <4> DEFINE d == Docs(s, more)[n - 1]
        <4>1. Returned(t, more) = IF d <= PipelineCap THEN d ELSE PipelineCap
          <5>1. t[n].op = "limit" /\ t[n].rows = PipelineCap /\ Len(t) > 0 /\ Len(t) - 1 <= Len(s)
            BY <3>2, <2>1, <2>2, <1>00
          <5> HIDE DEF t, l
          <5> QED BY <5>1, <3>2, ReturnedLimit
        <4>2. d \in Nat /\ Returned(s, more) = IF d <= s[n].rows THEN d ELSE s[n].rows
          BY <2>5
        <4> DEFINE e == Returned(s, more)
        <4>3. e \in Nat /\ (IF e <= PipelineCap THEN e ELSE PipelineCap) = IF d <= PipelineCap THEN d ELSE PipelineCap
          BY <4>2, <2>4, <2>6, <1>0
        <4> HIDE DEF d, e
        <4>4. Min({e, PipelineCap}) = IF e <= PipelineCap THEN e ELSE PipelineCap
          BY <4>3, <1>0, LesserOfTwo
        <4> QED BY <4>1, <4>3, <4>4 DEF e
      <3>4. \A k \in 1..Len(t) : t[k] = l \/ \E j \in 1..Len(s) : t[k] = s[j]
        <4>1. \A k \in 1..n : k \in 1..(n - 1) \/ k = n
          BY <2>1
        <4>2. \A k \in 1..(n - 1) : k \in 1..n
          BY <2>1
        <4> HIDE DEF t, l
        <4> QED BY <4>1, <4>2, <3>2
      <3>5. \A k \in 1..n : k < n \/ s[k].op # "limit" => t[k] = s[k]
        <4>1. \A k \in 1..n : k < n \/ s[k].op # "limit" => k \in 1..(n - 1)
          BY <2>1
        <4> HIDE DEF t, l
        <4> QED BY <4>1, <3>2
      <3> HIDE DEF t, l
      <3> QED BY <3>2, <3>3, <3>4, <3>5 DEF t, l
    <2>7. CASE ~(s[n].rows > PipelineCap)
      <3>1. t = s
        BY <2>1, <2>7 DEF CapStages
      <3>2. ASSUME NEW more \in [Unions(s) -> 0..Plenty] PROVE Returned(s, more) = Min({Returned(s, more), PipelineCap})
        <4> DEFINE e == Returned(s, more)
        <4>1. e \in Nat /\ e <= PipelineCap
          BY <2>4, <2>5, <2>7, <1>0
        <4> HIDE DEF e
        <4>2. e = Min({e, PipelineCap})
          BY <4>1, <1>0, LesserOfTwo
        <4> QED BY <4>2 DEF e
      <3> HIDE DEF t
      <3> QED BY <3>1, <3>2 DEF t
    <2> QED BY <2>6, <2>7
  <1> QED BY <1>1, <1>2

(* A pipeline is made of parts that are sequences of stages.               *)
PipelineParts(P) == \A b \in DOMAIN P : P[b] \in Seq(Stages)

LEMMA PipelineCapped ==
  ASSUME NEW P, PipelineParts(P)
  PROVE  CappedForm(P, CapPipeline(P))
  <1> DEFINE Q == CapPipeline(P)
  <1>1. DOMAIN Q = DOMAIN P /\ \A b \in DOMAIN P : Q[b] = IF InFacets(P, b) THEN CapStages(P[b]) ELSE P[b]
    BY DEF CapPipeline
  <1> HIDE DEF Q
  <1>2. ASSUME NEW b \in DOMAIN P
        PROVE  /\ InFacets(P, b) => \A more \in [Unions(P[b]) -> 0..Plenty] :
                                      Returned(Q[b], more) = Min({Returned(P[b], more), PipelineCap})
               /\ ~InFacets(P, b) => Q[b] = P[b]
               /\ \A k \in 1..Len(P[b]) : k < Len(P[b]) \/ P[b][k].op # "limit" => Q[b][k] = P[b][k]
    <2>1. P[b] \in Seq(Stages)
      BY DEF PipelineParts
    <2> QED BY <2>1, <1>1, PartCapped
  <1>3. CappedForm(P, Q)
    BY <1>1, <1>2 DEF CappedForm
  <1> QED BY <1>3 DEF Q

(* No stage of a pipeline the walk finds nothing in offends.               *)
LEMMA PipelineClean ==
  ASSUME NEW P, PipelineParts(P), DOMAIN P \subseteq Seq(Nat), WalkPipeline(P) = {}
  PROVE  Clean(CapPipeline(P))
  <1>1. ASSUME NEW b \in DOMAIN P, NEW k \in 1..Len(P[b])
        PROVE  P[b][k].op \in AllowedStages \ {"where", "regex"}
    <2> DEFINE x == Append(b, k)
    <2>1. b \in Seq(Nat) /\ k \in Nat /\ Len(P[b]) \in Nat
      <3>1. P[b] \in Seq(Stages)
        BY DEF PipelineParts
      <3> QED BY <3>1
    <2>2. /\ x \in Seq(Nat) /\ Len(x) = Len(b) + 1 /\ x[Len(x)] = k /\ SubSeq(x, 1, Len(x) - 1) = b
      <3>1. x \in Seq(Nat) /\ Len(x) = Len(b) + 1 /\ x[Len(x)] = k
        BY <2>1
      <3>2. SubSeq(x, 1, Len(b)) = b
        BY <2>1
      <3>3. Len(x) - 1 = Len(b)
        BY <2>1, <3>1
      <3> HIDE DEF x
      <3> QED BY <3>1, <3>2, <3>3
    <2>3. Front(x) = b /\ Last(x) = k /\ IsPrefix(x, x) /\ x \in StagesOf(P)
      <3>1. Front(x) = b /\ Last(x) = k
        BY <2>2 DEF Front, Last
      <3>2. IsPrefix(x, x)
        BY <2>2 DEF IsPrefix
      <3>3. x \in StagesOf(P)
        BY DEF StagesOf
      <3> QED BY <3>1, <3>2, <3>3
    <2> HIDE DEF x
    <2>4. ~Offends(P, x) /\ StageAt(P, x) = P[b][k]
      BY <2>3 DEF WalkPipeline, StageAt
    <2>5. P[b][k].op \in AllowedStages /\ ScanValue(P, x) = {}
      BY <2>4 DEF Offends
    <2>6. Held(P, x) = "none"
      BY <2>3, <2>5 DEF ScanValue
    <2>7. StageAt(P, x).op \notin {"where", "regex"}
      BY <2>6 DEF Held
    <2> QED BY <2>4, <2>5, <2>7
  <1>2. "limit" \in AllowedStages \ {"where", "regex"}
    BY DEF AllowedStages
  <1>3. ASSUME NEW b \in DOMAIN P, NEW k \in 1..Len(CapPipeline(P)[b])
        PROVE  CapPipeline(P)[b][k].op \in AllowedStages \ {"where", "regex"}
    <2>1. P[b] \in Seq(Stages)
      BY DEF PipelineParts
    <2>2. CASE InFacets(P, b)
      <3>1. CapPipeline(P)[b] = CapStages(P[b])
        BY <2>2 DEF CapPipeline
      <3>2. CapPipeline(P)[b][k] = Limit(PipelineCap) \/ \E j \in 1..Len(P[b]) : CapPipeline(P)[b][k] = P[b][j]
        BY <2>1, <3>1, PartCapped
      <3>3. Limit(PipelineCap).op = "limit"
        BY DEF Limit
      <3> QED BY <3>2, <3>3, <1>1, <1>2
    <2>3. CASE ~InFacets(P, b)
      <3>1. CapPipeline(P)[b] = P[b]
        BY <2>3 DEF CapPipeline
      <3> QED BY <3>1, <1>1
    <2> QED BY <2>2, <2>3
  <1>4. DOMAIN CapPipeline(P) = DOMAIN P
    BY DEF CapPipeline
  <1> QED BY <1>3, <1>4 DEF Clean

(* A verdict that lets a pipeline through is the capped pipeline, of which *)
(* no stage offends.                                                       *)
PipelineInv ==
  /\ PipelineParts(pipeline) /\ DOMAIN pipeline \subseteq Seq(Nat)
  /\ sentOut.rule = "allowed" => WalkPipeline(pipeline) = {} /\ sentOut.stages = CapPipeline(pipeline)

LEMMA PipelineGuarded ==
  ASSUME PipelineInv, [PipelineNext]_pipelineVars
  PROVE  PipelineInv'
  <1>1. CASE UNCHANGED pipelineVars
    BY <1>1 DEF PipelineInv, pipelineVars, PipelineParts
  <1>2. CASE GuardOnePipeline
    <2>1. UNCHANGED <<pipeline, form, host>>
      BY <1>2 DEF GuardOnePipeline
    <2>2. Violation(pipeline) # "allowed"
      <3>1. \A x : Held(pipeline, x) # "allowed"
        BY DEF Held
      <3> QED BY <3>1 DEF Violation
    <2>3. \A rule : Blocked(rule).rule = rule
      BY DEF Blocked
    <2> DEFINE let == [rule |-> "allowed", stages |-> CapPipeline(pipeline)]
    <2>4. let.stages = CapPipeline(pipeline)
      OBVIOUS
    <2>5. sentOut'.rule = "allowed" => WalkPipeline(pipeline) = {} /\ sentOut' = let
      <3>1. CASE host = "core"
        <4>1. sentOut' = GuardPipeline(pipeline)
          BY <1>2, <3>1 DEF GuardOnePipeline
        <4> QED BY <4>1, <2>2, <2>3 DEF GuardPipeline
      <3>2. CASE host # "core"
        <4>1. sentOut' = IdeGuardPipeline(pipeline)
          BY <1>2, <3>2 DEF GuardOnePipeline
        <4> QED BY <4>1, <2>2, <2>3 DEF IdeGuardPipeline
      <3> QED BY <3>1, <3>2
    <2>6. sentOut'.rule = "allowed" => WalkPipeline(pipeline) = {} /\ sentOut'.stages = CapPipeline(pipeline)
      <3> HIDE DEF let
      <3> QED BY <2>4, <2>5
    <2> QED BY <2>1, <2>6 DEF PipelineInv, PipelineParts
  <1> QED BY <1>1, <1>2 DEF PipelineNext

LEMMA PipelineInvBounds ==
  ASSUME PipelineInv
  PROVE  PipelineBounded
  <1>1. SUFFICES ASSUME sentOut.rule = "allowed"
                 PROVE  Clean(sentOut.stages) /\ CappedForm(pipeline, sentOut.stages)
    BY DEF PipelineBounded
  <1>2. PipelineParts(pipeline) /\ DOMAIN pipeline \subseteq Seq(Nat) /\ WalkPipeline(pipeline) = {} /\ sentOut.stages = CapPipeline(pipeline)
    BY <1>1 DEF PipelineInv
  <1> QED BY <1>2, PipelineCapped, PipelineClean

LEMMA PipelineInvInit == PipelineInit => PipelineInv
  <1>1. SUFFICES ASSUME PipelineInit PROVE PipelineInv
    OBVIOUS
  <1>2. pipeline \in Pipelines /\ sentOut = Waiting
    BY <1>1 DEF PipelineInit
  <1>3. sentOut.rule # "allowed"
    BY <1>2 DEF Waiting, Blocked
  <1>4. PipelineParts(pipeline) /\ DOMAIN pipeline \subseteq Seq(Nat)
    BY <1>2, PipelineAssumption DEF PipelineParts
  <1> QED BY <1>3, <1>4 DEF PipelineInv

(* THEOREM: whatever the pipeline and however deep, what either guard lets *)
(* through returns at most the cap, in every branch of a facet, and        *)
(* otherwise what was asked (capPipeline); no stage that writes or runs    *)
(* JavaScript is let through (walkPipeline).                               *)
THEOREM PipelineCorrect == PipelineSpec => []PipelineBounded
  BY PipelineInvInit, PipelineGuarded, PipelineInvBounds, PTL DEF PipelineSpec

-----------------------------------------------------------------------------
(* MCRules *)

(* The guards together: of each, its own invariant, and of the SQL guards  *)
(* that they have nothing to say where they are not asked.                 *)
RowsInv == TextInv /\ PipelineInv /\ (focus = "sql" => GuardInv) /\ (focus # "sql" => IdleSql)

LEMMA RowsInvInit == RulesInit => RowsInv
  <1>1. SUFFICES ASSUME RulesInit PROVE RowsInv
    OBVIOUS
  <1>2. TextInit \/ IdleText
    BY <1>1 DEF RulesInit
  <1>3. PipelineInit \/ IdlePipeline
    BY <1>1 DEF RulesInit
  <1>4. (focus = "sql" => GuardInit) /\ (focus # "sql" => IdleSql)
    BY <1>1 DEF RulesInit
  <1>5. IdleText => TextInv
    BY DEF IdleText, TextInv
  <1>6. IdlePipeline => PipelineInv
    <2>1. SUFFICES ASSUME IdlePipeline PROVE PipelineInv
      OBVIOUS
    <2>2. DOMAIN pipeline = {<<>>} /\ pipeline[<<>>] = <<>> /\ sentOut.rule # "allowed"
      BY <2>1 DEF IdlePipeline, NoStages, Waiting, Blocked
    <2>3. <<>> \in Seq(Stages) /\ <<>> \in Seq(Nat)
      OBVIOUS
    <2> QED BY <2>2, <2>3 DEF PipelineInv, PipelineParts
  <1> QED BY <1>2, <1>3, <1>4, <1>5, <1>6, TextInvInit, PipelineInvInit, GuardInvInit DEF RowsInv

LEMMA RowsInvStep == RowsInv /\ [RulesNext]_rulesVars => RowsInv'
  <1>1. SUFFICES ASSUME RowsInv, [RulesNext]_rulesVars PROVE RowsInv'
    OBVIOUS
  <1>2. [TextNext]_textVars /\ [PipelineNext]_pipelineVars /\ UNCHANGED focus
    BY <1>1 DEF RulesNext, rulesVars
  <1>3. (focus = "sql" => [GuardNext]_guardVars) /\ (focus # "sql" => UNCHANGED guardVars)
    BY <1>1 DEF RulesNext, rulesVars
  <1>4. TextInv' /\ PipelineInv'
    BY <1>1, <1>2, TextInvStep, PipelineGuarded DEF RowsInv
  <1>5. focus = "sql" => GuardInv'
    BY <1>1, <1>3, GuardInvStep DEF RowsInv
  <1>6. focus # "sql" => IdleSql'
    BY <1>1, <1>3 DEF RowsInv, IdleSql, guardVars
  <1> QED BY <1>2, <1>4, <1>5, <1>6 DEF RowsInv

(* THEOREM: no statement a guard lets through returns more rows than the   *)
(* cap: a text of any length that core writes, a statement of either SQL   *)
(* guard, a MongoDB pipeline of any length and depth.                      *)
THEOREM RowsCorrect == RulesSpec => []RowsCapped
  <1>1. RowsInv => RowsCapped
    <2>1. SUFFICES ASSUME RowsInv PROVE RowsCapped
      OBVIOUS
    <2>2. IdleSql => CapHolds
      BY DEF IdleSql, CapHolds, CappedAsAsked
    <2>3. CapHolds
      BY <2>1, <2>2, GuardInvCaps DEF RowsInv
    <2> QED BY <2>1, <2>3, TextInvBinds, PipelineInvBounds DEF RowsInv, RowsCapped
  <1> QED BY <1>1, RowsInvInit, RowsInvStep, PTL DEF RulesSpec
=============================================================================
