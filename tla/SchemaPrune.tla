----------------------------- MODULE SchemaPrune -----------------------------
(***************************************************************************)
(* The schema a prompt carries (core catalog.ts, pruneCatalog): all of it  *)
(* when it fits, else the tables the question's words hit, the tables a    *)
(* foreign key or two away from them, as many of these as the token budget *)
(* holds, and of a table too large for its part of the budget its keys and *)
(* some of its columns. A prompt the model finds too long is pruned again, *)
(* once, with half the limits (engine.ts, ask).                            *)
(*                                                                         *)
(* Words are abstracted to how each of them meets a table; text is its     *)
(* size in tokens; a column is named by its number in the table.           *)
(***************************************************************************)
EXTENDS Naturals, Sequences, FiniteSets, FiniteSetsExt

CONSTANTS Schemas,        \* the catalogs: [tables, sections], see TableType
          MaxTables,      \* settings.maxTables
          MaxTokens,      \* settings.maxSchemaTokens
          LeastBudget,    \* 500: the least the tables get
          Reserve,        \* 400: kept back for relationships, enums and functions
          LeastTable,     \* 200: the least one table gets when columns are trimmed
          MinColumns,     \* MIN_COLUMNS_KEPT
          ShrunkTables, ShrunkTokens  \* 5 and 1000: the least limits of the second pruning

ColumnType == [hit : BOOLEAN, size : Nat, base : STRING]
ForeignKeyType == [cols : Seq(Nat), schema : STRING, name : STRING, refCols : Seq(Nat)]
HitKinds == {"name", "word", "part", "column", "comment", "none"}
TableType == [schema : STRING, name : STRING, partition : BOOLEAN, hits : Seq(HitKinds), head : Nat,
              cols : Seq(ColumnType), pk : SUBSET Nat, fks : SUBSET ForeignKeyType]
ASSUME PruneAssumption ==
  /\ Schemas \subseteq [tables : Seq(TableType), sections : Nat]
  /\ MaxTables \in Nat \ {0} /\ MaxTokens \in Nat /\ LeastBudget \in Nat /\ Reserve \in Nat
  /\ LeastTable \in Nat /\ MinColumns \in Nat \ {0} /\ ShrunkTables \in Nat \ {0} /\ ShrunkTokens \in Nat

VARIABLES schema,                 \* the catalog, with how the question meets it
          tableCap, tokenCap,     \* maxTables and maxSchemaTokens of this pruning
          shrunk,                 \* contextShrunk
          stage,                  \* where pruneCatalog is
          expanded, frontier, hop,  \* the foreign-key closure
          left, kept, used,       \* candidates left; tables kept, and the tokens charged for them
          toTrim, columnsOf,      \* tables left to trim; the columns shown of each table
          dropped, strategy       \* of the PruneResult
pruneVars == <<schema, tableCap, tokenCap, shrunk, stage, expanded, frontier, hop, left, kept, used, toTrim,
               columnsOf, dropped, strategy>>

Table(t) == schema.tables[t]
Listed == DOMAIN schema.tables
All == {t \in Listed : ~Table(t).partition}
AllColumns(t) == DOMAIN Table(t).cols

(* How a table answers the question: a point count per word, names before columns before comments. *)
Points(hit) == CASE hit = "name" -> 6 [] hit = "word" -> 5 [] hit = "part" -> 4 [] hit = "column" -> 2
                 [] hit = "comment" -> 1 [] hit = "none" -> 0
scoreTable(t) == Cardinality({h \in (DOMAIN Table(t).hits) \X (1..6) : h[2] <= Points(Table(t).hits[h[1]])})
Before(t, u) == scoreTable(t) > scoreTable(u) \/ (scoreTable(t) = scoreTable(u) /\ t <= u)
Best(t, set) == t \in set /\ \A u \in set : Before(t, u)
Place(t) == Cardinality({u \in All : Before(u, t)})
Seeds == {t \in All : scoreTable(t) > 0}

(* The table a foreign key names: by schema and name, or else the last of that name. *)
Referred(fk) ==
  LET exact == {t \in All : Table(t).schema = fk.schema /\ Table(t).name = fk.name}
      named == {t \in All : Table(t).name = fk.name}
      Last(set) == {t \in set : \A u \in set : u <= t}
  IN IF fk.schema # "" /\ exact # {} THEN Last(exact) ELSE Last(named)
Joined(t, u) == \/ \E fk \in Table(t).fks : u \in Referred(fk)
                \/ \E fk \in Table(u).fks : t \in Referred(fk)

(* The join paths of the prompt: the foreign keys of the tables shown, and the columns named after *)
(* one of these tables that no foreign key starts at.                                              *)
Declared(t) == {fk.cols[1] : fk \in Table(t).fks}
Guesses(t, set) == {c \in columnsOf[t] \ Declared(t) :
                      \E u \in set : Table(u).name = Table(t).cols[c].base /\ Table(u).name # Table(t).name}
joinGraph(set) == LET Edges(t) == Cardinality(Table(t).fks) + Cardinality(Guesses(t, set)) IN MapThenSumSet(Edges, set)

(* Sizes: one table with some of its columns, and the whole text.                                  *)
columnChars(t, c) == {c} \X (1..Table(t).cols[c].size)
TableTokens(t, cols) == Table(t).head + Cardinality(UNION {columnChars(t, c) : c \in cols})
estimateTableTokens(t) == TableTokens(t, AllColumns(t))
formatCatalogForPrompt(set) ==
  LET Size(t) == TableTokens(t, columnsOf[t]) IN MapThenSumSet(Size, set) + schema.sections + joinGraph(set)

Most(a, b) == IF a > b THEN a ELSE b
Fewest(a, b) == IF a < b THEN a ELSE b
Minus(a, b) == IF a > b THEN a - b ELSE 0
TablesBudget == Most(LeastBudget, Minus(tokenCap, Reserve))
TrimBudget == Most(LeastTable, tokenCap \div Most(1, Cardinality(kept)))

PruneStart ==
  /\ tableCap = MaxTables /\ tokenCap = MaxTokens /\ shrunk = FALSE
  /\ stage = "start" /\ expanded = {} /\ frontier = {} /\ hop = 0 /\ left = {} /\ kept = {} /\ used = 0
  /\ toTrim = {} /\ columnsOf = [t \in Listed |-> AllColumns(t)] /\ dropped = 0 /\ strategy = "none"
PruneInit == schema \in Schemas /\ PruneStart

WholeFits == Cardinality(All) <= tableCap /\ formatCatalogForPrompt(All) <= tokenCap

(* The whole schema fits. Partitions are counted as dropped here, and only here. *)
SendWhole ==
  /\ stage = "start" /\ WholeFits
  /\ kept' = All /\ dropped' = Cardinality(Listed \ All) /\ strategy' = "none" /\ stage' = "done"
  /\ UNCHANGED <<schema, tableCap, tokenCap, shrunk, expanded, frontier, hop, left, used, toTrim, columnsOf>>

StartClosure ==
  /\ stage = "start" /\ ~WholeFits
  /\ expanded' = Seeds /\ frontier' = Seeds /\ hop' = 0 /\ stage' = "closure"
  /\ UNCHANGED <<schema, tableCap, tokenCap, shrunk, left, kept, used, toTrim, columnsOf, dropped, strategy>>

MoreHops == hop < 2 /\ Cardinality(expanded) < tableCap
Hop ==
  /\ stage = "closure" /\ MoreHops
  /\ LET next == {u \in All \ expanded : \E t \in frontier : Joined(t, u)}
     IN expanded' = expanded \cup next /\ frontier' = next
  /\ hop' = hop + 1
  /\ UNCHANGED <<schema, tableCap, tokenCap, shrunk, stage, left, kept, used, toTrim, columnsOf, dropped, strategy>>

RankCandidates ==
  /\ stage = "closure" /\ ~MoreHops
  /\ left' = IF expanded # {} THEN expanded ELSE {t \in All : Place(t) <= tableCap}
  /\ stage' = "fill"
  /\ UNCHANGED <<schema, tableCap, tokenCap, shrunk, expanded, frontier, hop, kept, used, toTrim, columnsOf,
                 dropped, strategy>>

(* The best table is kept whatever it costs; any other only if it still fits. *)
Full == Cardinality(kept) >= tableCap
Keep ==
  /\ stage = "fill" /\ left # {} /\ ~Full
  /\ \E t \in left : LET cost == estimateTableTokens(t) IN
        /\ Best(t, left) /\ left' = left \ {t}
        /\ \/ kept = {} /\ kept' = {t} /\ used' = used + Fewest(cost, TablesBudget \div 2)
           \/ kept # {} /\ used + cost <= TablesBudget /\ kept' = kept \cup {t} /\ used' = used + cost
           \/ kept # {} /\ used + cost > TablesBudget /\ UNCHANGED <<kept, used>>
  /\ UNCHANGED <<schema, tableCap, tokenCap, shrunk, stage, expanded, frontier, hop, toTrim, columnsOf, dropped,
                 strategy>>

Measure ==
  /\ stage = "fill" /\ (left = {} \/ Full)
  /\ toTrim' = (IF formatCatalogForPrompt(kept) > tokenCap THEN kept ELSE {}) /\ stage' = "trim"
  /\ UNCHANGED <<schema, tableCap, tokenCap, shrunk, expanded, frontier, hop, left, kept, used, columnsOf, dropped,
                 strategy>>

(* Mutant: only the keys the table declares itself are kept first.                                *)
OwnKeys(t) == {c \in AllColumns(t) : c \in Table(t).pk \/ \E fk \in Table(t).fks : \E i \in DOMAIN fk.cols : c = fk.cols[i]}

(* The columns to keep first: those of the table's keys, and those a foreign key of any table      *)
(* refers to by the table's name.                                                                  *)
keyNames(t) == OwnKeys(t) \cup
  {c \in AllColumns(t) : \E u \in All : \E fk \in Table(u).fks :
     fk.name = Table(t).name /\ \E i \in DOMAIN fk.refCols : c = fk.refCols[i]}
ColumnRank(t, c) == IF c \in keyNames(t) THEN 0 ELSE IF Table(t).cols[c].hit THEN 1 ELSE 2
UpTo(t, c) == {d \in AllColumns(t) : \/ ColumnRank(t, d) < ColumnRank(t, c)
                                      \/ (ColumnRank(t, d) = ColumnRank(t, c) /\ d <= c)}
(* The loop stops at the first column past MinColumns that the budget does not hold. *)
Overruns(t, c) == Cardinality(UpTo(t, c)) > MinColumns /\ TableTokens(t, UpTo(t, c)) > TrimBudget
trimColumns(t) ==
  IF estimateTableTokens(t) <= TrimBudget \/ Cardinality(AllColumns(t)) <= MinColumns THEN AllColumns(t)
  ELSE {c \in AllColumns(t) : \A d \in UpTo(t, c) : ~Overruns(t, d)}

TrimTable ==
  /\ stage = "trim"
  /\ \E t \in toTrim : toTrim' = toTrim \ {t} /\ columnsOf' = [columnsOf EXCEPT ![t] = trimColumns(t)]
  /\ UNCHANGED <<schema, tableCap, tokenCap, shrunk, stage, expanded, frontier, hop, left, kept, used, dropped,
                 strategy>>

(* What a trimmed table says of itself: "[n of m columns not shown]". *)
Marker(t) == Cardinality(AllColumns(t)) - Cardinality(columnsOf[t])
Trimmed(t) == columnsOf[t] # AllColumns(t)

Return ==
  /\ stage = "trim" /\ toTrim = {}
  /\ dropped' = Cardinality(All) - Cardinality(kept)
  /\ strategy' = IF \E t \in kept : Trimmed(t) THEN "budget-trim" ELSE "term-match+fk-closure"
  /\ stage' = "done"
  /\ UNCHANGED <<schema, tableCap, tokenCap, shrunk, expanded, frontier, hop, left, kept, used, toTrim, columnsOf>>

(* The model found the prompt too long: the schema is pruned again with half the limits.           *)
Shrink ==
  /\ stage = "done" /\ ~shrunk /\ shrunk' = TRUE /\ stage' = "start"
  /\ tableCap' = Most(ShrunkTables, Cardinality(kept) \div 2)
  /\ tokenCap' = Most(ShrunkTokens, MaxTokens \div 2)
  /\ kept' = {} /\ used' = 0 /\ left' = {} /\ expanded' = {} /\ frontier' = {} /\ hop' = 0
  /\ columnsOf' = [t \in Listed |-> AllColumns(t)]
  /\ UNCHANGED <<schema, toTrim, dropped, strategy>>

PruneNext == \/ SendWhole \/ StartClosure \/ Hop \/ RankCandidates \/ Keep \/ Measure \/ TrimTable \/ Return \/ Shrink
PruneSpec == PruneInit /\ [][PruneNext]_pruneVars

-----------------------------------------------------------------------------
(* The join of two tables of the prompt can be written from it: both ends of a foreign key between *)
(* them are shown, however their columns were trimmed, while a table has no more key columns than  *)
(* trimColumns keeps in any case.                                                                  *)
JoinsShown ==
  stage = "done" =>
    \A t, u \in kept : \A fk \in Table(t).fks :
      u \in Referred(fk) =>
        /\ Cardinality(keyNames(t)) <= MinColumns =>
             \A i \in DOMAIN fk.cols : fk.cols[i] \in AllColumns(t) => fk.cols[i] \in columnsOf[t]
        /\ Cardinality(keyNames(u)) <= MinColumns =>
             \A i \in DOMAIN fk.refCols : fk.refCols[i] \in AllColumns(u) => fk.refCols[i] \in columnsOf[u]

(* A table the question hits, or a foreign key or two away from one, is left out only for want of  *)
(* room: as many tables are kept, or reached, as may be, or it does not fit with those kept.       *)
Reach == {u \in All : \E s \in Seeds : \E t \in All : (t = s \/ Joined(s, t)) /\ (u = t \/ Joined(t, u))}
NoRoomWasted ==
  (stage = "done" /\ strategy # "none") =>
    \A t \in Reach \ kept : Full \/ Cardinality(expanded) >= tableCap \/ used + estimateTableTokens(t) > TablesBudget

(* The best table is always there, and the result tells what it leaves out: tables by its count,   *)
(* which ask() reports, columns by the marker of their table.                                      *)
LeftOutTold ==
  stage = "done" =>
    /\ \A t \in All : Best(t, All) => t \in kept
    /\ kept # All => dropped > 0
    /\ \A t \in kept : Trimmed(t) => Marker(t) > 0 /\ strategy = "budget-trim"

(* What the prompt's schema leaves out it can do without or tells.                                 *)
PruneSound == JoinsShown /\ NoRoomWasted /\ LeftOutTold
=============================================================================
