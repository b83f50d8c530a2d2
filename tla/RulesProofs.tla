----------------------------- MODULE RulesProofs -----------------------------
(***************************************************************************)
(* Proofs about what is computed from a schema and its rows, checked by    *)
(* the run of MCRules.  For every column, any number of cells and any      *)
(* keys, a hint is true of the rows it describes (ColumnHints); for any    *)
(* documents, no key that is data becomes the name of a column             *)
(* (MongoCatalog); for any schema and any budgets, the hint pass reaches   *)
(* every table, and what the catalog lacks it says it lacks                *)
(* (Introspection); for any question and any limits, the schema of a       *)
(* prompt can do without what it leaves out, or tells it (SchemaPrune).    *)
(***************************************************************************)
EXTENDS ColumnHints, MongoCatalog, Introspection, SchemaPrune, Stores,
        FiniteSetTheorems, SequenceTheorems, WellFoundedInduction, TLAPS

-----------------------------------------------------------------------------
(* ColumnHints *)

(* A column that has rows has a smallest magnitude.                        *)
LEMMA LeastMagnitude ==
  ASSUME NEW rows, rows \subseteq Magnitudes, rows # {}
  PROVE  Min(rows) \in rows /\ \A v \in rows : Min(rows) <= v
  <1>1. \E x \in rows : \A y \in rows : x <= y
    <2>0. \A x \in rows : x \in Nat /\ x \in {0, 1, 2, 3, 4, 5, 6}
      BY DEF Magnitudes
    <2>1. CASE 0 \in rows
      BY <2>0, <2>1
    <2>2. CASE 1 \in rows /\ 0 \notin rows
      BY <2>0, <2>2
    <2>3. CASE 2 \in rows /\ 0 \notin rows /\ 1 \notin rows
      BY <2>0, <2>3
    <2>4. CASE 3 \in rows /\ 0 \notin rows /\ 1 \notin rows /\ 2 \notin rows
      BY <2>0, <2>4
    <2>5. CASE 4 \in rows /\ 0 \notin rows /\ 1 \notin rows /\ 2 \notin rows /\ 3 \notin rows
      BY <2>0, <2>5
    <2>6. CASE 5 \in rows /\ 0 \notin rows /\ 1 \notin rows /\ 2 \notin rows /\ 3 \notin rows /\ 4 \notin rows
      BY <2>0, <2>6
    <2>7. CASE 6 \in rows /\ 0 \notin rows /\ 1 \notin rows /\ 2 \notin rows /\ 3 \notin rows /\ 4 \notin rows /\ 5 \notin rows
      BY <2>0, <2>7
    <2> QED BY <2>0, <2>1, <2>2, <2>3, <2>4, <2>5, <2>6, <2>7
  <1> QED BY <1>1 DEF Min

(* A column that has rows has a largest magnitude.                         *)
LEMMA GreatestMagnitude ==
  ASSUME NEW rows, rows \subseteq Magnitudes, rows # {}
  PROVE  Max(rows) \in rows /\ \A v \in rows : v <= Max(rows)
  <1>1. \E x \in rows : \A y \in rows : x >= y
    <2>0. \A x \in rows : x \in Nat /\ x \in {0, 1, 2, 3, 4, 5, 6}
      BY DEF Magnitudes
    <2>1. CASE 6 \in rows
      BY <2>0, <2>1
    <2>2. CASE 5 \in rows /\ 6 \notin rows
      BY <2>0, <2>2
    <2>3. CASE 4 \in rows /\ 6 \notin rows /\ 5 \notin rows
      BY <2>0, <2>3
    <2>4. CASE 3 \in rows /\ 6 \notin rows /\ 5 \notin rows /\ 4 \notin rows
      BY <2>0, <2>4
    <2>5. CASE 2 \in rows /\ 6 \notin rows /\ 5 \notin rows /\ 4 \notin rows /\ 3 \notin rows
      BY <2>0, <2>5
    <2>6. CASE 1 \in rows /\ 6 \notin rows /\ 5 \notin rows /\ 4 \notin rows /\ 3 \notin rows /\ 2 \notin rows
      BY <2>0, <2>6
    <2>7. CASE 0 \in rows /\ 6 \notin rows /\ 5 \notin rows /\ 4 \notin rows /\ 3 \notin rows /\ 2 \notin rows /\ 1 \notin rows
      BY <2>0, <2>7
    <2> QED BY <2>0, <2>1, <2>2, <2>3, <2>4, <2>5, <2>6, <2>7
  <1> DEFINE top == CHOOSE x \in rows : \A y \in rows : x >= y
  <1>2. top \in rows /\ \A y \in rows : top >= y
    BY <1>1
  <1>3. \A y \in rows : y <= top
    BY <1>2 DEF Magnitudes
  <1> QED BY <1>2, <1>3 DEF Max

(* The unit of a column whose ends share it is the unit of every row.      *)
LEMMA UnitOfAll ==
  ASSUME NEW rows, rows \subseteq Magnitudes, Sentinel \notin rows,
         "unit" \in DOMAIN MomentHint(rows)
  PROVE  \A v \in rows : v = MomentHint(rows).unit
  <1>1. "unit" \notin DOMAIN None
    BY DEF None
  <1>2. rows # {} /\ epochUnitOf(Min(rows), Max(rows)) # 0
        /\ MomentHint(rows) = [unit |-> epochUnitOf(Min(rows), Max(rows))]
    BY <1>1 DEF MomentHint
  <1> DEFINE lo == Min(rows)
             hi == Max(rows)
  <1>3. lo \in rows /\ hi \in rows /\ \A v \in rows : lo <= v /\ v <= hi
    BY <1>2, LeastMagnitude, GreatestMagnitude
  <1>4. MomentHint(rows).unit = epochUnitOf(lo, hi) /\ epochUnitOf(lo, hi) # 0
    BY <1>2
  <1>5. hi # Sentinel /\ lo # Sentinel /\ lo \in Magnitudes /\ hi \in Magnitudes
    BY <1>3
  <1> HIDE DEF lo, hi
  <1>6. bucketOf(lo) # 0 /\ bucketOf(lo) = bucketOf(hi) /\ epochUnitOf(lo, hi) = bucketOf(lo)
    BY <1>4, <1>5 DEF epochUnitOf
  <1>7. lo = hi /\ bucketOf(lo) = lo
    BY <1>5, <1>6 DEF bucketOf, Magnitudes, Sentinel
  <1>8. \A v \in rows : v = lo
    BY <1>3, <1>5, <1>7 DEF Magnitudes
  <1> QED BY <1>4, <1>6, <1>7, <1>8

(* The type stated for the elements of a column's arrays is that of all.   *)
LEMMA ElementOfAll ==
  ASSUME NEW vals, "element" \in DOMAIN jsonArrayElementOf(vals)
  PROVE  \A i \in DOMAIN vals : vals[i].elements \subseteq {jsonArrayElementOf(vals).element}
  <1> DEFINE types == UNION {vals[i].elements : i \in DOMAIN vals}
  <1>1. "element" \notin DOMAIN None
    BY DEF None
  <1>2. PICK t \in {"number", "string"} : types = {t}
    BY <1>1 DEF jsonArrayElementOf
  <1>3. jsonArrayElementOf(vals) = [element |-> CHOOSE u \in types : TRUE]
    BY <1>1, <1>2 DEF jsonArrayElementOf
  <1>4. (CHOOSE u \in types : TRUE) = t
    BY <1>2
  <1>5. jsonArrayElementOf(vals).element = t
    BY <1>3, <1>4
  <1>6. \A i \in DOMAIN vals : vals[i].elements \subseteq types
    OBVIOUS
  <1> QED BY <1>2, <1>5, <1>6

(* The keys a JSON column is said to have recur in its rows.               *)
LEMMA ShapeRecurs ==
  ASSUME NEW vals, jsonShapeOf(vals) # None
  PROVE  \A k \in jsonShapeOf(vals).keys : Seen(vals, k) >= 2
  <1> DEFINE stable == {k \in Keys : Recurs(vals, k)}
  <1>1. jsonShapeOf(vals) =
          [keys |-> IF Len(vals) >= 3 /\ Cardinality(stable) \in 2..MaxKeys THEN stable ELSE {}]
    BY DEF jsonShapeOf
  <1>2. jsonShapeOf(vals).keys \subseteq stable
    BY <1>1
  <1> QED BY <1>2 DEF Recurs

(* What the probe of a text column says is true of its cells.              *)
LEMMA TextTrue ==
  ASSUME NEW vals, NEW named \in BOOLEAN
  PROVE  LET h == TextHint(vals, named)
         IN /\ "unit" \notin DOMAIN h
            /\ "names" \in DOMAIN h => named /\ \A k \in h.names : Seen(vals, k) >= 2
            /\ "element" \in DOMAIN h => \A i \in DOMAIN vals : vals[i].elements \subseteq {h.element}
  <1> DEFINE shape == jsonShapeOf(vals)
  <1>1. CASE shape # None /\ named
    <2>1. TextHint(vals, named) = [names |-> shape.keys]
      BY <1>1 DEF TextHint, jsonHint
    <2>2. \A k \in shape.keys : Seen(vals, k) >= 2
      BY <1>1, ShapeRecurs
    <2> DEFINE ks == shape.keys
    <2>3. \A k \in ks : Seen(vals, k) >= 2
      BY <2>2
    <2> HIDE DEF shape, ks
    <2>4. DOMAIN [names |-> ks] = {"names"} /\ [names |-> ks].names = ks
      OBVIOUS
    <2>5. TextHint(vals, named) = [names |-> ks]
      BY <2>1 DEF ks
    <2> QED BY <1>1, <2>3, <2>4, <2>5
  <1>2. CASE shape # None /\ ~named
    <2>1. TextHint(vals, named) = [count |-> Cardinality(shape.keys)]
      BY <1>2 DEF TextHint, jsonHint
    <2> HIDE DEF shape
    <2> QED BY <2>1
  <1>3. CASE shape = None
    <2>1. TextHint(vals, named) = jsonArrayElementOf(vals)
      BY <1>3 DEF TextHint
    <2>2. jsonArrayElementOf(vals) = None \/ \E t : jsonArrayElementOf(vals) = [element |-> t]
      BY DEF jsonArrayElementOf
    <2>3. "unit" \notin DOMAIN jsonArrayElementOf(vals) /\ "names" \notin DOMAIN jsonArrayElementOf(vals)
      BY <2>2 DEF None
    <2> QED BY <2>1, <2>3, ElementOfAll
  <1> QED BY <1>1, <1>2, <1>3

(* What is said of a column is nothing, or what its probe computes.        *)
HintInv ==
  /\ cells \in ColumnCells /\ nameKeys \in BOOLEAN
  /\ \/ hint \in {NotProbed, None}
     \/ "moment" \in DOMAIN cells /\ hint = MomentHint(cells.moment)
     \/ "moment" \notin DOMAIN cells /\ hint = TextHint(cells.text, nameKeys)

(* THEOREM: a hint is true of every row its probe stood for, whatever the  *)
(* column holds.                                                           *)
THEOREM HintsCorrect == HintSpec => []HintsTrue
  <1>1. HintInit => HintInv
    BY DEF HintInit, HintInv
  <1>2. HintInv /\ [HintNext]_hintVars => HintInv'
    BY DEF HintInv, HintNext, Describe, hintVars
  <1>3. HintInv => HintsTrue
    <2> SUFFICES ASSUME HintInv PROVE HintsTrue
      OBVIOUS
    <2>1. CASE hint \in {NotProbed, None}
      BY <2>1 DEF HintsTrue, NotProbed, None
    <2>2. CASE "moment" \in DOMAIN cells /\ hint = MomentHint(cells.moment)
      <3>1. cells.moment \subseteq Magnitudes
        <4>1. cells \in [moment : SUBSET Magnitudes]
          BY <2>2 DEF HintInv, ColumnCells
        <4> QED BY <4>1
      <3>2. hint = None \/ \E u : hint = [unit |-> u]
        BY <2>2 DEF MomentHint
      <3>3. "names" \notin DOMAIN hint /\ "element" \notin DOMAIN hint
        BY <3>2 DEF None
      <3>4. ("unit" \in DOMAIN hint /\ Sentinel \notin cells.moment) => \A v \in cells.moment : v = hint.unit
        BY <2>2, <3>1, UnitOfAll
      <3> QED BY <3>3, <3>4 DEF HintsTrue
    <2>3. CASE "moment" \notin DOMAIN cells /\ hint = TextHint(cells.text, nameKeys)
      BY <2>3, TextTrue DEF HintInv, HintsTrue, Seen
    <2> QED BY <2>1, <2>2, <2>3 DEF HintInv
  <1> QED BY <1>1, <1>2, <1>3, PTL DEF HintSpec

-----------------------------------------------------------------------------
(* MongoCatalog *)

(* Where each path was last seen is where a document of the sample has it, *)
(* and the IDE has counted every object it went into.                      *)
WalkedTruly ==
  /\ sample \in Seq(Documents)
  /\ DOMAIN stats \subseteq DOMAIN parentOf
  /\ \A t \in DOMAIN parentOf : \E v \in SampledVisits : Text(v) = t /\ v.prefix = parentOf[t]
  /\ impl = "ide" => \A t \in DOMAIN parentOf : parentOf[t] \in DOMAIN stats \cup {<<>>}

NamesInv ==
  /\ WalkedTruly
  /\ NamesAreFields
  /\ samplePhase = "sampling" => fieldColumns = {}

(* What a longer sample holds: the keys it held and those of the document. *)
LEMMA SampledAfter ==
  ASSUME NEW doc \in Documents, sample \in Seq(Documents), sample' = Append(sample, doc)
  PROVE  SampledVisits' = SampledVisits \cup doc /\ sample' \in Seq(Documents)
  <1>1. sample' \in Seq(Documents)
    OBVIOUS
  <1>2. DOMAIN sample' = DOMAIN sample \cup {Len(sample) + 1}
    OBVIOUS
  <1>3. sample'[Len(sample) + 1] = doc /\ \A i \in DOMAIN sample : sample'[i] = sample[i]
    OBVIOUS
  <1> QED BY <1>1, <1>2, <1>3 DEF SampledVisits

(* A walk of a document keeps the record of where paths were seen true.    *)
LEMMA WalkStep ==
  ASSUME WalkedTruly, NEW doc \in Documents, WalkDocument(doc)
  PROVE  WalkedTruly'
  <1>1. PICK counted \in SUBSET (Texts(doc) \ DOMAIN stats) :
          \E walked \in Walks(doc, counted \cup DOMAIN stats) :
            /\ Fits(walked, counted)
            /\ stats' = [t \in DOMAIN stats \cup counted |-> Count(walked, t)]
            /\ \E last \in [Texts(walked) -> walked] :
                 (\A t \in Texts(walked) : Text(last[t]) = t) /\ parentOf' = ParentsAfter(last)
    BY DEF WalkDocument
  <1>2. PICK walked \in Walks(doc, counted \cup DOMAIN stats) :
            /\ Fits(walked, counted)
            /\ stats' = [t \in DOMAIN stats \cup counted |-> Count(walked, t)]
            /\ \E last \in [Texts(walked) -> walked] :
                 (\A t \in Texts(walked) : Text(last[t]) = t) /\ parentOf' = ParentsAfter(last)
    BY <1>1
  <1>3. PICK last \in [Texts(walked) -> walked] :
            (\A t \in Texts(walked) : Text(last[t]) = t) /\ parentOf' = ParentsAfter(last)
    BY <1>2
  <1>4. walked \subseteq doc
    BY <1>2 DEF Walks
  <1>5. SampledVisits' = SampledVisits \cup doc /\ sample' \in Seq(Documents)
    BY SampledAfter DEF WalkedTruly, WalkDocument
  <1>6. DOMAIN stats' = DOMAIN stats \cup counted
    BY <1>2
  <1>7. counted \subseteq Texts(walked)
    BY <1>2 DEF Fits
  <1>8. DOMAIN parentOf' = DOMAIN parentOf \cup Texts(walked)
    BY <1>3 DEF ParentsAfter
  <1>9. \A t \in Texts(walked) : parentOf'[t] = last[t].prefix /\ last[t] \in walked /\ Text(last[t]) = t
    BY <1>3 DEF ParentsAfter
  <1>10. \A t \in DOMAIN parentOf \ Texts(walked) : parentOf'[t] = parentOf[t]
    BY <1>3 DEF ParentsAfter
  <1>11. (DOMAIN stats \subseteq DOMAIN parentOf)'
    BY <1>6, <1>7, <1>8 DEF WalkedTruly
  <1>12. \A t \in DOMAIN parentOf' : \E v \in SampledVisits' : Text(v) = t /\ v.prefix = parentOf'[t]
    <2> TAKE t \in DOMAIN parentOf'
    <2>1. CASE t \in Texts(walked)
      BY <2>1, <1>4, <1>5, <1>9
    <2>2. CASE t \notin Texts(walked)
      <3>1. t \in DOMAIN parentOf /\ parentOf'[t] = parentOf[t]
        BY <2>2, <1>8, <1>10
      <3> QED BY <3>1, <1>5 DEF WalkedTruly
    <2> QED BY <2>1, <2>2
  <1>13. ASSUME impl' = "ide", NEW t \in DOMAIN parentOf'
         PROVE  parentOf'[t] \in DOMAIN stats' \cup {<<>>}
    <2>0. impl = "ide"
      BY <1>13 DEF WalkDocument
    <2>1. CASE t \in Texts(walked)
      <3>1. walked = {v \in doc : v.prefix = <<>> \/ v.prefix \in (counted \cup DOMAIN stats) \cap Texts(walked)}
        BY <2>0, <1>2 DEF Walks
      <3>2. last[t] \in walked /\ parentOf'[t] = last[t].prefix
        BY <2>1, <1>9
      <3>3. last[t].prefix \in counted \cup DOMAIN stats \cup {<<>>}
        BY <3>1, <3>2
      <3> QED BY <3>2, <3>3, <1>6
    <2>2. CASE t \notin Texts(walked)
      <3>1. t \in DOMAIN parentOf /\ parentOf'[t] = parentOf[t]
        BY <2>2, <1>8, <1>10
      <3> QED BY <3>1, <2>0, <1>6 DEF WalkedTruly
    <2> QED BY <2>1, <2>2
  <1> QED BY <1>5, <1>11, <1>12, <1>13 DEF WalkedTruly

(* A key of a walk is a text longer than its prefix, by itself.            *)
LEMMA TextParts ==
  ASSUME NEW v \in Visits
  PROVE  /\ v.prefix \in Seq(AnyAtom) /\ v.key \in Seq(AnyAtom) /\ Text(v) \in Seq(AnyAtom)
         /\ Segment(v.prefix, Text(v)) = v.key
         /\ IsPrefix(v.prefix, Text(v))
  <1>1. v.prefix \in Seq(AnyAtom) /\ v.key \in Seq(AnyAtom)
    BY DEF Visits
  <1> DEFINE p == v.prefix
             k == v.key
  <1>2. p \in Seq(AnyAtom) /\ k \in Seq(AnyAtom) /\ Text(v) = p \o k
    BY <1>1 DEF Text
  <1> HIDE DEF p, k
  <1>3. p \o k \in Seq(AnyAtom) /\ Len(p \o k) = Len(p) + Len(k)
    BY <1>2
  <1>4. SubSeq(p \o k, Len(p) + 1, Len(p \o k)) = k
    BY <1>2, <1>3
  <1>5. IsPrefix(p, p \o k)
    BY <1>2, <1>3 DEF IsPrefix
  <1> QED BY <1>2, <1>3, <1>4, <1>5 DEF Segment, p, k

(* A text that starts with a prefix starts with what that starts with.     *)
LEMMA PrefixOfPrefix ==
  ASSUME NEW a \in Seq(AnyAtom), NEW b \in Seq(AnyAtom), NEW c \in Seq(AnyAtom), IsPrefix(a, b), IsPrefix(b, c)
  PROVE  IsPrefix(a, c)
  <1>1. Len(a) <= Len(b) /\ Len(b) <= Len(c)
    BY DEF IsPrefix
  <1>2. \A i \in 1 .. Len(a) : a[i] = b[i]
    BY DEF IsPrefix
  <1>3. \A i \in 1 .. Len(b) : b[i] = c[i]
    BY DEF IsPrefix
  <1> QED BY <1>1, <1>2, <1>3 DEF IsPrefix

(* A column is a field of the root or of a column, in some document.       *)
LEMMA ColumnIsField ==
  ASSUME WalkedTruly, impl = "ide" \/ ParentsCounted, NEW c \in buildColumns
  PROVE  \E v \in SampledVisits : Text(v) = c /\ FieldKey(v.key) /\ v.prefix \in buildColumns \cup {<<>>}
  <1> USE MongoCatalogAssumption
  <1>1. c \in DOMAIN stats /\ ~\E k \in mapShapedPaths : IsPrefix(k, c)
    BY DEF buildColumns
  <1>2. PICK v \in SampledVisits : Text(v) = c /\ v.prefix = parentOf[c]
    BY <1>1 DEF WalkedTruly
  <1>3. \A w \in SampledVisits : w \in Visits
    <2> TAKE w \in SampledVisits
    <2>1. PICK i \in DOMAIN sample : w \in sample[i]
      BY DEF SampledVisits
    <2>2. sample[i] \in Documents
      BY <2>1 DEF WalkedTruly
    <2> QED BY <2>1, <2>2 DEF MongoCatalogAssumption
  <1> DEFINE parent == parentOf[c]
  <1>4. parent \in DOMAIN stats \cup {<<>>}
    BY <1>1 DEF WalkedTruly, ParentsCounted, ParentOf
  <1>5. c \in Children(parent) /\ parent \in Parents
    BY <1>1 DEF Children, Parents, ParentOf
  <1>6. IsPrefix(c, c)
    <2>1. c \in Seq(AnyAtom)
      BY <1>2, <1>3, TextParts
    <2> QED BY <2>1 DEF IsPrefix
  <1>7. c \notin Collapsed(parent)
    BY <1>1, <1>5, <1>6 DEF mapShapedPaths
  <1>8. IsField(parent, c)
    <2>1. CASE c \notin DataChildren(parent)
      BY <2>1, <1>5 DEF DataChildren
    <2>2. CASE c \in DataChildren(parent)
      BY <2>2, <1>4, <1>7 DEF Collapsed
    <2> QED BY <2>1, <2>2
  <1>9. FieldKey(v.key)
    BY <1>2, <1>3, <1>8, TextParts DEF IsField
  <1>10. CASE parent \in DOMAIN stats
    <2>1. \A k \in mapShapedPaths : ~IsPrefix(k, parent)
      <3> SUFFICES ASSUME NEW k \in mapShapedPaths, IsPrefix(k, parent) PROVE FALSE
        OBVIOUS
      <3>1. k \in DOMAIN stats
        BY DEF mapShapedPaths, Collapsed, DataChildren, Children
      <3>2. k \in Seq(AnyAtom)
        <4>1. PICK w \in SampledVisits : Text(w) = k
          BY <3>1 DEF WalkedTruly
        <4> QED BY <4>1, <1>3, TextParts
      <3>3. parent \in Seq(AnyAtom) /\ c \in Seq(AnyAtom) /\ IsPrefix(parent, c)
        BY <1>2, <1>3, TextParts
      <3>4. IsPrefix(k, c)
        BY <3>2, <3>3, PrefixOfPrefix
      <3> QED BY <3>4, <1>1
    <2>2. parent \in buildColumns
      BY <2>1, <1>10 DEF buildColumns
    <2> QED BY <2>2, <1>2, <1>9
  <1>11. CASE parent = <<>>
    BY <1>11, <1>2, <1>9
  <1> QED BY <1>4, <1>10, <1>11

(* THEOREM: no key that is data becomes a column name, whatever the        *)
(* documents, whichever keys hold dots and wherever the caps cut.          *)
THEOREM NamesCorrect == MongoSpec => []NamesAreFields
  <1>1. MongoInit => NamesInv
    <2> SUFFICES ASSUME MongoInit PROVE NamesInv
      OBVIOUS
    <2>1. sample \in Seq(Documents)
      BY DEF MongoInit
    <2>2. DOMAIN stats = {} /\ DOMAIN parentOf = {}
      BY DEF MongoInit
    <2> QED BY <2>1, <2>2 DEF MongoInit, NamesInv, WalkedTruly, NamesAreFields
  <1>2. NamesInv /\ [MongoNext]_mongoVars => NamesInv'
    <2> SUFFICES ASSUME NamesInv, [MongoNext]_mongoVars PROVE NamesInv'
      OBVIOUS
    <2>1. ASSUME NEW doc \in Documents, WalkDocument(doc) PROVE NamesInv'
      <3>1. fieldColumns' = {}
        BY <2>1 DEF NamesInv, WalkDocument
      <3>2. WalkedTruly'
        BY <2>1, WalkStep DEF NamesInv
      <3>3. samplePhase' = samplePhase
        BY <2>1 DEF WalkDocument
      <3> QED BY <3>1, <3>2, <3>3 DEF NamesInv, NamesAreFields
    <2>2. ASSUME UNCHANGED <<impl, sample, stats, parentOf>>
          PROVE  WalkedTruly' /\ SampledVisits' = SampledVisits /\ ParentsCounted' = ParentsCounted
      <3>1. SampledVisits' = SampledVisits
        BY <2>2 DEF SampledVisits
      <3>2. WalkedTruly'
        BY <2>2, <3>1 DEF NamesInv, WalkedTruly
      <3>3. ParentsCounted' = ParentsCounted
        BY <2>2 DEF ParentsCounted, ParentOf
      <3> QED BY <3>1, <3>2, <3>3
    <2>3. CASE InferColumns
      <3>1. WalkedTruly' /\ SampledVisits' = SampledVisits /\ ParentsCounted' = ParentsCounted
        BY <2>2, <2>3 DEF InferColumns
      <3>2. fieldColumns' = buildColumns /\ impl' = impl /\ samplePhase' = "done"
        BY <2>3 DEF InferColumns
      <3>3. NamesAreFields'
        BY <3>1, <3>2, ColumnIsField DEF NamesInv, NamesAreFields
      <3> QED BY <3>1, <3>2, <3>3 DEF NamesInv
    <2>4. ASSUME UNCHANGED <<impl, sample, stats, parentOf, fieldColumns>>,
                 samplePhase' = "sampling" => samplePhase = "sampling"
          PROVE  NamesInv'
      <3>1. WalkedTruly' /\ SampledVisits' = SampledVisits /\ ParentsCounted' = ParentsCounted
        BY <2>2, <2>4
      <3>2. NamesAreFields'
        BY <3>1, <2>4 DEF NamesInv, NamesAreFields
      <3> QED BY <3>1, <3>2, <2>4 DEF NamesInv
    <2>5. CASE SampleFails
      BY <2>4, <2>5 DEF SampleFails
    <2>6. CASE UNCHANGED mongoVars
      BY <2>4, <2>6 DEF mongoVars
    <2> QED BY <2>1, <2>3, <2>5, <2>6 DEF MongoNext
  <1>3. NamesInv => NamesAreFields
    BY DEF NamesInv
  <1> QED BY <1>1, <1>2, <1>3, PTL DEF MongoSpec
-----------------------------------------------------------------------------
(* Introspection *)

(* What the hint pass still has to go through, what it may spend on one    *)
(* table, and when a table is being probed or has been.                    *)
Share == hintProbesPerTable(Objects)
Ahead == tablesLeft \cup objectsLeft
Planned == phase # "sections" /\ "master" \notin failed
ToDescribe(o) == ~ReadsAsView(o) /\ HintColumns(o) # {}
AtHand(o) ==
  phase = "hints" /\ current = o /\ columnsLeft = HintColumns(o) /\ tableBudget > 0
Described(o) == \E c \in DOMAIN Columns(o) : <<o, c>> \in probed

(* The values of the variables that the argument rests on.                 *)
ScanTypes ==
  /\ engine \in {"postgres", "mysql", "oracle", "sqlite", "duckdb"} /\ db \in Databases
  /\ hintBudget \in Nat /\ tableBudget \in Nat
  /\ tablesLeft \subseteq Relations /\ objectsLeft \subseteq Relations
  /\ IsFiniteSet(probed)

(* What the loops hold in each phase of the read.                          *)
ScanStages ==
  /\ phase = "sections" => hintBudget = MaxProbes /\ tableBudget = 0 /\ Ahead = {}
  /\ engine = "sqlite" => phase \in {"sections", "objects", "hints", "samples", "done"}
  /\ engine = "sqlite" /\ phase \in {"objects", "samples"} => tablesLeft = {}
  /\ engine # "sqlite" => objectsLeft = {} /\ phase # "objects"
  /\ tablesLeft \cap objectsLeft = {}
  /\ session = "aborted" => phase = "samples"
  /\ phase = "done" /\ "master" \notin failed => Ahead = {}

(* Every probe made was charged, a table's budget is part of the whole,    *)
(* and no probe ran in an aborted transaction.                             *)
ScanBooks ==
  /\ Cardinality(probed) + hintBudget <= MaxProbes
  /\ tableBudget <= hintBudget
  /\ \A j \in lost : j[1] # "probe"

(* The budget keeps a share for every table still ahead.                   *)
ScanReserve == Planned /\ Objects <= MaxProbes => tableBudget + Share * Cardinality(Ahead) <= hintBudget

(* No table to describe falls out of the loops undescribed.                *)
ScanCovers ==
  Planned /\ Objects <= MaxProbes =>
    \A o \in Tables : ToDescribe(o) => o \in Ahead \/ AtHand(o) \/ Described(o)

(* A failed section has its warning, DuckDB's view list apart.             *)
ScanTold ==
  /\ failed \subseteq warned \cup {"views", "master"}
  /\ skipped # {} => warned # {}

ScanInv == ScanTypes /\ ScanStages /\ ScanBooks /\ ScanReserve /\ ScanCovers /\ ScanTold

(* A product grows with its factors.                                       *)
LEMMA ProductMonotone ==
  ASSUME NEW a \in Nat, NEW b \in Nat, NEW c \in Nat, NEW e \in Nat, a <= c, b <= e
  PROVE  a * b <= c * e
  <1>1. PICK k \in Nat : c = a + k
    <2>1. c - a \in Nat /\ c = a + (c - a)
      OBVIOUS
    <2> QED BY <2>1
  <1>2. PICK l \in Nat : e = b + l
    <2>1. e - b \in Nat /\ e = b + (e - b)
      OBVIOUS
    <2> QED BY <2>1
  <1>3. c * e = a * b + a * l + k * b + k * l
    BY <1>1, <1>2
  <1>4. a * b \in Nat /\ a * l \in Nat /\ k * b \in Nat /\ k * l \in Nat
    OBVIOUS
  <1> QED BY <1>3, <1>4

(* The share of a table is at least one probe, ...                         *)
LEMMA ShareType ==
  ASSUME NEW n \in Nat
  PROVE  hintProbesPerTable(n) \in Nat /\ hintProbesPerTable(n) >= 1
  <1>1. MaxProbes \in Nat /\ PerTable \in Nat
    BY IntrospectionAssumption
  <1>2. MaxProbes \div (IF n = 0 THEN 1 ELSE n) \in Nat
    BY <1>1
  <1> QED BY <1>1, <1>2 DEF hintProbesPerTable, Least

(* ... and the shares of as many tables as the catalog lists fit into the  *)
(* whole budget.                                                           *)
LEMMA ShareFits ==
  ASSUME NEW n \in Nat, NEW m \in Nat, m <= n, n <= MaxProbes
  PROVE  hintProbesPerTable(n) * m <= MaxProbes
  <1> DEFINE d == IF n = 0 THEN 1 ELSE n
             f == MaxProbes \div d
             s == hintProbesPerTable(n)
  <1>1. MaxProbes \in Nat /\ PerTable \in Nat
    BY IntrospectionAssumption
  <1>2. d \in Nat /\ d >= 1 /\ m <= d /\ (n # 0 => d <= MaxProbes)
    OBVIOUS
  <1>3. f \in Nat /\ d * f <= MaxProbes /\ (d <= MaxProbes => f >= 1)
    BY <1>1, <1>2
  <1>4. s = (IF Least(PerTable, f) = 0 THEN 1 ELSE Least(PerTable, f))
    BY DEF hintProbesPerTable
  <1>5. s \in Nat /\ s >= 1
    BY ShareType
  <1>6. CASE n = 0
    <2>1. m = 0
      BY <1>6
    <2> HIDE DEF s
    <2>2. s * m = 0
      BY <2>1, <1>5
    <2> QED BY <2>2, <1>1 DEF s
  <1>7. CASE n # 0
    <2>1. s <= f
      BY <1>1, <1>2, <1>3, <1>4, <1>7 DEF Least
    <2> HIDE DEF s, f, d
    <2>2. s * m <= f * d
      BY <2>1, <1>2, <1>3, <1>5, ProductMonotone
    <2>3. f * d <= MaxProbes
      BY <1>2, <1>3
    <2>4. s * m \in Nat /\ f * d \in Nat
      BY <1>2, <1>3, <1>5
    <2>5. s * m <= MaxProbes
      BY <2>2, <2>3, <2>4, <1>1
    <2> QED BY <2>5 DEF s
  <1> QED BY <1>6, <1>7

(* The objects of a database are numbered, and finitely many.              *)
LEMMA ObjectsFinite ==
  ASSUME ScanTypes
  PROVE  /\ Len(db) \in Nat
         /\ \A S \in SUBSET DOMAIN db : IsFiniteSet(S) /\ Cardinality(S) \in Nat /\ Cardinality(S) <= Len(db)
  <1>1. Len(db) \in Nat /\ DOMAIN db = 1..Len(db)
    BY IntrospectionAssumption DEF ScanTypes
  <1>2. \A n \in Nat : IsFiniteSet(1..n) /\ Cardinality(1..n) = n
    BY FS_Interval
  <1>3. ASSUME NEW S \in SUBSET DOMAIN db
        PROVE  IsFiniteSet(S) /\ Cardinality(S) \in Nat /\ Cardinality(S) <= Len(db)
    BY <1>1, <1>2, FS_Subset, FS_CardinalityType
  <1> QED BY <1>1, <1>3

(* The catalog lists tables and views only, and counts at least the ones   *)
(* it lists.                                                               *)
LEMMA TablesCounted ==
  ASSUME ScanTypes
  PROVE  /\ Tables \subseteq Relations /\ Relations \subseteq DOMAIN db
         /\ Objects \in Nat
         /\ \A S \in SUBSET Tables : Cardinality(S) <= Objects
         /\ engine = "sqlite" => \A S \in SUBSET Relations : Cardinality(S) <= Objects
  <1>1. Relations \subseteq DOMAIN db
    BY DEF Relations
  <1>2. Tables \subseteq Relations
    BY DEF Tables, PgTables, MyTables, OraTables, DuckTables, SqliteTables, ScanTypes
  <1>3. CASE engine = "sqlite"
    BY <1>1, <1>2, <1>3, ObjectsFinite DEF Objects
  <1>4. CASE engine # "sqlite"
    <2>1. IsFiniteSet(Tables) /\ Cardinality(Tables) \in Nat
      BY <1>1, <1>2, ObjectsFinite
    <2>2. \A S \in SUBSET Tables : Cardinality(S) <= Cardinality(Tables)
      BY <2>1, FS_Subset
    <2> QED BY <1>1, <1>2, <1>4, <2>1, <2>2 DEF Objects
  <1> QED BY <1>3, <1>4

(* What the catalog holds depends on the database and on the sections that *)
(* failed only; ...                                                        *)
LEMMA CatalogKept ==
  ASSUME UNCHANGED <<engine, db, failed>>
  PROVE  /\ Relations' = Relations
         /\ \A o : Columns(o)' = Columns(o)
         /\ \A o : HintColumns(o)' = HintColumns(o)
         /\ \A o : ToDescribe(o)' <=> ToDescribe(o)
  <1>1. Relations' = Relations
    BY DEF Relations
  <1>2. \A o : Columns(o)' = Columns(o)
    BY DEF Columns, NoOwner
  <1>3. \A o : HintColumns(o)' = HintColumns(o)
    BY <1>2 DEF HintColumns, Candidate, Noted
  <1>4. \A o : ReadsAsView(o)' <=> ReadsAsView(o)
    BY DEF ReadsAsView
  <1>5. \A o : ToDescribe(o)' <=> ToDescribe(o)
    BY <1>3, <1>4 DEF ToDescribe
  <1> QED BY <1>1, <1>2, <1>3, <1>5

(* ... which tables it lists, on the objects passed over as well.          *)
LEMMA TablesKept ==
  ASSUME UNCHANGED <<engine, db, failed, skipped>>
  PROVE  Tables' = Tables /\ Objects' = Objects /\ Share' = Share
  <1>1. Relations' = Relations
    BY CatalogKept
  <1>2. Tables' = Tables
    BY <1>1 DEF Tables, PgTables, MyTables, OraTables, DuckTables, SqliteTables, NoOwner
  <1>3. Objects' = Objects
    BY <1>2 DEF Objects
  <1>4. Share' = Share
    BY <1>3 DEF Share, hintProbesPerTable, Least
  <1> QED BY <1>2, <1>3, <1>4

(* A step that moves on without taking anything from the hint pass keeps   *)
(* the invariant, if it leaves no table half probed.                       *)
LEMMA ScanMovesOn ==
  ASSUME ScanInv, UNCHANGED <<engine, db, failed, warned, skipped, objectsLeft, tablesLeft, current,
                              hintBudget, tableBudget, probed>>,
         phase # "sections", phase' # "sections",
         phase # "hints" \/ TableDone,
         ScanStages', \A j \in lost' : j[1] # "probe"
  PROVE  ScanInv'
  <1> USE DEF ScanInv
  <1>1. /\ Relations' = Relations /\ Tables' = Tables /\ Objects' = Objects /\ Share' = Share
        /\ \A o : Columns(o)' = Columns(o)
        /\ \A o : HintColumns(o)' = HintColumns(o)
        /\ \A o : ToDescribe(o)' <=> ToDescribe(o)
    BY CatalogKept, TablesKept
  <1>2. ScanTypes'
    BY <1>1 DEF ScanTypes
  <1>3. ScanBooks'
    BY DEF ScanBooks
  <1>4. Ahead' = Ahead /\ (Planned' <=> Planned)
    BY DEF Ahead, Planned
  <1>5. ScanReserve'
    BY <1>1, <1>4 DEF ScanReserve
  <1>6. \A o : Described(o)' <=> Described(o)
    BY <1>1 DEF Described
  <1>7. \A o : ToDescribe(o) => ~AtHand(o)
    BY DEF AtHand, ToDescribe, TableDone
  <1>8. ScanCovers'
    BY <1>1, <1>4, <1>6, <1>7 DEF ScanCovers
  <1>9. ScanTold'
    BY DEF ScanTold
  <1> QED BY <1>2, <1>3, <1>5, <1>8, <1>9

(* The sections: nothing is planned before the last of them.               *)
LEMMA ReadSectionKeeps ==
  ASSUME ScanInv, ReadSection
  PROVE  ScanInv'
  <1> DEFINE s == Head(unread)
  <1> USE DEF ScanInv
  <1>1. /\ phase = "sections"
        /\ UNCHANGED <<engine, db, skipped, session, objectsLeft, tablesLeft, hintBudget, tableBudget, probed, lost>>
        /\ phase' = "sections" \/ (phase' = "done" /\ "master" \in failed')
        /\ \/ UNCHANGED <<failed, warned>>
           \/ failed' = failed \cup {s} /\ warned' = Told(s)
           \/ failed' = {"master"} /\ warned' = warned
    BY DEF ReadSection, loops, budgets, queried
  <1>2. ~Planned' /\ Ahead' = Ahead
    BY <1>1 DEF Planned, Ahead
  <1>3. ScanTypes'
    BY <1>1 DEF ScanTypes, Relations
  <1>4. ScanStages'
    BY <1>1, <1>2 DEF ScanStages
  <1>5. ScanBooks'
    BY <1>1 DEF ScanBooks
  <1>6. ScanTold'
    BY <1>1 DEF ScanTold, Told
  <1> QED BY <1>2, <1>3, <1>4, <1>5, <1>6 DEF ScanReserve, ScanCovers

(* The plan: every table to describe is in a loop, and there is a share of *)
(* the budget for each.                                                    *)
LEMMA PlanScanKeeps ==
  ASSUME ScanInv, PlanScan
  PROVE  ScanInv'
  <1> USE DEF ScanInv
  <1>1. /\ phase = "sections"
        /\ UNCHANGED <<engine, db, failed, warned, skipped, session, hintBudget, tableBudget, probed, lost>>
        /\ engine = "sqlite" => objectsLeft' = Relations /\ tablesLeft' = tablesLeft
        /\ engine # "sqlite" => objectsLeft' = objectsLeft /\ tablesLeft' = HintTables(Tables)
    BY DEF PlanScan, budgets, queried
  <1>2. /\ engine = "sqlite" => phase' = "objects"
        /\ engine # "sqlite" => phase' \in {"beginSamples", "beginHints", "samples"}
    BY DEF PlanScan, AfterSections, ScanTypes
  <1>3. tablesLeft = {} /\ objectsLeft = {} /\ hintBudget = MaxProbes /\ tableBudget = 0
    BY <1>1 DEF ScanStages, Ahead
  <1>4. /\ Relations' = Relations /\ Tables' = Tables /\ Objects' = Objects /\ Share' = Share
        /\ \A o : ToDescribe(o)' <=> ToDescribe(o)
    BY <1>1, CatalogKept, TablesKept
  <1>5. HintTables(Tables) \subseteq Tables
    BY DEF HintTables
  <1>6. ScanTypes'
    BY <1>1, <1>3, <1>4, <1>5, TablesCounted DEF ScanTypes
  <1>7. ScanStages'
    BY <1>1, <1>2, <1>3 DEF ScanStages, Ahead
  <1>8. ScanBooks'
    BY <1>1 DEF ScanBooks
  <1>9. ScanReserve'
    <2>1. Cardinality(Ahead') <= Objects /\ Cardinality(Ahead') \in Nat /\ Objects \in Nat
      <3>1. CASE engine = "sqlite"
        <4>1. Ahead' = Relations
          BY <1>1, <1>3, <3>1 DEF Ahead
        <4> QED BY <3>1, <4>1, TablesCounted, ObjectsFinite
      <3>2. CASE engine # "sqlite"
        <4>1. Ahead' = HintTables(Tables)
          BY <1>1, <1>3, <3>2 DEF Ahead
        <4> QED BY <1>5, <4>1, TablesCounted, ObjectsFinite
      <3> QED BY <3>1, <3>2
    <2>2. Objects <= MaxProbes => Share * Cardinality(Ahead') <= MaxProbes
      BY <2>1, ShareFits DEF Share
    <2>3. Share \in Nat
      BY <2>1, ShareType DEF Share
    <2>4. Share * Cardinality(Ahead') \in Nat
      BY <2>1, <2>3
    <2>5. Objects <= MaxProbes => 0 + Share * Cardinality(Ahead') <= MaxProbes
      BY <2>2, <2>4
    <2> QED BY <1>1, <1>3, <1>4, <2>5 DEF ScanReserve
  <1>10. ScanCovers'
    <2>1. \A o \in Tables : ToDescribe(o) => o \in Ahead'
      BY <1>1, TablesCounted DEF Ahead, ToDescribe, HintTables
    <2> QED BY <1>4, <2>1 DEF ScanCovers
  <1>11. ScanTold'
    BY <1>1 DEF ScanTold
  <1> QED BY <1>6, <1>7, <1>8, <1>9, <1>10, <1>11

(* Fewer tables ahead need less of the budget.                             *)
LEMMA ReserveShrinks ==
  ASSUME ScanInv, Planned, Objects <= MaxProbes, NEW S \in SUBSET Ahead
  PROVE  tableBudget + Share * Cardinality(S) <= hintBudget
  <1> USE DEF ScanInv
  <1>1. Ahead \subseteq DOMAIN db
    BY TablesCounted DEF Ahead, ScanTypes
  <1>2. Cardinality(S) \in Nat /\ Cardinality(Ahead) \in Nat /\ Cardinality(S) <= Cardinality(Ahead)
    BY <1>1, ObjectsFinite, FS_Subset
  <1>3. Share \in Nat
    BY TablesCounted, ShareType DEF Share
  <1>4. Share * Cardinality(S) <= Share * Cardinality(Ahead)
    BY <1>2, <1>3, ProductMonotone
  <1>5. tableBudget + Share * Cardinality(Ahead) <= hintBudget
    BY DEF ScanReserve
  <1>6. tableBudget \in Nat /\ hintBudget \in Nat
    BY DEF ScanTypes
  <1>7. Share * Cardinality(S) \in Nat /\ Share * Cardinality(Ahead) \in Nat
    BY <1>2, <1>3
  <1> QED BY <1>4, <1>5, <1>6, <1>7

(* SQLite takes one object: to its hints, or out of the catalog.           *)
LEMMA ReadPragmasKeeps ==
  ASSUME ScanInv, ReadPragmas
  PROVE  ScanInv'
  <1> USE DEF ScanInv
  <1>1. PICK o \in objectsLeft :
          /\ objectsLeft' = objectsLeft \ {o}
          /\ \/ /\ tablesLeft' = HintTables({o}) /\ phase' = "hints" /\ UNCHANGED <<skipped, warned>>
             \/ /\ skipped' = skipped \cup {o} /\ warned' = Told("object")
                /\ UNCHANGED <<tablesLeft, phase>>
    BY DEF ReadPragmas
  <1>2. /\ phase = "objects"
        /\ UNCHANGED <<engine, db, failed, session, current, columnsLeft, hintBudget, tableBudget, probed, lost>>
    BY DEF ReadPragmas, budgets, queried
  <1>3. engine = "sqlite" /\ tablesLeft = {} /\ objectsLeft \subseteq Relations
    BY <1>1, <1>2 DEF ScanStages, ScanTypes
  <1>4. tablesLeft' \subseteq {o} /\ tablesLeft' \subseteq objectsLeft /\ phase' \in {"objects", "hints"}
        /\ (phase' = "objects" => tablesLeft' = {})
    BY <1>1, <1>2, <1>3 DEF HintTables
  <1>5. /\ Relations' = Relations
        /\ \A p : Columns(p)' = Columns(p)
        /\ \A p : ToDescribe(p)' <=> ToDescribe(p)
    BY <1>2, CatalogKept
  <1>6. Tables' \subseteq Tables /\ (skipped' = skipped \cup {o} => o \notin Tables')
    BY <1>1, <1>2, <1>3, <1>5 DEF Tables, SqliteTables
  <1>7. Objects' = Objects
    BY <1>2, <1>3 DEF Objects
  <1>8. Share' = Share
    BY <1>7 DEF Share, hintProbesPerTable, Least
  <1>9. Ahead' \subseteq Ahead /\ (Planned' <=> Planned)
    BY <1>1, <1>2, <1>4 DEF Ahead, Planned
  <1>10. ScanTypes'
    BY <1>1, <1>2, <1>3, <1>4, <1>5 DEF ScanTypes
  <1>11. ScanStages'
    BY <1>1, <1>2, <1>3, <1>4 DEF ScanStages, Ahead
  <1>12. ScanBooks'
    BY <1>2 DEF ScanBooks
  <1>13. ScanReserve'
    <2>1. ASSUME Planned, Objects <= MaxProbes
          PROVE  tableBudget + Share * Cardinality(Ahead') <= hintBudget
      BY <1>9, <2>1, ReserveShrinks
    <2> QED BY <1>2, <1>7, <1>8, <1>9, <2>1 DEF ScanReserve
  <1>14. ScanCovers'
    <2> SUFFICES ASSUME Planned', Objects' <= MaxProbes, NEW p \in Tables', ToDescribe(p)'
                 PROVE  (p \in Ahead \/ AtHand(p) \/ Described(p))'
      BY DEF ScanCovers
    <2>1. p \in Ahead \/ AtHand(p) \/ Described(p)
      BY <1>5, <1>6, <1>7, <1>9 DEF ScanCovers
    <2>2. ~AtHand(p)
      BY <1>2 DEF AtHand
    <2>3. CASE Described(p)
      BY <1>2, <1>5, <2>3 DEF Described
    <2>4. CASE p \in Ahead /\ p # o
      BY <1>1, <1>3, <2>4 DEF Ahead
    <2>5. CASE p = o
      <3>1. ~ReadsAsView(o)
        BY <1>5, <2>5 DEF ToDescribe
      <3>2. tablesLeft' = HintTables({o})
        BY <1>1, <1>6, <2>5
      <3> QED BY <2>5, <3>1, <3>2 DEF Ahead, HintTables
    <2> QED BY <2>1, <2>2, <2>3, <2>4, <2>5
  <1>15. ScanTold'
    BY <1>1, <1>2, <1>3 DEF ScanTold, Told
  <1> QED BY <1>10, <1>11, <1>12, <1>13, <1>14, <1>15

(* The hint pass takes the next table with its share of the budget.        *)
LEMMA StartTableKeeps ==
  ASSUME ScanInv, StartTable
  PROVE  ScanInv'
  <1> USE DEF ScanInv
  <1>1. PICK o \in tablesLeft : tablesLeft' = tablesLeft \ {o} /\ current' = o /\ columnsLeft' = HintColumns(o)
    BY DEF StartTable
  <1>2. /\ phase = "hints" /\ TableDone
        /\ UNCHANGED <<engine, db, phase, failed, warned, skipped, session, objectsLeft, hintBudget, probed, lost>>
        /\ tableBudget' = Least(Share, hintBudget)
    BY DEF StartTable, queried, Share
  <1>3. /\ Relations' = Relations /\ Tables' = Tables /\ Objects' = Objects /\ Share' = Share
        /\ \A p : Columns(p)' = Columns(p)
        /\ \A p : HintColumns(p)' = HintColumns(p)
        /\ \A p : ToDescribe(p)' <=> ToDescribe(p)
    BY <1>2, CatalogKept, TablesKept
  <1>4. Objects \in Nat /\ Share \in Nat /\ Share >= 1
    BY TablesCounted, ShareType DEF Share
  <1>5. hintBudget \in Nat /\ tableBudget \in Nat
    BY DEF ScanTypes
  <1>6. tableBudget' \in Nat /\ tableBudget' <= hintBudget /\ tableBudget' <= Share
    BY <1>2, <1>4, <1>5 DEF Least
  <1>7. ScanTypes'
    BY <1>1, <1>2, <1>3, <1>6 DEF ScanTypes
  <1>8. ScanStages'
    BY <1>1, <1>2 DEF ScanStages, Ahead
  <1>9. ScanBooks'
    BY <1>2, <1>6 DEF ScanBooks
  <1>10. Planned' <=> Planned
    BY <1>2 DEF Planned
  <1>11. \A S \in SUBSET Ahead : Cardinality(S) \in Nat /\ IsFiniteSet(S)
    BY TablesCounted, ObjectsFinite DEF Ahead, ScanTypes
  <1>12. Ahead' = Ahead \ {o} /\ o \in Ahead
    BY <1>1, <1>2 DEF Ahead, ScanStages
  <1>13. Cardinality(Ahead') = Cardinality(Ahead) - 1 /\ Cardinality(Ahead') \in Nat
    BY <1>11, <1>12, FS_RemoveElement
  <1>14. ASSUME Planned, Objects <= MaxProbes
         PROVE  Share + Share * Cardinality(Ahead') <= hintBudget
    <2>1. tableBudget + Share * Cardinality(Ahead) <= hintBudget
      BY <1>14 DEF ScanReserve
    <2>2. Share * Cardinality(Ahead) = Share + Share * Cardinality(Ahead') /\ Share * Cardinality(Ahead') \in Nat
      BY <1>4, <1>11, <1>13
    <2> QED BY <1>4, <1>5, <2>1, <2>2
  <1>15. ScanReserve'
    <2>1. ASSUME Planned, Objects <= MaxProbes
          PROVE  tableBudget' + Share * Cardinality(Ahead') <= hintBudget
      <3>1. Share * Cardinality(Ahead') \in Nat
        BY <1>4, <1>13
      <3> QED BY <1>4, <1>5, <1>6, <1>14, <2>1, <3>1
    <2> QED BY <1>2, <1>3, <1>10, <2>1 DEF ScanReserve
  <1>16. ScanCovers'
    <2> SUFFICES ASSUME Planned', Objects' <= MaxProbes, NEW p \in Tables', ToDescribe(p)'
                 PROVE  (p \in Ahead \/ AtHand(p) \/ Described(p))'
      BY DEF ScanCovers
    <2>1. p \in Ahead \/ AtHand(p) \/ Described(p)
      BY <1>3, <1>10 DEF ScanCovers
    <2>2. ~AtHand(p)
      BY <1>2, <1>3 DEF AtHand, TableDone, ToDescribe
    <2>3. CASE Described(p)
      BY <1>2, <1>3, <2>3 DEF Described
    <2>4. CASE p \in Ahead /\ p # o
      BY <1>12, <2>4
    <2>5. CASE p = o
      <3>1. Share + Share * Cardinality(Ahead') <= hintBudget /\ Share * Cardinality(Ahead') \in Nat
        BY <1>3, <1>4, <1>10, <1>13, <1>14
      <3>2. tableBudget' > 0
        BY <1>2, <1>4, <1>5, <3>1 DEF Least
      <3> QED BY <1>1, <1>2, <1>3, <2>5, <3>2 DEF AtHand
    <2> QED BY <2>1, <2>2, <2>3, <2>4, <2>5
  <1>17. ScanTold'
    BY <1>2 DEF ScanTold
  <1> QED BY <1>7, <1>8, <1>9, <1>15, <1>16, <1>17

(* A probe is charged to its table and to the whole.                       *)
LEMMA ProbeColumnKeeps ==
  ASSUME ScanInv, ProbeColumn
  PROVE  ScanInv'
  <1> USE DEF ScanInv
  <1>1. PICK c \in columnsLeft :
          /\ tableBudget' = tableBudget - 1 /\ hintBudget' = hintBudget - 1
          /\ probed' = probed \cup {<<current, c>>}
          /\ \/ session # "aborted" /\ UNCHANGED <<lost, session>>
             \/ session # "aborted" /\ session' = AfterFailedProbe /\ UNCHANGED lost
             \/ session = "aborted" /\ lost' = lost \cup {<<"probe", <<current, c>>>>} /\ UNCHANGED session
    BY DEF ProbeColumn
  <1>2. /\ phase = "hints" /\ tableBudget > 0
        /\ UNCHANGED <<engine, db, phase, failed, warned, skipped, objectsLeft, tablesLeft, current>>
    BY DEF ProbeColumn
  <1>3. session # "aborted" /\ session' = session /\ lost' = lost
    BY <1>1, <1>2 DEF ScanStages, AfterFailedProbe
  <1>4. /\ Relations' = Relations /\ Tables' = Tables /\ Objects' = Objects /\ Share' = Share
        /\ \A p : Columns(p)' = Columns(p)
        /\ \A p : ToDescribe(p)' <=> ToDescribe(p)
    BY <1>2, CatalogKept, TablesKept
  <1>5. /\ hintBudget \in Nat /\ tableBudget \in Nat /\ tableBudget <= hintBudget
        /\ hintBudget' \in Nat /\ tableBudget' \in Nat /\ tableBudget' <= hintBudget'
    BY <1>1, <1>2 DEF ScanTypes, ScanBooks
  <1>6. IsFiniteSet(probed') /\ Cardinality(probed') <= Cardinality(probed) + 1 /\ Cardinality(probed') \in Nat
        /\ Cardinality(probed) \in Nat
    <2>1. IsFiniteSet(probed) /\ Cardinality(probed) \in Nat
      BY FS_CardinalityType DEF ScanTypes
    <2>2. /\ IsFiniteSet(probed')
          /\ Cardinality(probed') = IF <<current, c>> \in probed THEN Cardinality(probed) ELSE Cardinality(probed) + 1
      BY <1>1, <2>1, FS_AddElement
    <2> QED BY <2>1, <2>2
  <1>7. ScanTypes'
    BY <1>2, <1>4, <1>5, <1>6 DEF ScanTypes
  <1>8. ScanStages'
    BY <1>2, <1>3 DEF ScanStages, Ahead
  <1>9. ScanBooks'
    <2>1. Cardinality(probed') + hintBudget' <= MaxProbes
      BY <1>1, <1>5, <1>6, IntrospectionAssumption DEF ScanBooks
    <2> QED BY <1>3, <1>5, <2>1 DEF ScanBooks
  <1>10. (Planned' <=> Planned) /\ Ahead' = Ahead
    BY <1>2 DEF Planned, Ahead
  <1>11. ScanReserve'
    <2>1. Share * Cardinality(Ahead) \in Nat
      <3>1. Share \in Nat
        BY TablesCounted, ShareType DEF Share
      <3>2. Cardinality(Ahead) \in Nat
        BY TablesCounted, ObjectsFinite DEF Ahead, ScanTypes
      <3> QED BY <3>1, <3>2
    <2>2. ASSUME tableBudget + Share * Cardinality(Ahead) <= hintBudget
          PROVE  tableBudget' + Share * Cardinality(Ahead) <= hintBudget'
      BY <1>1, <1>5, <2>1, <2>2
    <2> QED BY <1>4, <1>10, <2>2 DEF ScanReserve
  <1>12. ScanCovers'
    <2> SUFFICES ASSUME Planned', Objects' <= MaxProbes, NEW p \in Tables', ToDescribe(p)'
                 PROVE  (p \in Ahead \/ AtHand(p) \/ Described(p))'
      BY DEF ScanCovers
    <2>1. p \in Ahead \/ AtHand(p) \/ Described(p)
      BY <1>4, <1>10 DEF ScanCovers
    <2>2. CASE p \in Ahead
      BY <1>10, <2>2
    <2>3. CASE Described(p)
      BY <1>1, <1>4, <2>3 DEF Described
    <2>4. CASE AtHand(p)
      <3>1. c \in DOMAIN Columns(p) /\ current = p
        BY <2>4 DEF AtHand, HintColumns
      <3> QED BY <1>1, <1>4, <3>1 DEF Described
    <2> QED BY <2>1, <2>2, <2>3, <2>4
  <1>13. ScanTold'
    BY <1>2 DEF ScanTold
  <1> QED BY <1>7, <1>8, <1>9, <1>11, <1>12, <1>13

(* IntrospectionSound, for every database, every engine and every budget:  *)
(* the probes stay within MAX_HINT_PROBES and reach every table while      *)
(* there are no more objects than probes, a failed probe takes no other    *)
(* with it, and what the catalog lacks it says it lacks.                   *)
THEOREM IntrospectionCorrect == IntroSpec => []IntrospectionSound
  <1>1. IntroInit => ScanInv
    <2> SUFFICES ASSUME IntroInit PROVE ScanInv
      OBVIOUS
    <2>1. MaxProbes \in Nat
      BY IntrospectionAssumption
    <2>2. IsFiniteSet(probed) /\ Cardinality(probed) = 0
      BY FS_EmptySet DEF IntroInit
    <2>3. ScanTypes
      BY <2>1, <2>2 DEF IntroInit, ScanTypes
    <2>4. ScanStages
      BY DEF IntroInit, ScanStages, Ahead
    <2>5. ScanBooks
      BY <2>1, <2>2 DEF IntroInit, ScanBooks
    <2>6. ~Planned
      BY DEF IntroInit, Planned
    <2>7. ScanTold
      BY DEF IntroInit, ScanTold
    <2> QED BY <2>3, <2>4, <2>5, <2>6, <2>7 DEF ScanInv, ScanReserve, ScanCovers
  <1>2. ScanInv /\ [IntroNext]_introVars => ScanInv'
    <2> SUFFICES ASSUME ScanInv, [IntroNext]_introVars PROVE ScanInv'
      OBVIOUS
    <2>1. CASE ReadSection
      BY <2>1, ReadSectionKeeps
    <2>2. CASE PlanScan
      BY <2>2, PlanScanKeeps
    <2>3. CASE ReadPragmas
      BY <2>3, ReadPragmasKeeps
    <2>4. CASE EndObjects
      <3>1. ScanStages'
        BY <2>4 DEF EndObjects, ScanInv, ScanStages, Ahead, loops, budgets
      <3> QED BY <2>4, <3>1, ScanMovesOn DEF EndObjects, ScanInv, ScanBooks, loops, budgets, queried
    <2>5. CASE BeginScan
      <3>1. session' # "aborted"
        BY <2>5 DEF BeginScan
      <3>2. phase' \in {"samples", "hints"} /\ engine # "sqlite"
        BY <2>5 DEF BeginScan, ScanInv, ScanStages
      <3>3. ScanStages'
        BY <2>5, <3>1, <3>2 DEF BeginScan, ScanInv, ScanStages, Ahead, loops, budgets
      <3> QED BY <2>5, <3>2, <3>3, ScanMovesOn DEF BeginScan, ScanInv, ScanBooks, loops, budgets, queried
    <2>6. CASE SampleColumn
      <3>1. \A j \in lost' : j[1] # "probe"
        BY <2>6 DEF SampleColumn, ScanInv, ScanBooks
      <3>2. ScanStages'
        BY <2>6 DEF SampleColumn, ScanInv, ScanStages, Ahead
      <3> QED BY <2>6, <3>1, <3>2, ScanMovesOn DEF SampleColumn
    <2>7. CASE EndSamples
      <3>1. ScanStages'
        BY <2>7 DEF EndSamples, ScanInv, ScanTypes, ScanStages, Ahead, loops, budgets
      <3> QED BY <2>7, <3>1, ScanMovesOn DEF EndSamples, ScanInv, ScanBooks, loops, budgets, queried
    <2>8. CASE StartTable
      BY <2>8, StartTableKeeps
    <2>9. CASE ProbeColumn
      BY <2>9, ProbeColumnKeeps
    <2>10. CASE EndHints
      <3>1. ScanStages'
        BY <2>10 DEF EndHints, ScanInv, ScanTypes, ScanStages, Ahead, budgets
      <3> QED BY <2>10, <3>1, ScanMovesOn DEF EndHints, ScanInv, ScanBooks, budgets, queried
    <2>11. CASE UNCHANGED introVars
      <3>1. UNCHANGED <<engine, db, phase, failed, warned, skipped, session, objectsLeft, tablesLeft, current,
                        columnsLeft, hintBudget, tableBudget, probed, lost>>
        BY <2>11 DEF introVars, loops, budgets, queried
      <3>2. /\ Relations' = Relations /\ Tables' = Tables /\ Objects' = Objects /\ Share' = Share
            /\ \A o : Columns(o)' = Columns(o)
            /\ \A o : HintColumns(o)' = HintColumns(o)
            /\ \A o : ToDescribe(o)' <=> ToDescribe(o)
        BY <3>1, CatalogKept, TablesKept
      <3>3. Ahead' = Ahead /\ (Planned' <=> Planned)
        BY <3>1 DEF Ahead, Planned
      <3>4. \A o : (AtHand(o)' <=> AtHand(o)) /\ (Described(o)' <=> Described(o))
        BY <3>1, <3>2 DEF AtHand, Described
      <3>5. ScanTypes' /\ ScanStages'
        BY <3>1, <3>2, <3>3 DEF ScanInv, ScanTypes, ScanStages
      <3>6. ScanBooks' /\ ScanTold'
        BY <3>1 DEF ScanInv, ScanBooks, ScanTold
      <3>7. ScanReserve' /\ ScanCovers'
        BY <3>1, <3>2, <3>3, <3>4 DEF ScanInv, ScanReserve, ScanCovers
      <3> QED BY <3>5, <3>6, <3>7 DEF ScanInv
    <2> QED BY <2>1, <2>2, <2>3, <2>4, <2>5, <2>6, <2>7, <2>8, <2>9, <2>10, <2>11 DEF IntroNext
  <1>3. ScanInv => IntrospectionSound
    <2> SUFFICES ASSUME ScanInv PROVE IntrospectionSound
      OBVIOUS
    <2>1. HintsReach
      <3> SUFFICES ASSUME CatalogBuilt
                   PROVE  /\ Cardinality(probed) <= MaxProbes
                          /\ \A o \in Tables :
                               (Objects <= MaxProbes /\ ~ReadsAsView(o) /\ HintColumns(o) # {})
                                 => \E c \in DOMAIN Columns(o) : <<o, c>> \in probed
                          /\ \A j \in lost : j[1] # "probe"
        BY DEF HintsReach
      <3>1. Cardinality(probed) <= MaxProbes
        <4>1. Cardinality(probed) \in Nat /\ hintBudget \in Nat /\ MaxProbes \in Nat
          BY FS_CardinalityType, IntrospectionAssumption DEF ScanInv, ScanTypes
        <4> QED BY <4>1 DEF ScanInv, ScanBooks
      <3>2. ASSUME NEW o \in Tables, Objects <= MaxProbes, ToDescribe(o)
            PROVE  Described(o)
        <4>1. Planned /\ Ahead = {} /\ ~AtHand(o)
          BY DEF CatalogBuilt, Planned, AtHand, ScanInv, ScanStages
        <4> QED BY <3>2, <4>1 DEF ScanInv, ScanCovers
      <3>3. \A j \in lost : j[1] # "probe"
        BY DEF ScanInv, ScanBooks
      <3> QED BY <3>1, <3>2, <3>3 DEF ToDescribe, Described
    <2>2. OmissionsTold
      <3> SUFFICES ASSUME CatalogBuilt, NEW o \in Relations, o \notin Tables \/ Columns(o) # db[o].cols
                   PROVE  warned # {}
        BY DEF OmissionsTold
      <3>1. failed \cap {"relations", "tables", "columns", "currentSchema"} # {} \/ skipped # {}
        BY DEF ScanInv, ScanTypes, Tables, PgTables, MyTables, OraTables, DuckTables, SqliteTables, Columns, NoOwner
      <3> QED BY <3>1 DEF ScanInv, ScanTold
    <2> QED BY <2>1, <2>2 DEF IntrospectionSound
  <1> QED BY <1>1, <1>2, <1>3, PTL DEF IntroSpec

-----------------------------------------------------------------------------
(* SchemaPrune *)

(* The tables one foreign key away from a table the question hits, and     *)
(* when the pruning has chosen its candidates.                             *)
Near == {u \in All : \E s \in Seeds : u = s \/ Joined(s, u)}
Chosen == stage \in {"fill", "trim"} \/ (stage = "done" /\ strategy # "none")

(* The values of the variables.                                            *)
PruneTypes ==
  /\ schema \in Schemas /\ tableCap \in Nat \ {0} /\ tokenCap \in Nat /\ used \in Nat
  /\ stage \in {"start", "closure", "fill", "trim", "done"}
  /\ expanded \subseteq All /\ left \subseteq All /\ kept \subseteq All /\ toTrim \subseteq kept
  /\ DOMAIN columnsOf = Listed /\ \A t \in Listed : columnsOf[t] \subseteq AllColumns(t)

(* The closure of the foreign keys, hop by hop.                            *)
ClosureInv ==
  stage = "closure" =>
    /\ \/ hop = 0 /\ expanded = Seeds /\ frontier = Seeds
       \/ hop = 1 /\ expanded = Near /\ Near \ Seeds \subseteq frontier
       \/ hop = 2 /\ Reach \subseteq expanded
    /\ Seeds \subseteq expanded /\ frontier \subseteq expanded /\ (expanded # {} => Seeds # {})

(* Nothing is kept or trimmed before its time.                             *)
OrderInv ==
  /\ stage \in {"start", "closure"} => kept = {}
  /\ stage \in {"start", "closure", "fill"} => toTrim = {} /\ \A t \in Listed : columnsOf[t] = AllColumns(t)
  /\ stage = "done" => toTrim = {}

(* Every candidate is kept, still to come, or too large for the budget,    *)
(* and the best table is the first to be kept.                             *)
FillInv ==
  Chosen =>
    /\ Reach \subseteq expanded \/ Cardinality(expanded) >= tableCap
    /\ \A t \in expanded : t \in kept \cup left \/ used + estimateTableTokens(t) > TablesBudget
    /\ \A t \in All : Best(t, All) => t \in kept \/ (kept = {} /\ t \in left)
    /\ stage # "fill" => left = {} \/ Full

(* The keys of a table are shown, unless they are more than trimming       *)
(* spares.                                                                 *)
KeysInv == \A t \in Listed : Cardinality(keyNames(t)) <= MinColumns => keyNames(t) \subseteq columnsOf[t]

(* The result says what it left out.                                       *)
ResultInv ==
  stage = "done" =>
    /\ strategy = "none" => kept = All
    /\ kept # All => dropped > 0
    /\ (\E t \in kept : Trimmed(t)) => strategy = "budget-trim"

PruneInv == PruneTypes /\ ClosureInv /\ OrderInv /\ FillInv /\ KeysInv /\ ResultInv

(* Tables and columns are numbers, and there are finitely many of each.    *)
LEMMA SchemaFinite ==
  ASSUME schema \in Schemas
  PROVE  /\ Listed \subseteq Nat /\ All \subseteq Listed /\ IsFiniteSet(Listed) /\ IsFiniteSet(All)
         /\ \A t \in Listed : Table(t) \in TableType /\ AllColumns(t) \subseteq Nat /\ IsFiniteSet(AllColumns(t))
  <1>1. schema \in [tables : Seq(TableType), sections : Nat]
    BY PruneAssumption
  <1>2. schema.tables \in Seq(TableType)
    BY <1>1
  <1>3. Len(schema.tables) \in Nat /\ Listed = 1 .. Len(schema.tables)
    BY <1>2 DEF Listed
  <1>4. IsFiniteSet(Listed) /\ Listed \subseteq Nat /\ All \subseteq Listed
    BY <1>3, FS_Interval DEF All
  <1>5. IsFiniteSet(All)
    BY <1>4, FS_Subset
  <1>6. ASSUME NEW t \in Listed
        PROVE  Table(t) \in TableType /\ AllColumns(t) \subseteq Nat /\ IsFiniteSet(AllColumns(t))
    <2>1. Table(t) \in TableType
      BY <1>2, <1>3 DEF Table
    <2>2. Table(t).cols \in Seq(ColumnType)
      BY <2>1 DEF TableType
    <2>3. Len(Table(t).cols) \in Nat /\ AllColumns(t) = 1 .. Len(Table(t).cols)
      BY <2>2 DEF AllColumns
    <2> QED BY <2>1, <2>3, FS_Interval
  <1> QED BY <1>4, <1>5, <1>6

(* A score is a number.                                                    *)
LEMMA ScoreIsNumber ==
  ASSUME schema \in Schemas, NEW t \in Listed
  PROVE  scoreTable(t) \in Nat
  <1>1. Table(t).hits \in Seq(HitKinds)
    BY SchemaFinite DEF TableType
  <1>2. Len(Table(t).hits) \in Nat /\ DOMAIN Table(t).hits = 1 .. Len(Table(t).hits)
    BY <1>1
  <1>3. IsFiniteSet(DOMAIN Table(t).hits) /\ IsFiniteSet(1..6)
    <2>0. \A n \in Nat : IsFiniteSet(1..n)
      BY FS_Interval
    <2>1. IsFiniteSet(DOMAIN Table(t).hits)
      BY <1>2, <2>0
    <2>2. 6 \in Nat => IsFiniteSet(1..6)
      BY <2>0, Zenon
    <2> QED BY <2>1, <2>2
  <1> DEFINE points == (DOMAIN Table(t).hits) \X (1..6)
             won == {h \in points : h[2] <= Points(Table(t).hits[h[1]])}
  <1>4. IsFiniteSet(points)
    BY <1>3, FS_Product
  <1>5. scoreTable(t) = Cardinality(won)
    BY DEF scoreTable
  <1>6. won \in SUBSET points
    <2> HIDE DEF points
    <2> QED OBVIOUS
  <1>7. IsFiniteSet(won)
    <2> HIDE DEF points, won
    <2> QED BY <1>4, <1>6, FS_Subset
  <1>8. Cardinality(won) \in Nat
    <2> HIDE DEF won
    <2> QED BY <1>7, FS_CardinalityType
  <1> QED BY <1>5, <1>8

(* So is the size of a table.                                              *)
LEMMA SizeIsNumber ==
  ASSUME schema \in Schemas, NEW t \in Listed
  PROVE  estimateTableTokens(t) \in Nat
  <1> DEFINE parts == {columnChars(t, c) : c \in AllColumns(t)}
             part == [c \in AllColumns(t) |-> columnChars(t, c)]
  <1>1. Table(t).cols \in Seq(ColumnType) /\ Table(t).head \in Nat
    BY SchemaFinite DEF TableType
  <1>2. ASSUME NEW c \in AllColumns(t)
        PROVE  IsFiniteSet(columnChars(t, c))
    <2>1. Table(t).cols[c] \in ColumnType
      BY <1>1 DEF AllColumns
    <2>2. Table(t).cols[c].size \in Nat
      BY <2>1 DEF ColumnType
    <2>3. IsFiniteSet(1 .. Table(t).cols[c].size)
      BY <2>2, FS_Interval
    <2>4. IsFiniteSet({c} \X (1 .. Table(t).cols[c].size))
      BY <2>3, FS_Singleton, FS_Product
    <2> QED BY <2>4, Zenon DEF columnChars
  <1>3. part \in Surjection(AllColumns(t), parts)
    BY DEF Surjection
  <1>4. IsFiniteSet(parts)
    BY <1>3, SchemaFinite, FS_Surjection
  <1>5. IsFiniteSet(UNION parts)
    BY <1>2, <1>4, FS_UNION
  <1>6. Cardinality(UNION parts) \in Nat
    BY <1>5, FS_CardinalityType
  <1>7. estimateTableTokens(t) = Table(t).head + Cardinality(UNION parts)
    BY DEF estimateTableTokens, TableTokens
  <1> QED BY <1>1, <1>6, <1>7

(* What is computed from the schema alone stays with the schema.           *)
LEMMA SchemaKept ==
  ASSUME schema' = schema
  PROVE  /\ Listed' = Listed /\ All' = All /\ Seeds' = Seeds /\ Near' = Near /\ Reach' = Reach
         /\ \A t : AllColumns(t)' = AllColumns(t) /\ keyNames(t)' = keyNames(t)
         /\ \A t : estimateTableTokens(t)' = estimateTableTokens(t) /\ Best(t, All)' = Best(t, All)
  <1>1. Listed' = Listed /\ \A t : Table(t)' = Table(t)
    BY DEF Listed, Table
  <1>2. All' = All
    BY <1>1 DEF All
  <1>3. \A t : AllColumns(t)' = AllColumns(t)
    BY <1>1 DEF AllColumns
  <1>4. \A t : scoreTable(t)' = scoreTable(t)
    BY <1>1 DEF scoreTable
  <1>5. \A t, u : Before(t, u)' = Before(t, u)
    BY <1>4 DEF Before
  <1>6. \A t : Best(t, All)' = Best(t, All)
    BY <1>2, <1>5 DEF Best
  <1>7. Seeds' = Seeds
    BY <1>2, <1>4 DEF Seeds
  <1>8. \A fk : Referred(fk)' = Referred(fk)
    BY <1>1, <1>2 DEF Referred
  <1>9. \A t, u : Joined(t, u)' = Joined(t, u)
    BY <1>1, <1>8 DEF Joined
  <1>10. Near' = Near /\ Reach' = Reach
    BY <1>2, <1>7, <1>9 DEF Near, Reach
  <1>11. \A t : OwnKeys(t)' = OwnKeys(t)
    BY <1>1, <1>3 DEF OwnKeys
  <1>12. \A t : keyNames(t)' = keyNames(t)
    BY <1>1, <1>2, <1>3, <1>11 DEF keyNames
  <1>13. \A t, c : columnChars(t, c)' = columnChars(t, c)
    BY <1>1 DEF columnChars
  <1>14. \A t : estimateTableTokens(t)' = estimateTableTokens(t)
    BY <1>1, <1>3, <1>13 DEF estimateTableTokens, TableTokens
  <1> QED BY <1>1, <1>2, <1>3, <1>6, <1>7, <1>10, <1>12, <1>14

(* Two tables are not both before each other.                              *)
LEMMA OneBest ==
  ASSUME schema \in Schemas, NEW t \in All, NEW u \in All, Before(t, u), Before(u, t)
  PROVE  t = u
  <1>1. t \in Nat /\ u \in Nat /\ scoreTable(t) \in Nat /\ scoreTable(u) \in Nat
    BY SchemaFinite, ScoreIsNumber
  <1> QED BY <1>1 DEF Before

(* Before any table is cut, every candidate list holds the best table: it  *)
(* is one of those the question hits, or, when it hits none, the first.    *)
LEMMA BestIsCandidate ==
  ASSUME PruneTypes, NEW t \in All, Best(t, All)
  PROVE  (Seeds # {} => t \in Seeds) /\ Place(t) <= tableCap
  <1>0. schema \in Schemas /\ All \subseteq Listed
    BY SchemaFinite DEF PruneTypes
  <1>1. ASSUME NEW s \in Seeds PROVE t \in Seeds
    <2>1. s \in All /\ scoreTable(s) > 0
      BY DEF Seeds
    <2>2. scoreTable(s) \in Nat /\ scoreTable(t) \in Nat
      BY <1>0, <2>1, ScoreIsNumber
    <2>3. Before(t, s)
      BY <2>1 DEF Best
    <2>4. scoreTable(t) > 0
      BY <2>1, <2>2, <2>3 DEF Before
    <2> QED BY <2>4 DEF Seeds
  <1>2. {u \in All : Before(u, t)} = {t}
    <2>1. \A u \in All : Before(u, t) => u = t
      BY <1>0, OneBest DEF Best
    <2>2. Before(t, t)
      BY DEF Best
    <2> QED BY <2>1, <2>2
  <1>3. Place(t) = 1
    BY <1>2, FS_Singleton DEF Place
  <1> QED BY <1>1, <1>3 DEF PruneTypes

(* The key columns of a table come first when its columns are trimmed, and *)
(* as many columns as trimming spares are kept.                            *)
LEMMA KeysSurvive ==
  ASSUME schema \in Schemas, NEW t \in Listed, Cardinality(keyNames(t)) <= MinColumns
  PROVE  keyNames(t) \subseteq trimColumns(t)
  <1>1. keyNames(t) \subseteq AllColumns(t)
    BY DEF keyNames, OwnKeys
  <1>2. IsFiniteSet(keyNames(t)) /\ Cardinality(keyNames(t)) \in Nat
    BY <1>1, SchemaFinite, FS_Subset, FS_CardinalityType
  <1>3. ASSUME NEW c \in keyNames(t) PROVE UpTo(t, c) \subseteq keyNames(t)
    <2>1. ColumnRank(t, c) = 0
      BY DEF ColumnRank
    <2>2. \A d : ColumnRank(t, d) \in {0, 1, 2} /\ (ColumnRank(t, d) = 0 => d \in keyNames(t))
      BY DEF ColumnRank
    <2>3. \A d \in UpTo(t, c) : ColumnRank(t, d) = 0
      BY <2>1, <2>2 DEF UpTo
    <2> QED BY <2>2, <2>3
  <1>4. ASSUME NEW c \in keyNames(t) PROVE ~Overruns(t, c)
    <2>1. Cardinality(UpTo(t, c)) <= Cardinality(keyNames(t)) /\ IsFiniteSet(UpTo(t, c))
      BY <1>2, <1>3, FS_Subset
    <2>2. Cardinality(UpTo(t, c)) \in Nat
      BY <2>1, FS_CardinalityType
    <2>3. ~(Cardinality(UpTo(t, c)) > MinColumns)
      BY <1>2, <2>1, <2>2, PruneAssumption
    <2> QED BY <2>3 DEF Overruns
  <1> QED BY <1>1, <1>3, <1>4 DEF trimColumns

(* Budgets are numbers.                                                    *)
LEMMA BudgetIsNumber ==
  ASSUME PruneTypes
  PROVE  TablesBudget \in Nat /\ TablesBudget \div 2 \in Nat
  <1>1. Minus(tokenCap, Reserve) \in Nat
    BY PruneAssumption DEF PruneTypes, Minus
  <1>2. TablesBudget \in Nat
    BY <1>1, PruneAssumption DEF TablesBudget, Most
  <1> QED BY <1>2

(* The tables chosen are counted.                                          *)
LEMMA TablesCountable ==
  ASSUME PruneTypes
  PROVE  /\ IsFiniteSet(All) /\ All \subseteq Listed /\ IsFiniteSet(kept) /\ IsFiniteSet(expanded)
         /\ Cardinality(All) \in Nat /\ Cardinality(kept) \in Nat /\ Cardinality(expanded) \in Nat
  <1>1. IsFiniteSet(All) /\ All \subseteq Listed
    BY SchemaFinite DEF PruneTypes
  <1>2. IsFiniteSet(kept)
    BY <1>1, FS_Subset DEF PruneTypes
  <1>3. IsFiniteSet(expanded)
    BY <1>1, FS_Subset DEF PruneTypes
  <1> QED BY <1>1, <1>2, <1>3, FS_CardinalityType

(* One hop takes the closure from the tables hit to those next to them,    *)
(* and the next to those two foreign keys away.                            *)
LEMMA HopKeeps ==
  ASSUME PruneInv, Hop
  PROVE  PruneInv'
  <1> DEFINE next == {u \in All \ expanded : \E t \in frontier : Joined(t, u)}
  <1>1. /\ stage = "closure" /\ hop < 2 /\ expanded' = expanded \cup next /\ frontier' = next /\ hop' = hop + 1
        /\ schema' = schema /\ tableCap' = tableCap /\ tokenCap' = tokenCap /\ stage' = stage /\ left' = left
        /\ kept' = kept /\ used' = used /\ toTrim' = toTrim /\ columnsOf' = columnsOf /\ strategy' = strategy
    BY DEF Hop, MoreHops
  <1>2. PruneTypes /\ ClosureInv /\ OrderInv /\ KeysInv
    BY DEF PruneInv
  <1>3. /\ Listed' = Listed /\ All' = All /\ Seeds' = Seeds /\ Near' = Near /\ Reach' = Reach
        /\ \A t : AllColumns(t)' = AllColumns(t) /\ keyNames(t)' = keyNames(t)
    BY <1>1, SchemaKept
  <1>4. PruneTypes'
    BY <1>1, <1>2, <1>3 DEF PruneTypes
  <1>5. Seeds \subseteq All
    BY DEF Seeds
  <1>6. ClosureInv'
    <2>1. /\ Seeds \subseteq expanded /\ frontier \subseteq expanded /\ (expanded # {} => Seeds # {})
          /\ \/ hop = 0 /\ expanded = Seeds /\ frontier = Seeds
             \/ hop = 1 /\ expanded = Near /\ Near \ Seeds \subseteq frontier
             \/ hop = 2 /\ Reach \subseteq expanded
      BY <1>1, <1>2 DEF ClosureInv
    <2>2. CASE hop = 0 /\ expanded = Seeds /\ frontier = Seeds
      <3>1. expanded' = Near
        BY <1>1, <1>5, <2>2 DEF Near
      <3>2. Near \ Seeds \subseteq next
        BY <2>2 DEF Near
      <3> QED BY <1>1, <1>3, <2>1, <2>2, <3>1, <3>2 DEF ClosureInv
    <2>3. CASE hop = 1 /\ expanded = Near /\ Near \ Seeds \subseteq frontier
      <3>1. ASSUME NEW u \in Reach PROVE u \in expanded \cup next
        <4>1. PICK s \in Seeds, t \in All : u \in All /\ (t = s \/ Joined(s, t)) /\ (u = t \/ Joined(t, u))
          BY DEF Reach
        <4>2. t \in Near
          BY <4>1 DEF Near
        <4>3. CASE u = t
          BY <2>3, <4>2, <4>3
        <4>4. CASE Joined(t, u) /\ t \in Seeds
          BY <2>3, <4>1, <4>4 DEF Near
        <4>5. CASE Joined(t, u) /\ t \notin Seeds
          BY <2>3, <4>1, <4>2, <4>5
        <4> QED BY <4>1, <4>3, <4>4, <4>5
      <3>2. hop' = 2 /\ Reach' \subseteq expanded'
        BY <1>1, <1>3, <2>3, <3>1
      <3> QED BY <1>1, <1>3, <2>1, <3>2 DEF ClosureInv
    <2> QED BY <1>1, <2>1, <2>2, <2>3
  <1>7. OrderInv' /\ KeysInv'
    BY <1>1, <1>2, <1>3 DEF OrderInv, KeysInv
  <1>8. FillInv' /\ ResultInv'
    BY <1>1 DEF FillInv, ResultInv, Chosen
  <1> QED BY <1>4, <1>6, <1>7, <1>8 DEF PruneInv

(* The candidates are those the closure reached, the best table among      *)
(* them.                                                                   *)
LEMMA RankKeeps ==
  ASSUME PruneInv, RankCandidates
  PROVE  PruneInv'
  <1>1. /\ stage = "closure" /\ ~MoreHops /\ stage' = "fill"
        /\ left' = IF expanded # {} THEN expanded ELSE {t \in All : Place(t) <= tableCap}
        /\ schema' = schema /\ tableCap' = tableCap /\ tokenCap' = tokenCap /\ expanded' = expanded
        /\ kept' = kept /\ used' = used /\ toTrim' = toTrim /\ columnsOf' = columnsOf
    BY DEF RankCandidates
  <1>2. PruneTypes /\ ClosureInv /\ OrderInv /\ KeysInv
    BY DEF PruneInv
  <1>3. /\ Listed' = Listed /\ All' = All /\ Reach' = Reach
        /\ \A t : AllColumns(t)' = AllColumns(t) /\ keyNames(t)' = keyNames(t)
        /\ \A t : estimateTableTokens(t)' = estimateTableTokens(t) /\ Best(t, All)' = Best(t, All)
    BY <1>1, SchemaKept
  <1>4. left' \subseteq All
    BY <1>1, <1>2 DEF PruneTypes
  <1>5. PruneTypes'
    BY <1>1, <1>2, <1>3, <1>4 DEF PruneTypes
  <1>6. FillInv'
    <2>1. Reach \subseteq expanded \/ Cardinality(expanded) >= tableCap
      <3>1. CASE hop < 2
        BY <1>1, <1>2, <3>1, TablesCountable DEF MoreHops, PruneTypes
      <3>2. CASE ~(hop < 2)
        BY <1>1, <1>2, <3>2 DEF ClosureInv
      <3> QED BY <3>1, <3>2
    <2>2. kept = {} /\ \A t \in expanded : t \in left'
      BY <1>1, <1>2 DEF OrderInv
    <2>3. ASSUME NEW t \in All, Best(t, All) PROVE t \in left'
      <3>1. (Seeds # {} => t \in Seeds) /\ Place(t) <= tableCap
        BY <1>2, <2>3, BestIsCandidate
      <3>2. Seeds \subseteq expanded /\ (expanded # {} => Seeds # {})
        BY <1>1, <1>2 DEF ClosureInv
      <3> QED BY <1>1, <3>1, <3>2
    <2> QED BY <1>1, <1>3, <2>1, <2>2, <2>3 DEF FillInv
  <1>7. OrderInv' /\ KeysInv'
    BY <1>1, <1>2, <1>3 DEF OrderInv, KeysInv
  <1>8. ClosureInv' /\ ResultInv'
    BY <1>1 DEF ClosureInv, ResultInv
  <1> QED BY <1>5, <1>6, <1>7, <1>8 DEF PruneInv

(* A candidate is kept, or does not fit, and the first is the best table.  *)
LEMMA KeepKeeps ==
  ASSUME PruneInv, Keep
  PROVE  PruneInv'
  <1>1. /\ stage = "fill" /\ stage' = "fill" /\ schema' = schema /\ tableCap' = tableCap /\ tokenCap' = tokenCap
        /\ expanded' = expanded /\ toTrim' = toTrim /\ columnsOf' = columnsOf
    BY DEF Keep
  <1>2. PruneTypes /\ OrderInv /\ KeysInv /\ FillInv
    BY DEF PruneInv
  <1>3. /\ Listed' = Listed /\ All' = All /\ Reach' = Reach
        /\ \A t : AllColumns(t)' = AllColumns(t) /\ keyNames(t)' = keyNames(t)
        /\ \A t : estimateTableTokens(t)' = estimateTableTokens(t) /\ Best(t, All)' = Best(t, All)
    BY <1>1, SchemaKept
  <1>4. TablesBudget' = TablesBudget
    BY <1>1 DEF TablesBudget
  <1>5. PICK t \in left :
          /\ Best(t, left) /\ left' = left \ {t}
          /\ \/ kept = {} /\ kept' = {t} /\ used' = used + Fewest(estimateTableTokens(t), TablesBudget \div 2)
             \/ /\ kept # {} /\ used + estimateTableTokens(t) <= TablesBudget
                /\ kept' = kept \cup {t} /\ used' = used + estimateTableTokens(t)
             \/ kept # {} /\ used + estimateTableTokens(t) > TablesBudget /\ kept' = kept /\ used' = used
    BY DEF Keep
  <1>6. schema \in Schemas /\ left \subseteq All /\ kept \subseteq All /\ expanded \subseteq All /\ used \in Nat
    BY <1>2 DEF PruneTypes
  <1>7. All \subseteq Listed /\ t \in All /\ TablesBudget \in Nat /\ TablesBudget \div 2 \in Nat
    BY <1>2, <1>5, <1>6, TablesCountable, BudgetIsNumber
  <1>8. \A u \in All : estimateTableTokens(u) \in Nat
    BY <1>6, <1>7, SizeIsNumber
  <1>9. used' \in Nat /\ used' >= used
    <2>1. Fewest(estimateTableTokens(t), TablesBudget \div 2) \in Nat
      BY <1>7, <1>8 DEF Fewest
    <2>2. estimateTableTokens(t) \in Nat
      BY <1>7, <1>8
    <2> QED BY <1>5, <1>6, <2>1, <2>2
  <1>10. kept' \subseteq All /\ left' \subseteq All /\ kept \subseteq kept'
    BY <1>5, <1>6, <1>7
  <1>11. PruneTypes'
    <2>1. toTrim = {}
      BY <1>1, <1>2 DEF OrderInv
    <2> QED BY <1>1, <1>2, <1>3, <1>9, <1>10, <2>1 DEF PruneTypes
  <1>12. FillInv'
    <2>1. Reach \subseteq expanded \/ Cardinality(expanded) >= tableCap
      BY <1>1, <1>2 DEF FillInv, Chosen
    <2>2. ASSUME NEW u \in expanded PROVE u \in kept' \cup left' \/ used' + estimateTableTokens(u) > TablesBudget
      <3>1. u \in kept \cup left \/ used + estimateTableTokens(u) > TablesBudget
        BY <1>1, <1>2, <2>2 DEF FillInv, Chosen
      <3>2. estimateTableTokens(u) \in Nat
        BY <1>6, <1>8
      <3>3. CASE used + estimateTableTokens(u) > TablesBudget
        BY <1>6, <1>7, <1>9, <3>2, <3>3
      <3>4. CASE u = t
        BY <1>5, <3>4
      <3>5. CASE u \in kept \cup left /\ u # t
        BY <1>5, <1>10, <3>5
      <3> QED BY <3>1, <3>3, <3>4, <3>5
    <2>3. ASSUME NEW u \in All, Best(u, All) PROVE u \in kept'
      <3>1. u \in kept \/ (kept = {} /\ u \in left)
        BY <1>1, <1>2, <2>3 DEF FillInv, Chosen
      <3>2. CASE kept = {} /\ u \in left
        <4>1. Before(t, u) /\ Before(u, t)
          BY <1>5, <1>7, <2>3, <3>2 DEF Best
        <4>2. t = u
          BY <1>6, <1>7, <4>1, OneBest
        <4> QED BY <1>5, <3>2, <4>2
      <3> QED BY <1>10, <3>1, <3>2
    <2> QED BY <1>1, <1>3, <1>4, <2>1, <2>2, <2>3 DEF FillInv
  <1>13. OrderInv' /\ KeysInv'
    BY <1>1, <1>2, <1>3 DEF OrderInv, KeysInv
  <1>14. ClosureInv' /\ ResultInv'
    BY <1>1 DEF ClosureInv, ResultInv
  <1> QED BY <1>11, <1>12, <1>13, <1>14 DEF PruneInv

(* The result gives the number of tables it leaves out, and a strategy     *)
(* that tells whether a table is shown in part.                            *)
LEMMA ReturnKeeps ==
  ASSUME PruneInv, Return
  PROVE  PruneInv'
  <1>1. /\ stage = "trim" /\ toTrim = {} /\ stage' = "done" /\ dropped' = Cardinality(All) - Cardinality(kept)
        /\ strategy' = IF \E t \in kept : Trimmed(t) THEN "budget-trim" ELSE "term-match+fk-closure"
        /\ schema' = schema /\ tableCap' = tableCap /\ tokenCap' = tokenCap /\ expanded' = expanded /\ left' = left
        /\ kept' = kept /\ used' = used /\ toTrim' = toTrim /\ columnsOf' = columnsOf
    BY DEF Return
  <1>2. PruneTypes /\ FillInv /\ OrderInv /\ KeysInv
    BY DEF PruneInv
  <1>3. /\ Listed' = Listed /\ All' = All /\ Reach' = Reach
        /\ \A t : AllColumns(t)' = AllColumns(t) /\ keyNames(t)' = keyNames(t)
        /\ \A t : estimateTableTokens(t)' = estimateTableTokens(t) /\ Best(t, All)' = Best(t, All)
    BY <1>1, SchemaKept
  <1>4. TablesBudget' = TablesBudget /\ Full' = Full
    BY <1>1 DEF TablesBudget, Full
  <1>5. PruneTypes'
    BY <1>1, <1>2, <1>3 DEF PruneTypes
  <1>6. FillInv'
    BY <1>1, <1>2, <1>3, <1>4 DEF FillInv, Chosen
  <1>7. ResultInv'
    <2>1. \A t : Trimmed(t)' = Trimmed(t)
      BY <1>1, <1>3 DEF Trimmed
    <2>2. kept # All => dropped' > 0
      <3>1. Cardinality(kept) <= Cardinality(All) /\ (Cardinality(All) = Cardinality(kept) => All = kept)
        BY <1>2, TablesCountable, FS_Subset DEF PruneTypes
      <3> QED BY <1>1, <1>2, <3>1, TablesCountable
    <2> QED BY <1>1, <1>3, <2>1, <2>2 DEF ResultInv
  <1>8. OrderInv' /\ KeysInv' /\ ClosureInv'
    BY <1>1, <1>2, <1>3 DEF OrderInv, KeysInv, ClosureInv
  <1> QED BY <1>5, <1>6, <1>7, <1>8 DEF PruneInv

(* Trimming a table spares its keys.                                       *)
LEMMA TrimKeeps ==
  ASSUME PruneInv, TrimTable
  PROVE  PruneInv'
  <1>1. /\ stage = "trim" /\ stage' = "trim" /\ schema' = schema /\ tableCap' = tableCap /\ tokenCap' = tokenCap
        /\ expanded' = expanded /\ left' = left /\ kept' = kept /\ used' = used
    BY DEF TrimTable
  <1>2. PruneTypes /\ FillInv /\ KeysInv
    BY DEF PruneInv
  <1>3. PICK t \in toTrim : toTrim' = toTrim \ {t} /\ columnsOf' = [columnsOf EXCEPT ![t] = trimColumns(t)]
    BY DEF TrimTable
  <1>4. /\ Listed' = Listed /\ All' = All /\ Reach' = Reach
        /\ \A u : AllColumns(u)' = AllColumns(u) /\ keyNames(u)' = keyNames(u)
        /\ \A u : estimateTableTokens(u)' = estimateTableTokens(u) /\ Best(u, All)' = Best(u, All)
    BY <1>1, SchemaKept
  <1>5. TablesBudget' = TablesBudget /\ Full' = Full
    BY <1>1 DEF TablesBudget, Full
  <1>6. t \in Listed /\ schema \in Schemas /\ DOMAIN columnsOf = Listed
    BY <1>2, <1>3, TablesCountable DEF PruneTypes
  <1>7. trimColumns(t) \subseteq AllColumns(t)
    BY DEF trimColumns
  <1>8. DOMAIN columnsOf' = Listed /\ \A u \in Listed : columnsOf'[u] = IF u = t THEN trimColumns(t) ELSE columnsOf[u]
    BY <1>3, <1>6
  <1>9. PruneTypes'
    <2>1. \A u \in Listed : columnsOf'[u] \subseteq AllColumns(u)
      BY <1>2, <1>7, <1>8 DEF PruneTypes
    <2> QED BY <1>1, <1>2, <1>3, <1>4, <1>8, <2>1 DEF PruneTypes
  <1>10. KeysInv'
    <2>1. Cardinality(keyNames(t)) <= MinColumns => keyNames(t) \subseteq trimColumns(t)
      BY <1>6, KeysSurvive
    <2>2. \A u \in Listed : Cardinality(keyNames(u)) <= MinColumns => keyNames(u) \subseteq columnsOf'[u]
      BY <1>2, <1>8, <2>1 DEF KeysInv
    <2> QED BY <1>4, <2>2 DEF KeysInv
  <1>11. FillInv'
    BY <1>1, <1>2, <1>4, <1>5 DEF FillInv, Chosen
  <1>12. OrderInv' /\ ClosureInv' /\ ResultInv'
    BY <1>1 DEF OrderInv, ClosureInv, ResultInv
  <1> QED BY <1>9, <1>10, <1>11, <1>12 DEF PruneInv

(* The tables shown are charged, and trimmed if the text is too long.      *)
LEMMA MeasureKeeps ==
  ASSUME PruneInv, Measure
  PROVE  PruneInv'
  <1>1. /\ stage = "fill" /\ (left = {} \/ Full) /\ stage' = "trim" /\ toTrim' \subseteq kept
        /\ schema' = schema /\ tableCap' = tableCap /\ tokenCap' = tokenCap
        /\ expanded' = expanded /\ left' = left /\ kept' = kept /\ used' = used /\ columnsOf' = columnsOf
    BY DEF Measure
  <1>2. PruneTypes /\ FillInv /\ KeysInv
    BY DEF PruneInv
  <1>3. /\ Listed' = Listed /\ All' = All /\ Reach' = Reach
        /\ \A t : AllColumns(t)' = AllColumns(t) /\ keyNames(t)' = keyNames(t)
        /\ \A t : estimateTableTokens(t)' = estimateTableTokens(t) /\ Best(t, All)' = Best(t, All)
    BY <1>1, SchemaKept
  <1>4. TablesBudget' = TablesBudget /\ Full' = Full
    BY <1>1 DEF TablesBudget, Full
  <1>5. PruneTypes' /\ KeysInv'
    BY <1>1, <1>2, <1>3 DEF PruneTypes, KeysInv
  <1>6. FillInv'
    BY <1>1, <1>2, <1>3, <1>4 DEF FillInv, Chosen
  <1>7. OrderInv' /\ ClosureInv' /\ ResultInv'
    BY <1>1 DEF OrderInv, ClosureInv, ResultInv
  <1> QED BY <1>5, <1>6, <1>7 DEF PruneInv

(* The start of a pruning, the first one and the one with half the limits. *)
LEMMA BeginKeeps ==
  ASSUME PruneInv, SendWhole \/ StartClosure \/ Shrink
  PROVE  PruneInv'
  <1>1. schema' = schema
    BY DEF SendWhole, StartClosure, Shrink
  <1>2. PruneTypes /\ OrderInv /\ KeysInv
    BY DEF PruneInv
  <1>3. /\ Listed' = Listed /\ All' = All /\ Seeds' = Seeds
        /\ \A t : AllColumns(t)' = AllColumns(t) /\ keyNames(t)' = keyNames(t)
    BY <1>1, SchemaKept
  <1>4. Seeds \subseteq All
    BY DEF Seeds
  <1>5. CASE SendWhole
    <2>1. /\ stage = "start" /\ kept' = All /\ strategy' = "none" /\ stage' = "done" /\ tableCap' = tableCap
          /\ tokenCap' = tokenCap /\ expanded' = expanded /\ left' = left /\ used' = used /\ toTrim' = toTrim
          /\ columnsOf' = columnsOf
      BY <1>5 DEF SendWhole
    <2>2. toTrim = {} /\ \A t \in Listed : columnsOf[t] = AllColumns(t)
      BY <1>2, <2>1 DEF OrderInv
    <2>3. PruneTypes' /\ KeysInv' /\ OrderInv'
      BY <1>1, <1>2, <1>3, <2>1, <2>2 DEF PruneTypes, KeysInv, OrderInv
    <2>4. ClosureInv' /\ FillInv'
      BY <2>1 DEF ClosureInv, FillInv, Chosen
    <2>5. ResultInv'
      <3>1. \A t \in kept' : t \in Listed
        BY <1>2, <2>1, TablesCountable
      <3>2. \A t \in kept' : ~Trimmed(t)'
        BY <1>3, <2>1, <2>2, <3>1 DEF Trimmed
      <3> QED BY <1>3, <2>1, <3>2 DEF ResultInv
    <2> QED BY <2>3, <2>4, <2>5 DEF PruneInv
  <1>6. CASE StartClosure
    <2>1. /\ stage = "start" /\ expanded' = Seeds /\ frontier' = Seeds /\ hop' = 0 /\ stage' = "closure"
          /\ tableCap' = tableCap /\ tokenCap' = tokenCap /\ left' = left /\ kept' = kept /\ used' = used
          /\ toTrim' = toTrim /\ columnsOf' = columnsOf
      BY <1>6 DEF StartClosure
    <2>2. PruneTypes' /\ KeysInv' /\ OrderInv'
      BY <1>1, <1>2, <1>3, <1>4, <2>1 DEF PruneTypes, KeysInv, OrderInv
    <2>3. ClosureInv'
      BY <1>3, <2>1 DEF ClosureInv
    <2>4. FillInv' /\ ResultInv'
      BY <2>1 DEF FillInv, ResultInv, Chosen
    <2> QED BY <2>2, <2>3, <2>4 DEF PruneInv
  <1>7. CASE Shrink
    <2>1. /\ stage = "done" /\ stage' = "start" /\ tableCap' = Most(ShrunkTables, Cardinality(kept) \div 2)
          /\ tokenCap' = Most(ShrunkTokens, MaxTokens \div 2) /\ kept' = {} /\ used' = 0 /\ left' = {}
          /\ expanded' = {} /\ columnsOf' = [t \in Listed |-> AllColumns(t)] /\ toTrim' = toTrim
      BY <1>7 DEF Shrink
    <2>2. tableCap' \in Nat \ {0}
      <3>1. Cardinality(kept) \div 2 \in Nat
        BY <1>2, TablesCountable
      <3> QED BY <2>1, <3>1, PruneAssumption DEF Most
    <2>3. tokenCap' \in Nat
      BY <2>1, PruneAssumption DEF Most
    <2>4. toTrim' = {}
      BY <1>2, <2>1 DEF OrderInv
    <2>5. DOMAIN columnsOf' = Listed /\ \A t \in Listed : columnsOf'[t] = AllColumns(t)
      BY <2>1
    <2>6. PruneTypes'
      BY <1>1, <1>2, <1>3, <2>1, <2>2, <2>3, <2>4, <2>5 DEF PruneTypes
    <2>7. OrderInv'
      BY <1>3, <2>1, <2>4, <2>5 DEF OrderInv
    <2>8. \A t : keyNames(t) \subseteq AllColumns(t)
      BY DEF keyNames, OwnKeys
    <2>9. KeysInv'
      BY <1>3, <2>5, <2>8 DEF KeysInv
    <2>10. ClosureInv' /\ FillInv' /\ ResultInv'
      BY <2>1 DEF ClosureInv, FillInv, ResultInv, Chosen
    <2> QED BY <2>6, <2>7, <2>9, <2>10 DEF PruneInv
  <1> QED BY <1>5, <1>6, <1>7

(* For every schema and every question, budget and limit: what the schema  *)
(* of a prompt leaves out it can do without or tells (pruneCatalog).       *)
THEOREM PruneCorrect == PruneSpec => []PruneSound
  <1>1. PruneInit => PruneInv
    <2> SUFFICES ASSUME PruneInit PROVE PruneInv
      OBVIOUS
    <2>1. /\ schema \in Schemas /\ tableCap = MaxTables /\ tokenCap = MaxTokens /\ stage = "start" /\ expanded = {}
          /\ left = {} /\ kept = {} /\ used = 0 /\ toTrim = {} /\ columnsOf = [t \in Listed |-> AllColumns(t)]
      BY DEF PruneInit, PruneStart
    <2>2. DOMAIN columnsOf = Listed /\ \A t \in Listed : columnsOf[t] = AllColumns(t)
      BY <2>1
    <2>3. PruneTypes
      BY <2>1, <2>2, PruneAssumption DEF PruneTypes
    <2>4. KeysInv
      BY <2>2 DEF KeysInv, keyNames, OwnKeys
    <2>5. OrderInv /\ ClosureInv /\ FillInv /\ ResultInv
      BY <2>1, <2>2 DEF OrderInv, ClosureInv, FillInv, ResultInv, Chosen
    <2> QED BY <2>3, <2>4, <2>5 DEF PruneInv
  <1>2. PruneInv /\ [PruneNext]_pruneVars => PruneInv'
    <2> SUFFICES ASSUME PruneInv, [PruneNext]_pruneVars PROVE PruneInv'
      OBVIOUS
    <2>1. CASE PruneNext
      BY <2>1, BeginKeeps, HopKeeps, RankKeeps, KeepKeeps, MeasureKeeps, TrimKeeps, ReturnKeeps DEF PruneNext
    <2>2. CASE UNCHANGED pruneVars
      <3>1. /\ schema' = schema /\ tableCap' = tableCap /\ tokenCap' = tokenCap /\ stage' = stage
            /\ expanded' = expanded /\ frontier' = frontier /\ hop' = hop /\ left' = left /\ kept' = kept
            /\ used' = used /\ toTrim' = toTrim /\ columnsOf' = columnsOf /\ dropped' = dropped /\ strategy' = strategy
        BY <2>2 DEF pruneVars
      <3>2. /\ Listed' = Listed /\ All' = All /\ Seeds' = Seeds /\ Near' = Near /\ Reach' = Reach
            /\ \A t : AllColumns(t)' = AllColumns(t) /\ keyNames(t)' = keyNames(t)
            /\ \A t : estimateTableTokens(t)' = estimateTableTokens(t) /\ Best(t, All)' = Best(t, All)
        BY <3>1, SchemaKept
      <3>3. TablesBudget' = TablesBudget /\ Full' = Full /\ \A t : Trimmed(t)' = Trimmed(t)
        BY <3>1, <3>2 DEF TablesBudget, Full, Trimmed
      <3>4. PruneTypes' /\ KeysInv' /\ OrderInv'
        BY <3>1, <3>2 DEF PruneInv, PruneTypes, KeysInv, OrderInv
      <3>5. ClosureInv'
        BY <3>1, <3>2 DEF PruneInv, ClosureInv
      <3>6. FillInv'
        BY <3>1, <3>2, <3>3 DEF PruneInv, FillInv, Chosen
      <3>7. ResultInv'
        BY <3>1, <3>2, <3>3 DEF PruneInv, ResultInv
      <3> QED BY <3>4, <3>5, <3>6, <3>7 DEF PruneInv
    <2> QED BY <2>1, <2>2
  <1>3. PruneInv => PruneSound
    <2> SUFFICES ASSUME PruneInv PROVE PruneSound
      OBVIOUS
    <2>1. kept \subseteq All /\ All \subseteq Listed /\ schema \in Schemas /\ tableCap \in Nat \ {0}
      BY TablesCountable DEF PruneInv, PruneTypes
    <2>2. JoinsShown
      <3> SUFFICES ASSUME NEW t \in kept, NEW u \in kept, NEW fk \in Table(t).fks, u \in Referred(fk)
                   PROVE  /\ Cardinality(keyNames(t)) <= MinColumns =>
                               \A i \in DOMAIN fk.cols : fk.cols[i] \in AllColumns(t) => fk.cols[i] \in columnsOf[t]
                          /\ Cardinality(keyNames(u)) <= MinColumns =>
                               \A i \in DOMAIN fk.refCols : fk.refCols[i] \in AllColumns(u) => fk.refCols[i] \in columnsOf[u]
        BY DEF JoinsShown
      <3>1. fk.name = Table(u).name
        BY DEF Referred
      <3>2. \A i \in DOMAIN fk.cols : fk.cols[i] \in AllColumns(t) => fk.cols[i] \in keyNames(t)
        BY DEF keyNames, OwnKeys
      <3>3. \A i \in DOMAIN fk.refCols : fk.refCols[i] \in AllColumns(u) => fk.refCols[i] \in keyNames(u)
        BY <2>1, <3>1 DEF keyNames
      <3> QED BY <2>1, <3>2, <3>3 DEF PruneInv, KeysInv
    <2>3. NoRoomWasted
      BY DEF PruneInv, FillInv, NoRoomWasted, Chosen
    <2>4. LeftOutTold
      <3> SUFFICES ASSUME stage = "done"
                   PROVE  /\ \A t \in All : Best(t, All) => t \in kept
                          /\ kept # All => dropped > 0
                          /\ \A t \in kept : Trimmed(t) => Marker(t) > 0 /\ strategy = "budget-trim"
        BY DEF LeftOutTold
      <3>1. ASSUME NEW t \in All, Best(t, All) PROVE t \in kept
        <4>1. CASE strategy = "none"
          BY <4>1 DEF PruneInv, ResultInv
        <4>2. CASE strategy # "none"
          <5>1. (t \in kept \/ (kept = {} /\ t \in left)) /\ (left = {} \/ Full)
            BY <3>1, <4>2 DEF PruneInv, FillInv, Chosen
          <5>2. kept = {} => ~Full
            BY <2>1, FS_EmptySet DEF Full
          <5> QED BY <5>1, <5>2
        <4> QED BY <4>1, <4>2
      <3>2. ASSUME NEW t \in kept, Trimmed(t) PROVE Marker(t) > 0
        <4>1. t \in Listed /\ columnsOf[t] \subseteq AllColumns(t) /\ columnsOf[t] # AllColumns(t)
          BY <2>1, <3>2 DEF PruneInv, PruneTypes, Trimmed
        <4>2. IsFiniteSet(AllColumns(t))
          BY <2>1, <4>1, SchemaFinite
        <4>3. /\ IsFiniteSet(columnsOf[t]) /\ Cardinality(columnsOf[t]) <= Cardinality(AllColumns(t))
              /\ Cardinality(columnsOf[t]) # Cardinality(AllColumns(t))
          BY <4>1, <4>2, FS_Subset
        <4>4. Cardinality(columnsOf[t]) \in Nat /\ Cardinality(AllColumns(t)) \in Nat
          BY <4>2, <4>3, FS_CardinalityType
        <4> QED BY <4>3, <4>4 DEF Marker
      <3> QED BY <3>1, <3>2 DEF PruneInv, ResultInv
    <2> QED BY <2>2, <2>3, <2>4 DEF PruneSound
  <1> QED BY <1>1, <1>2, <1>3, PTL DEF PruneSpec

-----------------------------------------------------------------------------
(* Numbers and orders *)

(* A set of numbers that is not empty has a least one.                     *)
LEMMA LeastOfNaturals ==
  ASSUME NEW S, S \subseteq Nat, S # {}
  PROVE  Min(S) \in S /\ \A y \in S : Min(S) <= y
  <1>1. PICK x \in S : \A y \in S : <<y, x>> \notin OpToRel(<, Nat)
    BY NatLessThanWellFounded, WFMin
  <1>2. \A y \in S : y < x => <<y, x>> \in OpToRel(<, Nat)
    BY Zenon DEF OpToRel
  <1>3. \A y \in S : ~(y < x)
    BY <1>1, <1>2, Zenon
  <1>4. \A y \in S : x <= y
    BY <1>3
  <1> QED BY <1>4 DEF Min

(* The lesser of two numbers.                                              *)
LEMMA LesserOfTwo ==
  ASSUME NEW a \in Nat, NEW b \in Nat
  PROVE  Min({a, b}) = IF a <= b THEN a ELSE b
  <1>1. Min({a, b}) \in {a, b} /\ \A y \in {a, b} : Min({a, b}) <= y
    BY LeastOfNaturals
  <1> QED BY <1>1

(* What holds of 0 and of the successor of each number it holds of, holds  *)
(* of every number.                                                        *)
LEMMA InductionOnNat ==
  ASSUME NEW S, S \subseteq Nat, 0 \in S, \A n \in S : n + 1 \in S
  PROVE  S = Nat
  <1> DEFINE rest == Nat \ S
  <1>1. CASE rest # {}
    <2>1. Min(rest) \in rest /\ \A y \in rest : Min(rest) <= y
      BY <1>1, LeastOfNaturals
    <2>2. Min(rest) # 0 /\ Min(rest) - 1 \in Nat
      BY <2>1
    <2>3. Min(rest) - 1 \in S
      BY <2>1, <2>2
    <2> QED BY <2>1, <2>2, <2>3
  <1> QED BY <1>1

(* A set of numbers with a bound that is not empty has a greatest one.     *)
LEMMA GreatestOfNaturals ==
  ASSUME NEW n \in Nat, NEW S, S \subseteq 1..n, S # {}
  PROVE  \E k \in S : \A j \in S : j <= k
  <1> DEFINE bounds == {m \in Nat : \A j \in S : j <= m}
  <1>1. n \in bounds /\ bounds \subseteq Nat
    OBVIOUS
  <1>2. Min(bounds) \in bounds /\ \A y \in bounds : Min(bounds) <= y
    BY <1>1, LeastOfNaturals
  <1>3. Min(bounds) \in S
    <2>1. SUFFICES ASSUME Min(bounds) \notin S PROVE FALSE
      OBVIOUS
    <2>2. \A j \in S : j <= Min(bounds) - 1
      BY <1>2, <2>1
    <2>3. Min(bounds) - 1 \in Nat
      <3>1. PICK j \in S : j \in 1..n
        OBVIOUS
      <3>2. j <= Min(bounds) - 1 /\ Min(bounds) \in Nat
        BY <2>2, <1>2
      <3> QED BY <3>1, <3>2
    <2>4. Min(bounds) - 1 \in bounds
      BY <2>2, <2>3
    <2> QED BY <1>2, <2>4
  <1> QED BY <1>2, <1>3

(* In a finite set that is in order, every element has its own number of   *)
(* elements before it, and every number of them, below the size of the set, *)
(* is the number of some element.                                          *)
InOrder(S, Below) ==
  /\ Below \in [S -> SUBSET S]
  /\ \A x \in S : x \notin Below[x]
  /\ \A x, y \in S : x # y => x \in Below[y] \/ y \in Below[x]
  /\ \A x, y \in S : x \in Below[y] => Below[x] \subseteq Below[y]
Ranked(S, Below) ==
  /\ Cardinality(S) \in Nat
  /\ \A x \in S : Cardinality(Below[x]) \in Nat /\ Cardinality(Below[x]) < Cardinality(S)
  /\ \A x, y \in S : x \in Below[y] => Cardinality(Below[x]) < Cardinality(Below[y])
  /\ \A x, y \in S : Cardinality(Below[x]) = Cardinality(Below[y]) => x = y
  /\ \A m \in Nat : m < Cardinality(S) => \E x \in S : Cardinality(Below[x]) = m

LEMMA RankOnto ==
  ASSUME NEW S, IsFiniteSet(S), NEW Below, InOrder(S, Below)
  PROVE  Ranked(S, Below)
  <1> DEFINE c == Cardinality(S)  rank == [x \in S |-> Cardinality(Below[x])]
  <1>1. c \in Nat
    BY FS_CardinalityType
  <1>0. /\ Below \in [S -> SUBSET S]
        /\ \A x \in S : x \notin Below[x]
        /\ \A x, y \in S : x # y => x \in Below[y] \/ y \in Below[x]
        /\ \A x, y \in S : x \in Below[y] => Below[x] \subseteq Below[y]
    BY DEF InOrder
  <1>2. \A x \in S : IsFiniteSet(Below[x]) /\ Cardinality(Below[x]) \in Nat
    <2>1. \A x \in S : IsFiniteSet(Below[x])
      BY <1>0, FS_Subset
    <2> QED BY <2>1, FS_CardinalityType
  <1>3. ASSUME NEW A, NEW B, IsFiniteSet(B), A \subseteq B, A # B
        PROVE  Cardinality(A) < Cardinality(B)
    <2>1. Cardinality(A) <= Cardinality(B) /\ Cardinality(A) # Cardinality(B) /\ IsFiniteSet(A)
      BY <1>3, FS_Subset
    <2>2. Cardinality(A) \in Nat /\ Cardinality(B) \in Nat
      BY <1>3, <2>1, FS_CardinalityType
    <2> QED BY <2>1, <2>2
  <1>4. \A x \in S : Cardinality(Below[x]) < c
    BY <1>0, <1>3
  <1>5. \A x, y \in S : x \in Below[y] => Cardinality(Below[x]) < Cardinality(Below[y])
    <2>1. SUFFICES ASSUME NEW x \in S, NEW y \in S, x \in Below[y] PROVE Cardinality(Below[x]) < Cardinality(Below[y])
      OBVIOUS
    <2>2. Below[x] \subseteq Below[y] /\ Below[x] # Below[y]
      BY <1>0, <2>1
    <2> QED BY <2>2, <1>2, <1>3
  <1>6. \A x, y \in S : Cardinality(Below[x]) = Cardinality(Below[y]) => x = y
    BY <1>0, <1>2, <1>5
  <1>7. rank \in Injection(S, 0..(c - 1))
    <2>1. \A x \in S : rank[x] \in 0..(c - 1)
      BY <1>1, <1>2, <1>4
    <2> HIDE DEF c
    <2>2. rank \in [S -> 0..(c - 1)]
      BY <2>1
    <2>3. \A x, y \in S : rank[x] = rank[y] => x = y
      BY <1>6
    <2> HIDE DEF rank
    <2> QED BY <2>2, <2>3 DEF Injection, IsInjective
  <1>8. Cardinality(0..(c - 1)) = c /\ IsFiniteSet(0..(c - 1))
    <2>1. 0 \in Int /\ c - 1 \in Int
      BY <1>1
    <2>2. /\ IsFiniteSet(0..(c - 1))
          /\ Cardinality(0..(c - 1)) = IF 0 > c - 1 THEN 0 ELSE (c - 1) - 0 + 1
      <3> HIDE DEF c
      <3> QED BY <2>1, FS_Interval
    <2> HIDE DEF c
    <2> QED BY <1>1, <2>2
  <1>9. rank \in Surjection(S, 0..(c - 1))
    <2> HIDE DEF rank
    <2> QED BY <1>7, <1>8, FS_Injection
  <1>10. \A m \in Nat : m < c => \E x \in S : Cardinality(Below[x]) = m
    <2>1. SUFFICES ASSUME NEW m \in Nat, m < c PROVE \E x \in S : Cardinality(Below[x]) = m
      OBVIOUS
    <2>2. m \in 0..(c - 1)
      BY <1>1, <2>1
    <2>3. \E x \in S : rank[x] = m
      <3> HIDE DEF rank, c
      <3> QED BY <1>9, <2>2 DEF Surjection
    <2> QED BY <2>3
  <1> QED BY <1>1, <1>2, <1>4, <1>5, <1>6, <1>10 DEF Ranked

(* The places of a text that are read, in order.                           *)
LEMMA PlacesRanked ==
  ASSUME NEW n \in Nat, NEW K, K \subseteq 1..n
  PROVE  /\ IsFiniteSet(K) /\ Cardinality(K) \in Nat
         /\ \A k \in K : /\ Cardinality({j \in K : j <= k}) \in 1..Cardinality(K)
                         /\ Cardinality({j \in K : j < k}) = Cardinality({j \in K : j <= k}) - 1
         /\ \A m \in 1..Cardinality(K) : \E k \in K : Cardinality({j \in K : j <= k}) = m
         /\ \A k, l \in K : k < l => Cardinality({j \in K : j <= k}) < Cardinality({j \in K : j <= l})
  <1> DEFINE Below == [k \in K |-> {j \in K : j < k}]
  <1>1. IsFiniteSet(K)
    <2>1. IsFiniteSet(1..n)
      BY FS_Interval
    <2> QED BY <2>1, FS_Subset
  <1>2. Below \in [K -> SUBSET K]
    OBVIOUS
  <1>0. \A k \in K : k \in Nat
    OBVIOUS
  <1>31. \A x \in K : x \notin Below[x]
    BY <1>0
  <1>32. \A x, y \in K : x # y => x \in Below[y] \/ y \in Below[x]
    BY <1>0
  <1>33. \A x, y \in K : x \in Below[y] => Below[x] \subseteq Below[y]
    <2>1. SUFFICES ASSUME NEW x \in K, NEW y \in K, x \in Below[y], NEW j \in Below[x] PROVE j \in Below[y]
      OBVIOUS
    <2>2. j \in K /\ j < x /\ x < y
      BY <2>1
    <2>3. j < y
      BY <1>0, <2>2
    <2> QED BY <2>2, <2>3
  <1>4. /\ Cardinality(K) \in Nat
        /\ \A x \in K : Cardinality(Below[x]) \in Nat /\ Cardinality(Below[x]) < Cardinality(K)
        /\ \A x, y \in K : x \in Below[y] => Cardinality(Below[x]) < Cardinality(Below[y])
        /\ \A m \in Nat : m < Cardinality(K) => \E x \in K : Cardinality(Below[x]) = m
    <2> HIDE DEF Below
    <2>1. InOrder(K, Below)
      BY <1>2, <1>31, <1>32, <1>33 DEF InOrder
    <2>2. Ranked(K, Below)
      BY <1>1, <2>1, RankOnto
    <2> QED BY <2>2 DEF Ranked
  <1>5. \A k \in K : Cardinality({j \in K : j <= k}) = Cardinality(Below[k]) + 1
    <2>1. SUFFICES ASSUME NEW k \in K PROVE Cardinality({j \in K : j <= k}) = Cardinality(Below[k]) + 1
      OBVIOUS
    <2>2. {j \in K : j <= k} = Below[k] \union {k} /\ k \notin Below[k]
      <3>1. \A j \in K : j <= k <=> j < k \/ j = k
        BY <1>0
      <3>2. k \notin Below[k]
        BY <1>31
      <3> QED BY <3>1, <3>2
    <2>3. IsFiniteSet(Below[k])
      BY <1>1, FS_Subset
    <2> HIDE DEF Below
    <2> QED BY <2>2, <2>3, FS_AddElement
  <1>6. \A m \in 1..Cardinality(K) : \E k \in K : Cardinality({j \in K : j <= k}) = m
    <2>1. SUFFICES ASSUME NEW m \in 1..Cardinality(K) PROVE \E k \in K : Cardinality({j \in K : j <= k}) = m
      OBVIOUS
    <2>2. m - 1 \in Nat /\ m - 1 < Cardinality(K)
      BY <1>4
    <2>3. PICK k \in K : Cardinality(Below[k]) = m - 1
      BY <2>2, <1>4
    <2>4. Cardinality({j \in K : j <= k}) = m
      <3> HIDE DEF Below
      <3> QED BY <2>3, <1>5, <1>4
    <2> QED BY <2>4
  <1>7. \A k, l \in K : k < l => Cardinality({j \in K : j <= k}) < Cardinality({j \in K : j <= l})
    <2>1. SUFFICES ASSUME NEW k \in K, NEW l \in K, k < l
                   PROVE  Cardinality({j \in K : j <= k}) < Cardinality({j \in K : j <= l})
      OBVIOUS
    <2>2. k \in Below[l]
      BY <2>1
    <2>3. Cardinality({j \in K : j <= k}) = Cardinality(Below[k]) + 1 /\ Cardinality({j \in K : j <= l}) = Cardinality(Below[l]) + 1
      BY <1>5
    <2> HIDE DEF Below
    <2>4. Cardinality(Below[k]) < Cardinality(Below[l]) /\ Cardinality(Below[k]) \in Nat /\ Cardinality(Below[l]) \in Nat
      BY <2>2, <1>4
    <2> QED BY <2>3, <2>4
  <1>8. \A k \in K : {j \in K : j < k} = Below[k]
    OBVIOUS
  <1>9. \A k \in K : /\ Cardinality({j \in K : j <= k}) \in 1..Cardinality(K)
                     /\ Cardinality({j \in K : j < k}) = Cardinality({j \in K : j <= k}) - 1
    <2>1. SUFFICES ASSUME NEW k \in K
                   PROVE  /\ Cardinality({j \in K : j <= k}) \in 1..Cardinality(K)
                          /\ Cardinality({j \in K : j < k}) = Cardinality({j \in K : j <= k}) - 1
      OBVIOUS
    <2> DEFINE upTo == Cardinality({j \in K : j <= k})  before == Cardinality({j \in K : j < k})
    <2>2. upTo = before + 1 /\ before \in Nat /\ before < Cardinality(K)
      BY <1>4, <1>5, <1>8, Zenon
    <2> HIDE DEF upTo, before
    <2>3. upTo \in 1..Cardinality(K) /\ before = upTo - 1
      BY <2>2, <1>4
    <2> QED BY <2>3 DEF upTo, before
  <1> QED BY <1>1, <1>4, <1>6, <1>7, <1>9

-----------------------------------------------------------------------------
(* Stores *)

(* The places of a log, counted from the newest.                           *)
Later(S) == [i \in S |-> {j \in S : j > i}]

LEMMA SinceRanked ==
  ASSUME NEW S, S \subseteq Nat, IsFiniteSet(S)
  PROVE  /\ Cardinality(S) \in Nat
         /\ \A i \in S : Since(i, S) \in Nat /\ Since(i, S) < Cardinality(S) /\ IsFiniteSet({j \in S : j > i})
         /\ \A i, j \in S : j > i => Since(j, S) < Since(i, S)
         /\ \A i, j \in S : Since(j, S) < Since(i, S) => j > i
         /\ \A m \in Nat : m < Cardinality(S) => \E i \in S : Since(i, S) = m
  <1>1. InOrder(S, Later(S))
    <2>1. Later(S) \in [S -> SUBSET S]
      BY DEF Later
    <2>2. \A x \in S : Later(S)[x] = {j \in S : j > x}
      BY DEF Later
    <2>3. \A x \in S : x \in Nat
      OBVIOUS
    <2>4. \A x \in S : x \notin Later(S)[x]
      BY <2>2, <2>3
    <2>5. \A x, y \in S : x # y => x \in Later(S)[y] \/ y \in Later(S)[x]
      BY <2>2, <2>3
    <2>6. \A x, y \in S : x \in Later(S)[y] => Later(S)[x] \subseteq Later(S)[y]
      <3>1. SUFFICES ASSUME NEW x \in S, NEW y \in S, x \in Later(S)[y], NEW j \in Later(S)[x] PROVE j \in Later(S)[y]
        OBVIOUS
      <3>2. j \in S /\ j > x /\ x > y
        BY <2>2, <3>1
      <3>3. j > y
        BY <2>3, <3>2
      <3> QED BY <2>2, <3>2, <3>3
    <2> QED BY <2>1, <2>4, <2>5, <2>6 DEF InOrder
  <1>2. Ranked(S, Later(S))
    BY <1>1, RankOnto
  <1>3. \A i \in S : Since(i, S) = Cardinality(Later(S)[i])
    BY DEF Since, Later
  <1>4. \A i, j \in S : j > i => Since(j, S) < Since(i, S)
    <2>1. \A i, j \in S : j > i => j \in Later(S)[i]
      BY DEF Later
    <2> QED BY <2>1, <1>2, <1>3 DEF Ranked
  <1>5. \A i \in S : Since(i, S) \in Nat /\ Since(i, S) < Cardinality(S)
    BY <1>2, <1>3 DEF Ranked
  <1>6. \A i, j \in S : Since(j, S) < Since(i, S) => j > i
    <2>1. SUFFICES ASSUME NEW i \in S, NEW j \in S, Since(j, S) < Since(i, S) PROVE j > i
      OBVIOUS
    <2>2. i > j => Since(i, S) < Since(j, S)
      BY <1>4
    <2>3. i # j
      BY <2>1, <1>5
    <2> QED BY <2>1, <2>2, <2>3, <1>5
  <1>7. \A i \in S : IsFiniteSet({j \in S : j > i})
    BY FS_Subset
  <1>8. Cardinality(S) \in Nat /\ \A m \in Nat : m < Cardinality(S) => \E i \in S : Since(i, S) = m
    BY <1>2, <1>3 DEF Ranked
  <1> QED BY <1>4, <1>5, <1>6, <1>7, <1>8

(* What a list of the newest holds at each place.                          *)
ListEntry(list, log, S, cap, n) == \E i \in S : Since(i, S) = n - 1 /\ Since(i, S) < cap /\ list[n] = log[i]
LEMMA ListHolds ==
  ASSUME NEW S, S \subseteq Nat, IsFiniteSet(S), NEW cap \in Nat, NEW list, NEW log, ListsNewest(list, log, S, cap)
  PROVE  /\ Len(list) \in Nat /\ Len(list) <= cap /\ Len(list) <= Cardinality(S)
         /\ Len(list) = cap \/ Len(list) = Cardinality(S)
         /\ \A i \in S : Since(i, S) < cap => Since(i, S) + 1 \in 1..Len(list)
         /\ \A n \in 1..Len(list) : ListEntry(list, log, S, cap, n)
  <1>1. Cardinality(S) \in Nat
    BY SinceRanked
  <1>2. Len(list) = IF cap <= Cardinality(S) THEN cap ELSE Cardinality(S)
    BY <1>1, LesserOfTwo DEF ListsNewest
  <1>3. \A i \in S : Since(i, S) \in Nat /\ Since(i, S) < Cardinality(S)
    BY SinceRanked
  <1>4. ASSUME NEW n \in 1..Len(list)
        PROVE  ListEntry(list, log, S, cap, n)
    <2>1. n - 1 \in Nat /\ n - 1 < Cardinality(S) /\ n - 1 < cap
      BY <1>1, <1>2
    <2>2. PICK i \in S : Since(i, S) = n - 1
      BY <2>1, SinceRanked
    <2>3. list[Since(i, S) + 1] = log[i] /\ Since(i, S) + 1 = n
      BY <2>1, <2>2 DEF ListsNewest
    <2> QED BY <2>1, <2>2, <2>3 DEF ListEntry
  <1>5. \A i \in S : Since(i, S) < cap => Since(i, S) + 1 \in 1..Len(list)
    BY <1>1, <1>2, <1>3
  <1> QED BY <1>1, <1>2, <1>4, <1>5

(* unshift, then cut at the cap: one entry more, the newest.               *)
LEMMA ListAdd ==
  ASSUME NEW S, S \subseteq Nat, IsFiniteSet(S), NEW x \in Nat, \A i \in S : i < x,
         NEW cap \in Nat, NEW c \in Nat, c = cap \/ c + 1 = cap,
         NEW V, NEW list \in Seq(V), NEW e \in V, NEW log, NEW log2, ListsNewest(list, log, S, c),
         \A i \in S : log2[i] = log[i], log2[x] = e
  PROVE  ListsNewest(Newest(<<e>> \o list, cap), log2, S \union {x}, cap)
  <1> DEFINE T == S \union {x}  long == <<e>> \o list  new == Newest(long, cap)
  <1>1. x \notin S /\ T \subseteq Nat
    <2>1. ~(x < x)
      OBVIOUS
    <2> QED BY <2>1
  <1>2. Cardinality(S) \in Nat /\ IsFiniteSet(T) /\ Cardinality(T) = Cardinality(S) + 1
    BY <1>1, FS_AddElement, FS_CardinalityType
  <1>3. Since(x, T) = 0
    <2>1. {j \in T : j > x} = {}
      <3>1. \A j \in S : j \in Nat /\ ~(j > x)
        OBVIOUS
      <3>2. ~(x > x)
        OBVIOUS
      <3> QED BY <3>1, <3>2
    <2> QED BY <2>1, FS_EmptySet DEF Since
  <1>4. ASSUME NEW i \in S PROVE Since(i, T) = Since(i, S) + 1
    <2>1. {j \in T : j > i} = {j \in S : j > i} \union {x} /\ x \notin {j \in S : j > i}
      BY <1>1
    <2>2. IsFiniteSet({j \in S : j > i})
      BY FS_Subset
    <2> QED BY <2>1, <2>2, FS_AddElement DEF Since
  <1>5. /\ Len(list) \in Nat /\ Len(list) <= c /\ Len(list) <= Cardinality(S)
        /\ Len(list) = c \/ Len(list) = Cardinality(S)
    BY ListHolds
  <1>6. /\ long \in Seq(V) /\ Len(long) = Len(list) + 1 /\ long[1] = e
        /\ \A n \in 1..Len(list) : long[n + 1] = list[n]
    OBVIOUS
  <1> HIDE DEF long
  <1>7. /\ Len(new) = IF Len(long) > cap THEN cap ELSE Len(long)
        /\ \A n \in 1..Len(new) : new[n] = long[n]
    BY <1>5, <1>6 DEF Newest
  <1> HIDE DEF new
  <1>8. Len(new) = Min({cap, Cardinality(T)})
    <2> HIDE DEF T
    <2>1. Min({cap, Cardinality(T)}) = IF cap <= Cardinality(T) THEN cap ELSE Cardinality(T)
      <3>1. Cardinality(T) \in Nat
        BY <1>2
      <3> QED BY <3>1, LesserOfTwo
    <2> QED BY <2>1, <1>2, <1>5, <1>6, <1>7
  <1>9. ASSUME NEW i \in T, Since(i, T) < cap PROVE new[Since(i, T) + 1] = log2[i]
    <2>1. CASE i = x
      <3>1. Since(i, T) + 1 = 1 /\ cap > 0
        BY <2>1, <1>3, <1>9
      <3>2. 1 \in 1..Len(new)
        BY <3>1, <1>5, <1>6, <1>7
      <3> QED BY <2>1, <3>1, <3>2, <1>6, <1>7
    <2>2. CASE i \in S
      <3>1. Since(i, S) \in Nat /\ Since(i, T) = Since(i, S) + 1
        BY <2>2, <1>4, SinceRanked
      <3>2. Since(i, S) < c
        BY <3>1, <1>9
      <3>3. Since(i, S) + 1 \in 1..Len(list) /\ list[Since(i, S) + 1] = log[i]
        <4>1. list[Since(i, S) + 1] = log[i]
          BY <2>2, <3>2 DEF ListsNewest
        <4>2. Since(i, S) + 1 \in 1..Len(list)
          BY <2>2, <3>2, ListHolds
        <4> QED BY <4>1, <4>2
      <3>4. long[Since(i, S) + 1 + 1] = log[i]
        BY <3>3, <1>6
      <3>5. Since(i, T) + 1 \in 1..Len(new)
        BY <3>1, <3>3, <1>9, <1>5, <1>6, <1>7
      <3> QED BY <2>2, <3>1, <3>4, <3>5, <1>7
    <2> QED BY <2>1, <2>2
  <1> QED BY <1>8, <1>9 DEF ListsNewest, long, new

(* Without one of its places, the others of a set count from the newest as *)
(* before, or one less.                                                    *)
LEMMA SinceDrop ==
  ASSUME NEW S, S \subseteq Nat, IsFiniteSet(S), NEW r \in S, NEW i \in S \ {r}
  PROVE  /\ i > r => Since(i, S \ {r}) = Since(i, S) /\ Since(i, S) < Since(r, S)
         /\ i < r => Since(i, S \ {r}) = Since(i, S) - 1 /\ Since(r, S) < Since(i, S)
         /\ i > r \/ i < r
  <1>1. i \in Nat /\ r \in Nat /\ i # r
    OBVIOUS
  <1>2. IsFiniteSet({j \in S : j > i})
    BY SinceRanked
  <1>3. CASE i > r
    <2>1. {j \in S \ {r} : j > i} = {j \in S : j > i}
      BY <1>1, <1>3
    <2>2. Since(i, S) < Since(r, S)
      BY <1>3, SinceRanked
    <2> QED BY <1>1, <1>3, <2>1, <2>2 DEF Since
  <1>4. CASE i < r
    <2>1. {j \in S \ {r} : j > i} = {j \in S : j > i} \ {r} /\ r \in {j \in S : j > i}
      BY <1>1, <1>4
    <2>2. Since(i, S \ {r}) = Since(i, S) - 1
      BY <2>1, <1>2, FS_RemoveElement DEF Since
    <2>3. Since(r, S) < Since(i, S)
      BY <1>1, <1>4, SinceRanked
    <2> QED BY <1>1, <1>4, <2>2, <2>3
  <1> QED BY <1>1, <1>3, <1>4

(* splice: an entry of the list less.                                      *)
LEMMA ListDrop ==
  ASSUME NEW S, S \subseteq Nat, IsFiniteSet(S), NEW r \in S, NEW cap \in Nat, Since(r, S) < cap,
         NEW V, NEW list \in Seq(V), NEW log, ListsNewest(list, log, S, cap)
  PROVE  /\ cap - 1 \in Nat
         /\ RemoveAt(list, Since(r, S) + 1) \in Seq(V)
         /\ ListsNewest(RemoveAt(list, Since(r, S) + 1), log, S \ {r}, cap - 1)
  <1> DEFINE m == Since(r, S) + 1  T == S \ {r}  short == RemoveAt(list, m)
  <1>1. Since(r, S) \in Nat /\ Cardinality(S) \in Nat /\ cap - 1 \in Nat /\ m \in Nat /\ Since(r, S) < Cardinality(S)
    <2>1. Since(r, S) \in Nat /\ Cardinality(S) \in Nat /\ Since(r, S) < Cardinality(S)
      BY SinceRanked
    <2> QED BY <2>1
  <1>2. IsFiniteSet(T) /\ Cardinality(T) = Cardinality(S) - 1 /\ Cardinality(T) \in Nat
    BY FS_RemoveElement, FS_CardinalityType
  <1>3. /\ Len(list) \in Nat /\ Len(list) <= cap /\ Len(list) <= Cardinality(S)
        /\ Len(list) = cap \/ Len(list) = Cardinality(S)
        /\ m \in 1..Len(list)
    BY ListHolds
  <1>4. /\ short \in Seq(V) /\ Len(short) = Len(list) - 1
        /\ \A n \in 1..(m - 1) : short[n] = list[n]
        /\ \A n \in m..(Len(list) - 1) : short[n] = list[n + 1]
    <2> DEFINE a == SubSeq(list, 1, m - 1)  b == SubSeq(list, m + 1, Len(list))
    <2> HIDE DEF m
    <2>0. a \in Seq(V) /\ b \in Seq(V)
      BY <1>1, <1>3
    <2>1. Len(a) = m - 1 /\ \A n \in 1..(m - 1) : a[n] = list[n]
      BY <1>1, <1>3
    <2>2. Len(b) = Len(list) - m /\ \A n \in 1..(Len(list) - m) : b[n] = list[n + m]
      BY <1>1, <1>3
    <2>3. short = a \o b
      BY DEF RemoveAt
    <2> HIDE DEF a, b, short
    <2>4. short \in Seq(V) /\ Len(short) = (m - 1) + (Len(list) - m)
      <3>1. short \in Seq(V) /\ Len(short) = Len(a) + Len(b)
        BY <2>0, <2>3, ConcatProperties
      <3> QED BY <3>1, <2>1, <2>2
    <2>5. ASSUME NEW n \in 1..(m - 1) PROVE short[n] = list[n]
      BY <1>1, <1>3, <2>0, <2>1, <2>2, <2>3
    <2>6. ASSUME NEW n \in m..(Len(list) - 1) PROVE short[n] = list[n + 1]
      <3>1. n - (m - 1) \in 1..(Len(list) - m) /\ n - (m - 1) + m = n + 1 /\ n > m - 1 /\ n <= (m - 1) + (Len(list) - m)
        BY <1>1, <1>3
      <3>2. short[n] = b[n - (m - 1)]
        BY <3>1, <1>1, <1>3, <2>0, <2>1, <2>2, <2>3
      <3> QED BY <3>1, <3>2, <2>2
    <2> QED BY <1>1, <1>3, <2>4, <2>5, <2>6
  <1> HIDE DEF m, short
  <1>5. Len(short) = Min({cap - 1, Cardinality(T)})
    <2>1. Min({cap - 1, Cardinality(T)}) = IF cap - 1 <= Cardinality(T) THEN cap - 1 ELSE Cardinality(T)
      <3> HIDE DEF T
      <3> QED BY <1>1, <1>2, LesserOfTwo
    <2> HIDE DEF T
    <2> QED BY <2>1, <1>1, <1>2, <1>3, <1>4
  <1>6. ASSUME NEW i \in T, Since(i, T) < cap - 1 PROVE short[Since(i, T) + 1] = log[i]
    <2>1. Since(i, S) \in Nat
      BY SinceRanked
    <2>2. CASE i > r
      <3>1. Since(i, T) = Since(i, S) /\ Since(i, S) < Since(r, S)
        BY <2>2, SinceDrop
      <3>2. Since(i, S) + 1 \in 1..(m - 1) /\ Since(i, S) < cap
        BY <3>1, <2>1, <1>1, <1>6 DEF m
      <3>3. list[Since(i, S) + 1] = log[i]
        BY <3>2 DEF ListsNewest
      <3> QED BY <3>1, <3>2, <3>3, <1>4
    <2>3. CASE i < r
      <3>1. Since(i, T) = Since(i, S) - 1 /\ Since(r, S) < Since(i, S)
        BY <2>3, SinceDrop
      <3>2. Since(i, S) < cap
        BY <3>1, <2>1, <1>1, <1>6
      <3>3. list[Since(i, S) + 1] = log[i] /\ Since(i, S) + 1 \in 1..Len(list)
        <4>1. list[Since(i, S) + 1] = log[i]
          BY <3>2 DEF ListsNewest
        <4>2. Since(i, S) + 1 \in 1..Len(list)
          BY <3>2, ListHolds
        <4> QED BY <4>1, <4>2
      <3>4. Since(i, S) \in m..(Len(list) - 1)
        BY <3>1, <3>3, <2>1, <1>1, <1>3 DEF m
      <3>5. short[Since(i, S)] = log[i]
        BY <3>3, <3>4, <1>4
      <3>6. Since(i, T) + 1 = Since(i, S)
        BY <3>1, <2>1
      <3> QED BY <3>5, <3>6
    <2> QED BY <2>2, <2>3, SinceDrop
  <1> QED BY <1>1, <1>4, <1>5, <1>6 DEF ListsNewest, m, short

(* A place past the cap is missed by nobody.                               *)
LEMMA ListSame ==
  ASSUME NEW S, S \subseteq Nat, IsFiniteSet(S), NEW r \in S, NEW cap \in Nat, ~(Since(r, S) < cap),
         NEW list, NEW log, ListsNewest(list, log, S, cap)
  PROVE  ListsNewest(list, log, S \ {r}, cap)
  <1> DEFINE T == S \ {r}
  <1>1. Since(r, S) \in Nat /\ Cardinality(S) \in Nat /\ Since(r, S) < Cardinality(S)
    BY SinceRanked
  <1>2. IsFiniteSet(T) /\ Cardinality(T) = Cardinality(S) - 1 /\ Cardinality(T) \in Nat
    BY FS_RemoveElement, FS_CardinalityType
  <1>3. /\ Len(list) \in Nat /\ Len(list) <= cap /\ Len(list) <= Cardinality(S)
        /\ Len(list) = cap \/ Len(list) = Cardinality(S)
    BY ListHolds
  <1>5. Len(list) = Min({cap, Cardinality(T)})
    <2> HIDE DEF T
    <2>1. Min({cap, Cardinality(T)}) = IF cap <= Cardinality(T) THEN cap ELSE Cardinality(T)
      BY <1>1, <1>2, LesserOfTwo
    <2> QED BY <2>1, <1>1, <1>2, <1>3
  <1>6. ASSUME NEW i \in T, Since(i, T) < cap PROVE list[Since(i, T) + 1] = log[i]
    <2>1. Since(i, S) \in Nat
      BY SinceRanked
    <2>2. CASE i > r
      <3>1. Since(i, T) = Since(i, S)
        BY <2>2, SinceDrop
      <3> QED BY <3>1, <1>6 DEF ListsNewest
    <2>3. CASE i < r
      <3>1. Since(i, T) = Since(i, S) - 1 /\ Since(r, S) < Since(i, S)
        BY <2>3, SinceDrop
      <3> QED BY <3>1, <2>1, <1>1, <1>6
    <2> QED BY <2>2, <2>3, SinceDrop
  <1> QED BY <1>5, <1>6 DEF ListsNewest

(* A list is of a log for what the log holds at its places.                *)
LEMMA ListOfSameLog ==
  ASSUME NEW list, NEW log, NEW log2, NEW S, NEW cap, ListsNewest(list, log, S, cap), \A i \in S : log2[i] = log[i]
  PROVE  ListsNewest(list, log2, S, cap)
  BY DEF ListsNewest

(* The inductive invariant of the history: the log is in order, and every  *)
(* bucket lists what its user added last.                                  *)
Rows == [id : Nat, connectionId : ConnectionIds, userId : Users, at : Nat]
LogInv ==
  /\ clock \in Nat /\ rowLog \in Seq(Rows)
  /\ \A i \in 1..Len(rowLog) : rowLog[i].id = i /\ rowLog[i].at <= clock
  /\ \A i, j \in 1..Len(rowLog) : i < j => rowLog[i].at <= rowLog[j].at
BucketSet == [key : ConnectionIds \X Users, rows : Seq(Rows)]
BucketLists(lists, log, c, u) ==
  /\ \A i \in 1..Len(lists) : lists[i].key = <<c, u>> => ListsNewest(lists[i].rows, log, Mine(log, c, u), HistoryCap)
  /\ (\A i \in 1..Len(lists) : lists[i].key # <<c, u>>) => Mine(log, c, u) = {}
BucketsInv ==
  /\ buckets \in Seq(BucketSet)
  /\ \A i, j \in 1..Len(buckets) : buckets[i].key = buckets[j].key => i = j
  /\ \A c \in ConnectionIds, u \in Users : BucketLists(buckets, rowLog, c, u)

(* The places of one user in a log.                                        *)
LEMMA MineFinite ==
  ASSUME NEW V, NEW log \in Seq(V), NEW c, NEW u
  PROVE  Mine(log, c, u) \subseteq 1..Len(log) /\ Mine(log, c, u) \subseteq Nat /\ IsFiniteSet(Mine(log, c, u))
  <1>1. Len(log) \in Nat /\ Mine(log, c, u) \subseteq 1..Len(log)
    BY DEF Mine
  <1>2. IsFiniteSet(1..Len(log))
    BY <1>1, FS_Interval
  <1> QED BY <1>1, <1>2, FS_Subset

(* An entry added to a log is its user's, and the newest.                  *)
LEMMA MineGrows ==
  ASSUME NEW V, NEW log \in Seq(V), NEW e \in V, NEW c, NEW u
  PROVE  Mine(Append(log, e), c, u) = IF e.connectionId = c /\ e.userId = u THEN Mine(log, c, u) \union {Len(log) + 1}
                                      ELSE Mine(log, c, u)
  <1> DEFINE log2 == Append(log, e)
  <1>1. /\ Len(log) \in Nat /\ DOMAIN log = 1..Len(log) /\ DOMAIN log2 = 1..Len(log) \union {Len(log) + 1}
        /\ \A i \in 1..Len(log) : log2[i] = log[i] /\ i # Len(log) + 1
        /\ log2[Len(log) + 1] = e
    OBVIOUS
  <1> HIDE DEF log2
  <1>2. Mine(log2, c, u) = IF e.connectionId = c /\ e.userId = u THEN Mine(log, c, u) \union {Len(log) + 1}
                           ELSE Mine(log, c, u)
    BY <1>1 DEF Mine
  <1> QED BY <1>2 DEF log2

(* What is found under a key.                                              *)
LEMMA BucketFound ==
  ASSUME BucketsInv, NEW c \in ConnectionIds, NEW u \in Users
  PROVE  /\ Bucket(<<c, u>>) \in Seq(Rows)
         /\ rowLog \in Seq(Rows) /\ HistoryCap \in Nat => ListsNewest(Bucket(<<c, u>>), rowLog, Mine(rowLog, c, u), HistoryCap)
         /\ \A i \in 1..Len(buckets) : buckets[i].key = <<c, u>> =>
              BucketAt(<<c, u>>) = {i} /\ Bucket(<<c, u>>) = buckets[i].rows
  <1>0. DOMAIN buckets = 1..Len(buckets)
    BY DEF BucketsInv
  <1>1. CASE BucketAt(<<c, u>>) = {}
    <2>1. Bucket(<<c, u>>) = <<>>
      BY <1>1 DEF Bucket
    <2>2. \A i \in 1..Len(buckets) : buckets[i].key # <<c, u>>
      BY <1>0, <1>1 DEF BucketAt
    <2>3. Mine(rowLog, c, u) = {}
      BY <2>2 DEF BucketsInv, BucketLists
    <2>4. ASSUME HistoryCap \in Nat PROVE ListsNewest(<<>>, rowLog, {}, HistoryCap)
      <3>1. Cardinality({}) = 0
        BY FS_EmptySet
      <3>2. Min({HistoryCap, 0}) = 0
        BY <2>4, LesserOfTwo
      <3> QED BY <3>1, <3>2 DEF ListsNewest
    <2> QED BY <2>1, <2>2, <2>3, <2>4
  <1>2. CASE BucketAt(<<c, u>>) # {}
    <2>1. PICK i \in 1..Len(buckets) : buckets[i].key = <<c, u>>
      BY <1>0, <1>2 DEF BucketAt
    <2>2. BucketAt(<<c, u>>) = {i}
      BY <1>0, <2>1 DEF BucketAt, BucketsInv
    <2>3. Bucket(<<c, u>>) = buckets[i].rows
      BY <2>2 DEF Bucket
    <2>4. buckets[i].rows \in Seq(Rows)
      <3>1. buckets[i] \in BucketSet
        BY <2>1 DEF BucketsInv
      <3> QED BY <3>1 DEF BucketSet
    <2>6. ListsNewest(buckets[i].rows, rowLog, Mine(rowLog, c, u), HistoryCap)
      BY <2>1 DEF BucketsInv, BucketLists
    <2>5. \A j \in 1..Len(buckets) : buckets[j].key = <<c, u>> => j = i
      BY <2>1 DEF BucketsInv
    <2> QED BY <2>2, <2>3, <2>4, <2>5, <2>6
  <1> QED BY <1>1, <1>2

(* add keeps the history in order and every bucket its user's.             *)
LEMMA AddRowKeeps ==
  ASSUME LogInv, BucketsInv, NEW c \in ConnectionIds, NEW u \in Users, AddRow(c, u)
  PROVE  LogInv' /\ BucketsInv'
  <1>0. HistoryCap \in Nat
    BY StoresAssumption
  <1>1. PICK at \in {clock, clock + 1} :
          LET entry == [id |-> Len(rowLog) + 1, connectionId |-> c, userId |-> u, at |-> at]
              k == key(c, u)
              list == [key |-> k, rows |-> Newest(<<entry>> \o Bucket(k), HistoryCap)]
          IN /\ buckets' = (IF BucketAt(k) = {} THEN Append(buckets, list)
                            ELSE [i \in DOMAIN buckets |-> IF i \in BucketAt(k) THEN list ELSE buckets[i]])
             /\ rowLog' = Append(rowLog, entry) /\ clock' = at
    BY DEF AddRow
  <1> DEFINE entry == [id |-> Len(rowLog) + 1, connectionId |-> c, userId |-> u, at |-> at]
             k == <<c, u>>
             new == Newest(<<entry>> \o Bucket(k), HistoryCap)
             list == [key |-> k, rows |-> new]
  <1>2. /\ buckets' = (IF BucketAt(k) = {} THEN Append(buckets, list)
                       ELSE [i \in DOMAIN buckets |-> IF i \in BucketAt(k) THEN list ELSE buckets[i]])
        /\ rowLog' = Append(rowLog, entry) /\ clock' = at
    BY <1>1 DEF key
  <1>3. /\ clock \in Nat /\ at \in Nat /\ clock <= at /\ rowLog \in Seq(Rows) /\ Len(rowLog) \in Nat
        /\ entry \in Rows
    BY <1>1 DEF LogInv, Rows
  <1>4. /\ entry.id = Len(rowLog) + 1 /\ entry.at = at /\ entry.connectionId = c /\ entry.userId = u
    OBVIOUS
  <1> HIDE DEF entry
  <1>5. LogInv'
    <2>1. /\ rowLog' \in Seq(Rows) /\ Len(rowLog') = Len(rowLog) + 1
          /\ \A i \in 1..Len(rowLog) : rowLog'[i] = rowLog[i]
          /\ rowLog'[Len(rowLog) + 1] = entry
      BY <1>2, <1>3
    <2>2. \A i \in 1..Len(rowLog) : rowLog[i].id = i /\ rowLog[i].at \in Nat /\ rowLog[i].at <= clock
      <3>1. \A i \in 1..Len(rowLog) : rowLog[i] \in Rows
        BY <1>3
      <3>2. \A row \in Rows : row.at \in Nat
        BY DEF Rows
      <3> QED BY <3>1, <3>2 DEF LogInv
    <2>3. \A i \in 1..Len(rowLog') : i \in 1..Len(rowLog) \/ i = Len(rowLog) + 1
      BY <2>1, <1>3
    <2>4. \A i \in 1..Len(rowLog') : rowLog'[i].id = i /\ rowLog'[i].at <= clock'
      BY <2>1, <2>2, <2>3, <1>2, <1>3, <1>4
    <2>5. \A i, j \in 1..Len(rowLog') : i < j => rowLog'[i].at <= rowLog'[j].at
      <3>1. SUFFICES ASSUME NEW i \in 1..Len(rowLog'), NEW j \in 1..Len(rowLog'), i < j
                     PROVE  rowLog'[i].at <= rowLog'[j].at
        OBVIOUS
      <3>2. i \in 1..Len(rowLog)
        BY <3>1, <2>1, <1>3
      <3>3. CASE j \in 1..Len(rowLog)
        BY <3>1, <3>2, <3>3, <2>1 DEF LogInv
      <3>4. CASE j = Len(rowLog) + 1
        BY <3>2, <3>4, <2>1, <2>2, <1>3, <1>4
      <3> QED BY <3>3, <3>4, <2>3
    <2> QED BY <2>1, <2>4, <2>5, <1>2, <1>3 DEF LogInv
  <1>6. new \in Seq(Rows) /\ ListsNewest(new, rowLog', Mine(rowLog', c, u), HistoryCap)
    <2>1. Bucket(k) \in Seq(Rows) /\ ListsNewest(Bucket(k), rowLog, Mine(rowLog, c, u), HistoryCap)
      BY <1>0, <1>3, BucketFound
    <2> DEFINE S == Mine(rowLog, c, u)  x == Len(rowLog) + 1
    <2>2. S \subseteq 1..Len(rowLog) /\ S \subseteq Nat /\ IsFiniteSet(S)
      BY <1>3, MineFinite
    <2>3. Mine(rowLog', c, u) = S \union {x}
      BY <1>2, <1>3, <1>4, MineGrows
    <2>4. x \in Nat /\ \A i \in S : i < x
      BY <1>3, <2>2
    <2>5. (\A i \in S : rowLog'[i] = rowLog[i]) /\ rowLog'[x] = entry
      BY <1>2, <1>3, <2>2
    <2>6. new \in Seq(Rows)
      BY <2>1, <1>0, <1>3 DEF Newest
    <2> HIDE DEF S, x, k
    <2>7. ListsNewest(new, rowLog', S \union {x}, HistoryCap)
      BY <1>0, <1>3, <2>1, <2>2, <2>4, <2>5, ListAdd DEF S
    <2> QED BY <2>3, <2>6, <2>7
  <1> HIDE DEF new
  <1>7. \A c1 \in ConnectionIds, u1 \in Users : <<c1, u1>> # k => Mine(rowLog', c1, u1) = Mine(rowLog, c1, u1)
    BY <1>2, <1>3, <1>4, MineGrows
  <1>8. ASSUME NEW c1 \in ConnectionIds, NEW u1 \in Users, NEW i \in 1..Len(buckets), <<c1, u1>> # k,
               buckets[i].key = <<c1, u1>>
        PROVE  ListsNewest(buckets[i].rows, rowLog', Mine(rowLog', c1, u1), HistoryCap)
    <2>1. ListsNewest(buckets[i].rows, rowLog, Mine(rowLog, c1, u1), HistoryCap)
      BY <1>8 DEF BucketsInv, BucketLists
    <2>2. \A j \in Mine(rowLog, c1, u1) : rowLog'[j] = rowLog[j]
      BY <1>2, <1>3, MineFinite
    <2>3. ListsNewest(buckets[i].rows, rowLog', Mine(rowLog, c1, u1), HistoryCap)
      BY <2>1, <2>2, ListOfSameLog
    <2> QED BY <2>3, <1>7, <1>8
  <1>9. list \in BucketSet /\ list.key = k /\ list.rows = new
    BY <1>6 DEF BucketSet
  <1> HIDE DEF list
  <1>10. CASE BucketAt(k) = {}
    <2>1. buckets' = Append(buckets, list)
      BY <1>2, <1>10
    <2>2. /\ buckets' \in Seq(BucketSet)
          /\ Len(buckets) \in Nat /\ Len(buckets') = Len(buckets) + 1
          /\ \A i \in 1..Len(buckets) : buckets'[i] = buckets[i]
          /\ buckets'[Len(buckets) + 1] = list
      BY <2>1, <1>9 DEF BucketsInv
    <2>3. \A i \in 1..Len(buckets) : buckets[i].key # k
      <3>1. DOMAIN buckets = 1..Len(buckets)
        BY DEF BucketsInv
      <3> QED BY <3>1, <1>10 DEF BucketAt
    <2>4. \A i \in 1..Len(buckets') : i \in 1..Len(buckets) \/ i = Len(buckets) + 1
      BY <2>2
    <2>5. \A i, j \in 1..Len(buckets') : buckets'[i].key = buckets'[j].key => i = j
      BY <2>2, <2>3, <2>4, <1>9 DEF BucketsInv
    <2>6. ASSUME NEW c1 \in ConnectionIds, NEW u1 \in Users
          PROVE  BucketLists(buckets', rowLog', c1, u1)
      <3>1. CASE <<c1, u1>> = k
        <4>1. c1 = c /\ u1 = u
          BY <3>1
        <4>2. \A i \in 1..Len(buckets') : buckets'[i].key = k => buckets'[i].rows = new
          BY <2>2, <2>3, <2>4, <1>9
        <4>3. Len(buckets) + 1 \in 1..Len(buckets') /\ buckets'[Len(buckets) + 1].key = k
          BY <2>2, <1>9
        <4> HIDE DEF k
        <4> QED BY <4>1, <4>2, <4>3, <3>1, <1>6 DEF BucketLists
      <3>2. CASE <<c1, u1>> # k
        <4>1. \A i \in 1..Len(buckets') : buckets'[i].key = <<c1, u1>> => i \in 1..Len(buckets)
          BY <2>2, <2>4, <3>2, <1>9
        <4>2. \A i \in 1..Len(buckets) : i \in 1..Len(buckets') /\ buckets'[i] = buckets[i]
          BY <2>2
        <4>3. (\A i \in 1..Len(buckets) : buckets[i].key # <<c1, u1>>) => Mine(rowLog, c1, u1) = {}
          BY DEF BucketsInv, BucketLists
        <4> HIDE DEF k
        <4> QED BY <4>1, <4>2, <4>3, <3>2, <1>7, <1>8 DEF BucketLists
      <3> QED BY <3>1, <3>2
    <2> QED BY <1>5, <2>2, <2>5, <2>6 DEF BucketsInv
  <1>11. CASE BucketAt(k) # {}
    <2>1. buckets' = [i \in DOMAIN buckets |-> IF i \in BucketAt(k) THEN list ELSE buckets[i]]
      BY <1>2, <1>11
    <2>2. DOMAIN buckets = 1..Len(buckets) /\ Len(buckets) \in Nat
      BY DEF BucketsInv
    <2>3. PICK b \in 1..Len(buckets) : buckets[b].key = k
      BY <2>2, <1>11 DEF BucketAt
    <2>4. BucketAt(k) = {b}
      BY <2>3, BucketFound
    <2>5. /\ buckets' \in Seq(BucketSet)
          /\ Len(buckets') = Len(buckets)
          /\ \A i \in 1..Len(buckets) : buckets'[i] = IF i = b THEN list ELSE buckets[i]
      <3>1. \A i \in 1..Len(buckets) : buckets'[i] = IF i = b THEN list ELSE buckets[i]
        BY <2>1, <2>2, <2>4
      <3>2. DOMAIN buckets' = 1..Len(buckets)
        BY <2>1, <2>2
      <3>3. \A i \in 1..Len(buckets) : buckets[i] \in BucketSet
        BY DEF BucketsInv
      <3>5. \A i \in 1..Len(buckets) : buckets'[i] \in BucketSet
        BY <3>1, <3>3, <1>9
      <3>6. buckets' = [i \in 1..Len(buckets) |-> buckets'[i]]
        BY <2>1, <2>2
      <3>7. buckets' \in [1..Len(buckets) -> BucketSet]
        BY <3>5, <3>6
      <3>8. buckets' \in Seq(BucketSet) /\ Len(buckets') = Len(buckets)
        BY <2>2, <3>7
      <3> QED BY <3>1, <3>8
    <2>6. \A i \in 1..Len(buckets) : buckets'[i].key = buckets[i].key
      BY <2>3, <2>5, <1>9
    <2>7. \A i, j \in 1..Len(buckets') : buckets'[i].key = buckets'[j].key => i = j
      BY <2>5, <2>6 DEF BucketsInv
    <2>8. ASSUME NEW c1 \in ConnectionIds, NEW u1 \in Users
          PROVE  BucketLists(buckets', rowLog', c1, u1)
      <3>1. CASE <<c1, u1>> = k
        <4>1. c1 = c /\ u1 = u
          BY <3>1
        <4>2. \A i \in 1..Len(buckets') : buckets'[i].key = k => buckets'[i].rows = new
          BY <2>3, <2>5, <2>6, <1>9 DEF BucketsInv
        <4>3. b \in 1..Len(buckets') /\ buckets'[b].key = k
          BY <2>3, <2>5, <2>6
        <4> HIDE DEF k
        <4> QED BY <4>1, <4>2, <4>3, <3>1, <1>6 DEF BucketLists
      <3>2. CASE <<c1, u1>> # k
        <4>1. \A i \in 1..Len(buckets) : buckets'[i].key = <<c1, u1>> => buckets'[i] = buckets[i]
          BY <2>5, <3>2, <1>9
        <4>3. (\A i \in 1..Len(buckets) : buckets[i].key # <<c1, u1>>) => Mine(rowLog, c1, u1) = {}
          BY DEF BucketsInv, BucketLists
        <4> HIDE DEF k
        <4> QED BY <4>1, <4>3, <2>5, <2>6, <3>2, <1>7, <1>8 DEF BucketLists
      <3> QED BY <3>1, <3>2
    <2> QED BY <1>5, <2>5, <2>7, <2>8 DEF BucketsInv
  <1> QED BY <1>5, <1>10, <1>11


(* The inductive invariant of the examples: the list of a user holds, of   *)
(* every question the user approved, the approval that came last.          *)
Examples == [question : Questions, sql : {Verdict(sql) : sql \in Approvable}]
Approvals == [connectionId : ConnectionIds, userId : Users, example : Examples]
Said(log) == [i \in DOMAIN log |-> log[i].example]
ListsLast(list, log, c, u) ==
  list \in Seq(Examples) /\ ListsNewest(list, Said(log), LastSaid(log, Mine(log, c, u)), FewShotCap)
ShotsInv ==
  /\ approved \in Seq(Approvals)
  /\ \A c \in ConnectionIds, u \in Users : ListsLast(Shots(<<c, u>>), approved, c, u)

TextAt(log, i) == log[i].example.question.text

(* Of one user's approvals, those that came last are one for each question. *)
LEMMA LastOnce ==
  ASSUME NEW log, NEW S, S \subseteq Nat, IsFiniteSet(S)
  PROVE  /\ LastSaid(log, S) \subseteq S /\ LastSaid(log, S) \subseteq Nat /\ IsFiniteSet(LastSaid(log, S))
         /\ \A i, j \in LastSaid(log, S) : TextAt(log, i) = TextAt(log, j) => i = j
  <1>1. LastSaid(log, S) \subseteq S
    BY DEF LastSaid
  <1>2. \A i, j \in LastSaid(log, S) : j > i => TextAt(log, i) # TextAt(log, j)
    BY DEF LastSaid, TextAt
  <1>3. \A i, j \in LastSaid(log, S) : i \in Nat /\ j \in Nat
    BY <1>1
  <1>4. \A i, j \in LastSaid(log, S) : TextAt(log, i) = TextAt(log, j) => i = j
    BY <1>2, <1>3
  <1> QED BY <1>1, <1>4, FS_Subset

(* One more approval takes the place of the one of its question.           *)
LEMMA LastGrows ==
  ASSUME NEW log \in Seq(Approvals), NEW e \in Approvals, NEW S, S \subseteq 1..Len(log)
  PROVE  LastSaid(Append(log, e), S \union {Len(log) + 1})
           = {i \in LastSaid(log, S) : TextAt(log, i) # e.example.question.text} \union {Len(log) + 1}
  <1> DEFINE more == Append(log, e)  x == Len(log) + 1  T == S \union {x}
  <1>1. /\ Len(log) \in Nat /\ \A i \in S : TextAt(more, i) = TextAt(log, i)
        /\ TextAt(more, x) = e.example.question.text
    BY DEF TextAt
  <1>2. \A i \in S : i \in Nat /\ i < x
    BY <1>1
  <1>3. x \in Nat /\ ~(x > x) /\ \A i \in S : ~(i > x) /\ x > i /\ x # i
    BY <1>1, <1>2
  <1>4. \A i : i \in LastSaid(more, T) <=> i \in T /\ \A j \in T : j > i => TextAt(more, j) # TextAt(more, i)
    BY DEF LastSaid, TextAt
  <1>5. \A i : i \in LastSaid(log, S) <=> i \in S /\ \A j \in S : j > i => TextAt(log, j) # TextAt(log, i)
    BY DEF LastSaid, TextAt
  <1> HIDE DEF more, x
  <1>6. x \in LastSaid(more, T)
    BY <1>3, <1>4
  <1>7. \A i \in S : i \in LastSaid(more, T) <=> i \in LastSaid(log, S) /\ TextAt(log, i) # e.example.question.text
    BY <1>1, <1>3, <1>4, <1>5
  <1>8. LastSaid(more, T) \subseteq T /\ LastSaid(log, S) \subseteq S
    BY <1>4, <1>5
  <1>9. LastSaid(more, T) = {i \in LastSaid(log, S) : TextAt(log, i) # e.example.question.text} \union {x}
    BY <1>6, <1>7, <1>8
  <1> QED BY <1>9 DEF more, x

(* The list without its example of a question, when it has one at most.    *)
WithoutQuestion(list, q) == RemoveFirstMatch(list, LAMBDA e : SameQuestion(e.question, q))
LEMMA QuestionRemoved ==
  ASSUME NEW list \in Seq(Examples), NEW q \in Questions
  PROVE  /\ (\A n \in 1..Len(list) : list[n].question.text # q.text) => WithoutQuestion(list, q) = list
         /\ \A m \in 1..Len(list) :
              /\ list[m].question.text = q.text
              /\ \A n \in 1..Len(list) : list[n].question.text = q.text => n = m
              => WithoutQuestion(list, q) = RemoveAt(list, m)
  <1> DEFINE I == {n \in 1..Len(list) : SameQuestion(list[n].question, q)}
  <1>1. WithoutQuestion(list, q) = IF \E n \in 1..Len(list) : SameQuestion(list[n].question, q)
                                   THEN RemoveAt(list, IF I # {} THEN Min(I) ELSE 0) ELSE list
    BY DEF WithoutQuestion, RemoveFirstMatch, SelectInSeq
  <1>2. \A n \in 1..Len(list) : SameQuestion(list[n].question, q) <=> list[n].question.text = q.text
    BY DEF SameQuestion
  <1>3. ASSUME NEW m \in 1..Len(list), list[m].question.text = q.text,
               \A n \in 1..Len(list) : list[n].question.text = q.text => n = m
        PROVE  WithoutQuestion(list, q) = RemoveAt(list, m)
    <2>1. I = {m}
      BY <1>2, <1>3
    <2>2. Len(list) \in Nat /\ m \in Nat
      OBVIOUS
    <2>3. Min({m}) = m
      <3>1. Min({m}) \in {m}
        BY <2>2, LeastOfNaturals
      <3> QED BY <3>1
    <2>4. (IF I # {} THEN Min(I) ELSE 0) = m
      BY <2>1, <2>3
    <2>5. \E n \in 1..Len(list) : SameQuestion(list[n].question, q)
      BY <1>2, <1>3
    <2> HIDE DEF I
    <2> QED BY <1>1, <2>4, <2>5
  <1>4. (\A n \in 1..Len(list) : list[n].question.text # q.text) => WithoutQuestion(list, q) = list
    <2> HIDE DEF I
    <2> QED BY <1>1, <1>2
  <1> QED BY <1>3, <1>4

(* MemoryFewShotStore.add keeps the list of what was approved last.        *)
LEMMA WithExampleKeeps ==
  ASSUME NEW log \in Seq(Approvals), NEW e \in Approvals, NEW list, ListsLast(list, log, e.connectionId, e.userId)
  PROVE  ListsLast(WithExample(list, e.example), Append(log, e), e.connectionId, e.userId)
  <1> DEFINE more == Append(log, e)  x == Len(log) + 1  S == Mine(log, e.connectionId, e.userId)
             L == LastSaid(log, S)  q == e.example.question
             L2 == {i \in L : TextAt(log, i) # q.text}
             others == WithoutQuestion(list, q)
  <1>1. FewShotCap \in Nat
    BY StoresAssumption
  <1>2. e.example \in Examples /\ q \in Questions
    BY DEF Approvals, Examples
  <1>3. S \subseteq 1..Len(log) /\ S \subseteq Nat /\ IsFiniteSet(S)
    BY MineFinite
  <1>4. /\ L \subseteq S /\ L \subseteq Nat /\ IsFiniteSet(L)
        /\ \A i, j \in L : TextAt(log, i) = TextAt(log, j) => i = j
    BY <1>3, LastOnce
  <1>5. list \in Seq(Examples) /\ ListsNewest(list, Said(log), L, FewShotCap)
    BY DEF ListsLast
  <1>6. LastSaid(more, Mine(more, e.connectionId, e.userId)) = L2 \union {x}
    <2>1. Mine(more, e.connectionId, e.userId) = S \union {x}
      BY MineGrows
    <2> QED BY <2>1, <1>3, LastGrows
  <1>7. /\ Len(log) \in Nat /\ x \in Nat /\ \A i \in L : i < x /\ Said(more)[i] = Said(log)[i]
        /\ Said(more)[x] = e.example
    <2>1. Len(log) \in Nat /\ DOMAIN log = 1..Len(log) /\ DOMAIN more = 1..(Len(log) + 1)
      OBVIOUS
    <2>2. (\A i \in 1..Len(log) : more[i] = log[i]) /\ more[x] = e
      OBVIOUS
    <2>3. \A i \in L : i \in 1..Len(log) /\ i < x
      BY <1>3, <1>4, <2>1
    <2> HIDE DEF more, L
    <2> QED BY <2>1, <2>2, <2>3 DEF Said
  <1>8. \A i \in L : Said(log)[i].question.text = TextAt(log, i)
    BY <1>3, <1>4 DEF Said, TextAt
  <1>9. WithExample(list, e.example) = Newest(<<e.example>> \o others, FewShotCap)
    BY DEF WithExample, WithoutQuestion
  <1>10. ASSUME others \in Seq(Examples), NEW c \in Nat, c = FewShotCap \/ c + 1 = FewShotCap,
                ListsNewest(others, Said(log), L2, c)
         PROVE  ListsLast(WithExample(list, e.example), Append(log, e), e.connectionId, e.userId)
    <2>1. L2 \subseteq Nat /\ IsFiniteSet(L2) /\ L2 \subseteq L
      BY <1>4, FS_Subset
    <2> HIDE DEF others, L2, L, more, x, q, S
    <2>2. ListsNewest(Newest(<<e.example>> \o others, FewShotCap), Said(more), L2 \union {x}, FewShotCap)
      BY <1>1, <1>2, <1>7, <1>10, <2>1, ListAdd
    <2>3. Newest(<<e.example>> \o others, FewShotCap) \in Seq(Examples)
      BY <1>1, <1>2, <1>10 DEF Newest
    <2> QED BY <2>2, <2>3, <1>6, <1>9 DEF ListsLast, more
  <1>11. /\ \A i \in L : Since(i, L) < FewShotCap => Since(i, L) + 1 \in 1..Len(list) /\ list[Since(i, L) + 1] = Said(log)[i]
         /\ \A n \in 1..Len(list) : ListEntry(list, Said(log), L, FewShotCap, n)
    <2> HIDE DEF L
    <2>1. \A i \in L : Since(i, L) < FewShotCap => list[Since(i, L) + 1] = Said(log)[i]
      BY <1>5 DEF ListsNewest
    <2>2. \A i \in L : Since(i, L) < FewShotCap => Since(i, L) + 1 \in 1..Len(list)
      BY <1>1, <1>4, <1>5, ListHolds
    <2>3. \A n \in 1..Len(list) : ListEntry(list, Said(log), L, FewShotCap, n)
      BY <1>1, <1>4, <1>5, ListHolds
    <2> QED BY <2>1, <2>2, <2>3
  <1>12. CASE \A i \in L : TextAt(log, i) # q.text
    <2>1. L2 = L
      BY <1>12
    <2>2. \A n \in 1..Len(list) : list[n].question.text # q.text
      <3>1. SUFFICES ASSUME NEW n \in 1..Len(list) PROVE list[n].question.text # q.text
        OBVIOUS
      <3> HIDE DEF L, q
      <3>2. PICK i \in L : list[n] = Said(log)[i]
        BY <1>11 DEF ListEntry
      <3> QED BY <3>2, <1>12, <1>8
    <2>3. others = list
      BY <2>2, <1>2, <1>5, QuestionRemoved
    <2> HIDE DEF others, L2, L, more, x, q, S
    <2> QED BY <2>1, <2>3, <1>1, <1>5, <1>10
  <1>13. CASE \E i \in L : TextAt(log, i) = q.text
    <2>1. PICK r \in L : TextAt(log, r) = q.text
      BY <1>13
    <2>2. L2 = L \ {r}
      BY <2>1, <1>4
    <2>3. \A n \in 1..Len(list) : list[n].question.text = q.text => n = Since(r, L) + 1 /\ Since(r, L) < FewShotCap
      <3>1. SUFFICES ASSUME NEW n \in 1..Len(list), list[n].question.text = q.text
                     PROVE  n = Since(r, L) + 1 /\ Since(r, L) < FewShotCap
        OBVIOUS
      <3> HIDE DEF L, q
      <3>2. PICK i \in L : Since(i, L) = n - 1 /\ Since(i, L) < FewShotCap /\ list[n] = Said(log)[i]
        BY <1>11 DEF ListEntry
      <3>3. i = r
        BY <3>1, <3>2, <2>1, <1>4, <1>8
      <3>4. n \in Int
        BY <1>5
      <3> QED BY <3>2, <3>3, <3>4
    <2>4. CASE Since(r, L) < FewShotCap
      <3> DEFINE m == Since(r, L) + 1
      <3>1. m \in 1..Len(list) /\ list[m].question.text = q.text
        <4> HIDE DEF L, q
        <4> QED BY <2>1, <2>4, <1>8, <1>11
      <3>2. others = RemoveAt(list, m)
        <4> HIDE DEF m
        <4>1. \A n \in 1..Len(list) : list[n].question.text = q.text => n = m
          BY <2>3 DEF m
        <4> QED BY <3>1, <4>1, <1>2, <1>5, QuestionRemoved
      <3>3. /\ FewShotCap - 1 \in Nat /\ others \in Seq(Examples)
            /\ ListsNewest(others, Said(log), L \ {r}, FewShotCap - 1)
        <4> HIDE DEF L, others, q
        <4> QED BY <3>2, <1>1, <1>4, <1>5, <2>1, <2>4, ListDrop
      <3>4. (FewShotCap - 1) + 1 = FewShotCap
        BY <1>1
      <3> HIDE DEF others, L2, L, more, x, q, S
      <3> QED BY <3>3, <3>4, <2>2, <1>10
    <2>5. CASE ~(Since(r, L) < FewShotCap)
      <3>1. \A n \in 1..Len(list) : list[n].question.text # q.text
        BY <2>3, <2>5
      <3>2. others = list
        BY <3>1, <1>2, <1>5, QuestionRemoved
      <3> HIDE DEF others, L2, L, more, x, q, S
      <3>3. ListsNewest(list, Said(log), L \ {r}, FewShotCap)
        BY <1>1, <1>4, <1>5, <2>1, <2>5, ListSame
      <3> QED BY <3>2, <3>3, <2>2, <1>1, <1>5, <1>10
    <2> QED BY <2>4, <2>5
  <1> QED BY <1>12, <1>13

(* recordFeedback keeps every user's list.                                 *)
LEMMA FeedbackKeeps ==
  ASSUME ShotsInv, NEW c \in ConnectionIds, NEW u \in Users, NEW q \in Questions, NEW s \in Approvable,
         recordFeedback(q, s, c, u)
  PROVE  ShotsInv'
  <1> DEFINE k == <<c, u>>  said == [question |-> q, sql |-> Verdict(s)]
             e == [connectionId |-> c, userId |-> u, example |-> said]
  <1>1. /\ byConn' = [j \in DOMAIN byConn \cup {k} |-> IF j = k THEN WithExample(Shots(k), said) ELSE byConn[j]]
        /\ approved' = Append(approved, e)
    BY DEF recordFeedback, key
  <1>2. said \in Examples
    BY DEF Examples
  <1>3. e \in Approvals /\ e.connectionId = c /\ e.userId = u /\ e.example = said
    BY <1>2 DEF Approvals
  <1> HIDE DEF said, e
  <1>4. approved \in Seq(Approvals) /\ approved' \in Seq(Approvals)
    BY <1>1, <1>3 DEF ShotsInv
  <1>5. ListsLast(Shots(k)', approved', c, u)
    <2>1. Shots(k)' = WithExample(Shots(k), said)
      BY <1>1 DEF Shots
    <2>2. ListsLast(Shots(k), approved, e.connectionId, e.userId)
      BY <1>3 DEF ShotsInv
    <2>3. ListsLast(WithExample(Shots(k), e.example), Append(approved, e), e.connectionId, e.userId)
      <3> HIDE DEF k
      <3> QED BY <2>2, <1>3, <1>4, WithExampleKeeps
    <2> QED BY <2>1, <2>3, <1>1, <1>3
  <1>6. ASSUME NEW c1 \in ConnectionIds, NEW u1 \in Users, <<c1, u1>> # k
        PROVE  ListsLast(Shots(<<c1, u1>>)', approved', c1, u1)
    <2> DEFINE k1 == <<c1, u1>>  S == Mine(approved, c1, u1)
    <2>1. Shots(k1)' = Shots(k1)
      BY <1>1, <1>6 DEF Shots
    <2>2. Mine(approved', c1, u1) = S
      BY <1>1, <1>3, <1>4, <1>6, MineGrows
    <2>3. \A i \in S : approved'[i] = approved[i] /\ i \in DOMAIN approved /\ i \in DOMAIN approved'
      <3>1. S \subseteq 1..Len(approved)
        BY <1>4, MineFinite
      <3> QED BY <3>1, <1>1, <1>3, <1>4
    <2>4. LastSaid(approved', S) = LastSaid(approved, S) /\ LastSaid(approved, S) \subseteq S
      <3> HIDE DEF S
      <3> QED BY <2>3 DEF LastSaid
    <2>5. \A i \in LastSaid(approved, S) : Said(approved')[i] = Said(approved)[i]
      <3> HIDE DEF S
      <3> QED BY <2>3, <2>4 DEF Said
    <2>6. ListsLast(Shots(k1), approved, c1, u1)
      BY DEF ShotsInv
    <2> HIDE DEF S, k1
    <2>7. ListsNewest(Shots(k1), Said(approved'), LastSaid(approved, S), FewShotCap)
      BY <2>5, <2>6, ListOfSameLog DEF ListsLast, S
    <2>8. ListsLast(Shots(k1)', approved', c1, u1)
      BY <2>1, <2>2, <2>4, <2>6, <2>7 DEF ListsLast
    <2> QED BY <2>8 DEF k1
  <1>7. ASSUME NEW c1 \in ConnectionIds, NEW u1 \in Users
        PROVE  ListsLast(Shots(<<c1, u1>>)', approved', c1, u1)
    <2>1. CASE <<c1, u1>> = k
      <3>1. c1 = c /\ u1 = u
        BY <2>1
      <3> QED BY <3>1, <1>5
    <2>2. CASE <<c1, u1>> # k
      BY <2>2, <1>6
    <2> QED BY <2>1, <2>2
  <1> QED BY <1>4, <1>7 DEF ShotsInv


(* Sorting a finite set by an order of its elements gives each of them the *)
(* place its number of elements before it says.                            *)
SortedBy(order, S, Below) ==
  \A n \in 1..Cardinality(S) : order[n] \in S /\ Cardinality(Below[order[n]]) = n - 1
LEMMA SortedPlaces ==
  ASSUME NEW S, IsFiniteSet(S), NEW Below, InOrder(S, Below), NEW order, SortedBy(order, S, Below)
  PROVE  /\ \A x \in S : Cardinality(Below[x]) + 1 \in 1..Cardinality(S) /\ order[Cardinality(Below[x]) + 1] = x
         /\ \A n, m \in 1..Cardinality(S) : n < m => order[n] \in Below[order[m]]
  <1>1. Ranked(S, Below)
    BY RankOnto
  <1>2. ASSUME NEW x \in S
        PROVE  Cardinality(Below[x]) + 1 \in 1..Cardinality(S) /\ order[Cardinality(Below[x]) + 1] = x
    <2> DEFINE r == Cardinality(Below[x])
    <2>1. r \in Nat /\ r < Cardinality(S) /\ Cardinality(S) \in Nat
      BY <1>1 DEF Ranked
    <2> HIDE DEF r
    <2>2. r + 1 \in 1..Cardinality(S) /\ (r + 1) - 1 = r
      BY <2>1
    <2>3. order[r + 1] \in S /\ Cardinality(Below[order[r + 1]]) = r
      BY <2>2 DEF SortedBy
    <2>4. order[r + 1] = x
      BY <2>3, <1>1 DEF Ranked, r
    <2> QED BY <2>2, <2>4 DEF r
  <1>3. ASSUME NEW n \in 1..Cardinality(S), NEW m \in 1..Cardinality(S), n < m
        PROVE  order[n] \in Below[order[m]]
    <2>1. /\ order[n] \in S /\ Cardinality(Below[order[n]]) = n - 1
          /\ order[m] \in S /\ Cardinality(Below[order[m]]) = m - 1
      BY DEF SortedBy
    <2>2. n - 1 < m - 1 /\ ~(m - 1 < n - 1) /\ n - 1 # m - 1
      BY <1>1, <1>3 DEF Ranked
    <2>3. order[n] # order[m]
      BY <2>1, <2>2
    <2>4. order[m] \notin Below[order[n]]
      BY <2>1, <2>2, <1>1 DEF Ranked
    <2> QED BY <2>1, <2>3, <2>4 DEF InOrder
  <1> QED BY <1>2, <1>3

(* Two sets whose elements answer one another one by one are of one size.  *)
LEMMA SameSize ==
  ASSUME NEW A, IsFiniteSet(A), NEW B, NEW f, \A x \in A : f[x] \in B,
         \A x, y \in A : f[x] = f[y] => x = y, \A y \in B : \E x \in A : f[x] = y
  PROVE  IsFiniteSet(B) /\ Cardinality(B) = Cardinality(A)
  <1> DEFINE g == [x \in A |-> f[x]]
  <1>1. g \in [A -> B] /\ (\A x, y \in A : g[x] = g[y] => x = y) /\ \A y \in B : \E x \in A : g[x] = y
    OBVIOUS
  <1> HIDE DEF g
  <1>2. g \in Bijection(A, B)
    BY <1>1 DEF Bijection, Injection, Surjection, IsInjective
  <1>3. ExistsBijection(A, B)
    BY <1>2 DEF ExistsBijection
  <1> QED BY <1>3, FS_Bijection

(* The words two questions share are counted.                              *)
LEMMA OverlapCounts ==
  ASSUME NEW q \in Questions, NEW r \in Questions
  PROVE  overlap(q, r) \in Nat
  <1>1. q.text \in DOMAIN WordsOf
    BY DEF Questions
  <1>2. IsFiniteSet(WordsOf[q.text])
    BY <1>1, StoresAssumption
  <1>3. IsFiniteSet(WordsOf[q.text] \cap WordsOf[r.text])
    BY <1>2, FS_Subset
  <1> QED BY <1>3, FS_CardinalityType DEF overlap

(* A page that starts a list.                                              *)
LEMMA FirstPage ==
  ASSUME NEW V, NEW rows \in Seq(V), NEW limit \in Nat
  PROVE  /\ Len(Page(rows, limit, 0)) = Min({limit, Len(rows)})
         /\ \A n \in 1..Len(rows) : n <= limit => Page(rows, limit, 0)[n] = rows[n]
  <1>1. Len(rows) \in Nat
    OBVIOUS
  <1>2. Min({limit, Len(rows)}) = IF limit <= Len(rows) THEN limit ELSE Len(rows)
    BY <1>1, LesserOfTwo
  <1> DEFINE h == IF limit > Len(rows) THEN Len(rows) ELSE limit
  <1>3. h \in Nat /\ h <= Len(rows)
    BY <1>1
  <1>4. Page(rows, limit, 0) = SubSeq(rows, 1, h)
    BY <1>1 DEF Page
  <1> HIDE DEF h
  <1>5. Len(SubSeq(rows, 1, h)) = h /\ \A n \in 1..h : SubSeq(rows, 1, h)[n] = rows[n]
    BY <1>1, <1>3
  <1> QED BY <1>1, <1>2, <1>4, <1>5 DEF h

(* What a question retrieves.                                              *)
LEMMA Retrieved ==
  ASSUME ShotsInv, NEW c \in ConnectionIds, NEW u \in Users, NEW q \in Questions, NEW limit \in 1..FewShotCap
  PROVE  LET Shared(i) == overlap(q, approved[i].example.question)
             fit == {i \in Stored(Mine(approved, c, u)) : Shared(i) > 0}
             ahead(i) == {j \in fit : Shared(j) > Shared(i) \/ (Shared(j) = Shared(i) /\ j > i)}
             got == retrieve(c, q, limit, u)
         IN /\ Len(got) = Min({limit, Cardinality(fit)})
            /\ \A i \in fit : Cardinality(ahead(i)) < limit => got[Cardinality(ahead(i)) + 1] = approved[i].example
  <1> DEFINE list == Shots(<<c, u>>)  S == Mine(approved, c, u)  L == LastSaid(approved, S)  St == Stored(S)
             Score(n) == overlap(q, list[n].question)
             Shared(i) == overlap(q, approved[i].example.question)
             hits == {n \in DOMAIN list : Score(n) > 0}
             fit == {i \in St : Shared(i) > 0}
             Better(m, n) == Score(m) > Score(n) \/ (Score(m) = Score(n) /\ m < n)
             ahead(i) == {j \in fit : Shared(j) > Shared(i) \/ (Shared(j) = Shared(i) /\ j > i)}
             Below == [n \in hits |-> {m \in hits : Better(m, n)}]
             order == [n \in 1..Cardinality(hits) |-> CHOOSE x \in hits : Cardinality({y \in hits : Better(y, x)}) = n - 1]
             full == [n \in 1..Cardinality(hits) |-> list[order[n]]]
             place == [i \in St |-> Since(i, L) + 1]
  <1>1. /\ FewShotCap \in Nat /\ limit \in Nat
        /\ approved \in Seq(Approvals) /\ list \in Seq(Examples) /\ ListsNewest(list, Said(approved), L, FewShotCap)
    BY StoresAssumption DEF ShotsInv, ListsLast
  <1>2. /\ S \subseteq 1..Len(approved) /\ S \subseteq Nat /\ IsFiniteSet(S)
        /\ L \subseteq S /\ L \subseteq Nat /\ IsFiniteSet(L)
    <2>1. S \subseteq 1..Len(approved) /\ S \subseteq Nat /\ IsFiniteSet(S)
      BY <1>1, MineFinite
    <2> QED BY <2>1, LastOnce
  <1>3. St = {i \in L : Since(i, L) < FewShotCap} /\ IsFiniteSet(St)
    <2>1. St = {i \in L : Since(i, L) < FewShotCap}
      BY DEF Stored
    <2> QED BY <2>1, <1>2, FS_Subset
  <1>4. \A i \in St : /\ i \in L /\ i \in Nat /\ i \in 1..Len(approved) /\ place[i] \in 1..Len(list)
                      /\ list[place[i]] = approved[i].example
    <2>1. \A i \in St : i \in L /\ i \in Nat /\ i \in 1..Len(approved) /\ Since(i, L) < FewShotCap /\ place[i] = Since(i, L) + 1
      BY <1>2, <1>3
    <2> HIDE DEF L, St, list, place
    <2>2. \A i \in L : Since(i, L) < FewShotCap => Since(i, L) + 1 \in 1..Len(list)
      BY <1>1, <1>2, ListHolds
    <2>3. \A i \in L : Since(i, L) < FewShotCap => list[Since(i, L) + 1] = Said(approved)[i]
      BY <1>1 DEF ListsNewest
    <2>4. \A i \in 1..Len(approved) : Said(approved)[i] = approved[i].example
      BY <1>1 DEF Said
    <2> QED BY <2>1, <2>2, <2>3, <2>4
  <1>5. \A i, j \in St : (place[j] < place[i] <=> j > i) /\ (place[i] = place[j] => i = j)
    <2>1. \A i \in L : Since(i, L) \in Nat /\ i \in Nat
      BY <1>2, SinceRanked
    <2>2. \A i, j \in L : (Since(j, L) < Since(i, L) => j > i) /\ (j > i => Since(j, L) < Since(i, L))
      BY <1>2, SinceRanked
    <2>3. \A i, j \in L : Since(i, L) = Since(j, L) => i = j
      BY <2>1, <2>2
    <2>4. \A i \in St : i \in L /\ place[i] = Since(i, L) + 1
      BY <1>4
    <2> HIDE DEF L, St, place
    <2> QED BY <2>1, <2>2, <2>3, <2>4
  <1>6. \A n \in 1..Len(list) : \E i \in St : place[i] = n
    <2>1. SUFFICES ASSUME NEW n \in 1..Len(list) PROVE \E i \in St : place[i] = n
      OBVIOUS
    <2>2. ListEntry(list, Said(approved), L, FewShotCap, n)
      <3> HIDE DEF L, list
      <3> QED BY <1>1, <1>2, ListHolds
    <2>3. PICK i \in L : Since(i, L) = n - 1 /\ Since(i, L) < FewShotCap
      <3> HIDE DEF L, list
      <3> QED BY <2>2 DEF ListEntry
    <2>4. i \in St /\ place[i] = (n - 1) + 1
      BY <2>3, <1>3
    <2>5. (n - 1) + 1 = n
      BY <1>1
    <2> QED BY <2>4, <2>5
  <1>7. \A n \in 1..Len(list) : Score(n) \in Nat
    <2>1. \A n \in 1..Len(list) : list[n] \in Examples
      <3> HIDE DEF list
      <3> QED BY <1>1
    <2>2. \A e \in Examples : e.question \in Questions
      BY DEF Examples
    <2> HIDE DEF list
    <2> QED BY <2>1, <2>2, OverlapCounts
  <1>8. \A i \in St : Shared(i) = Score(place[i])
    <2> HIDE DEF list, place, St
    <2> QED BY <1>4
  <1>9. DOMAIN list = 1..Len(list) /\ Len(list) \in Nat /\ hits \subseteq 1..Len(list) /\ hits \subseteq Nat
    <2>1. DOMAIN list = 1..Len(list) /\ Len(list) \in Nat
      BY <1>1
    <2> QED BY <2>1
  <1> HIDE DEF Score, Shared, list, L, St, place
  <1>10. /\ IsFiniteSet(fit) /\ \A i \in fit : i \in St /\ place[i] \in hits
         /\ \A n \in hits : \E i \in fit : place[i] = n
    <2>1. IsFiniteSet(fit)
      BY <1>3, FS_Subset
    <2>2. \A i \in fit : i \in St /\ place[i] \in hits
      BY <1>4, <1>8, <1>9
    <2>3. \A n \in hits : \E i \in fit : place[i] = n
      BY <1>6, <1>8, <1>9
    <2> QED BY <2>1, <2>2, <2>3
  <1>11. IsFiniteSet(hits) /\ Cardinality(hits) = Cardinality(fit)
    <2> HIDE DEF hits, fit
    <2> QED BY <1>5, <1>10, SameSize
  <1>12. InOrder(hits, Below)
    <2>1. \A n \in hits : n \in Nat /\ Score(n) \in Nat
      BY <1>7, <1>9
    <2> HIDE DEF hits
    <2>2. Below \in [hits -> SUBSET hits] /\ \A n \in hits : Below[n] = {m \in hits : Better(m, n)}
      OBVIOUS
    <2>3. \A m, n \in hits : m \in Below[n] <=> Score(m) > Score(n) \/ (Score(m) = Score(n) /\ m < n)
      BY <2>2
    <2> HIDE DEF Below, Better
    <2>4. \A m \in hits : m \notin Below[m]
      BY <2>1, <2>3
    <2>5. \A m, n \in hits : m # n => m \in Below[n] \/ n \in Below[m]
      BY <2>1, <2>3
    <2>6. \A m, n \in hits : m \in Below[n] => Below[m] \subseteq Below[n]
      <3>1. \A l, m, n \in hits : l \in Below[m] /\ m \in Below[n] => l \in Below[n]
        BY <2>1, <2>3
      <3> QED BY <3>1, <2>2
    <2> QED BY <2>2, <2>4, <2>5, <2>6 DEF InOrder
  <1>13. SortedBy(order, hits, Below)
    <2>1. SUFFICES ASSUME NEW n \in 1..Cardinality(hits)
                   PROVE  order[n] \in hits /\ Cardinality(Below[order[n]]) = n - 1
      BY DEF SortedBy
    <2>2. Ranked(hits, Below)
      <3> HIDE DEF hits, Below
      <3> QED BY <1>11, <1>12, RankOnto
    <2>3. n - 1 \in Nat /\ n - 1 < Cardinality(hits)
      BY <2>2 DEF Ranked
    <2>4. \E x \in hits : Cardinality(Below[x]) = n - 1
      <3> HIDE DEF hits, Below
      <3> QED BY <2>2, <2>3 DEF Ranked
    <2>5. \A x \in hits : Below[x] = {y \in hits : Better(y, x)}
      OBVIOUS
    <2> HIDE DEF hits, Below, Better
    <2>6. \E x \in hits : Cardinality({y \in hits : Better(y, x)}) = n - 1
      BY <2>4, <2>5
    <2>7. order[n] = CHOOSE x \in hits : Cardinality({y \in hits : Better(y, x)}) = n - 1
      OBVIOUS
    <2> HIDE DEF order
    <2>8. order[n] \in hits /\ Cardinality({y \in hits : Better(y, order[n])}) = n - 1
      BY <2>6, <2>7
    <2> QED BY <2>5, <2>8
  <1>14. \A i \in fit : Cardinality(ahead(i)) = Cardinality(Below[place[i]])
    <2>1. SUFFICES ASSUME NEW i \in fit PROVE Cardinality(ahead(i)) = Cardinality(Below[place[i]])
      OBVIOUS
    <2>2. \A j \in fit : Shared(j) = Score(place[j]) /\ Score(place[j]) \in Nat /\ place[j] \in hits /\ j \in St
      BY <1>4, <1>7, <1>8, <1>10
    <2>3. \A n \in hits : n \in Below[place[i]] <=> Score(n) > Score(place[i]) \/ (Score(n) = Score(place[i]) /\ n < place[i])
      BY <2>2
    <2>4. \A j \in fit : j \in ahead(i) <=> Shared(j) > Shared(i) \/ (Shared(j) = Shared(i) /\ j > i)
      OBVIOUS
    <2>5. \A j \in fit : j \in ahead(i) <=> place[j] \in Below[place[i]]
      <3>1. \A j \in fit : place[j] < place[i] <=> j > i
        BY <2>2, <1>5
      <3> HIDE DEF ahead, Below, fit, hits
      <3> QED BY <3>1, <2>2, <2>3, <2>4
    <2>6. ahead(i) \subseteq fit /\ Below[place[i]] \subseteq hits
      BY <2>2
    <2> DEFINE A == ahead(i)  B == Below[place[i]]
    <2>7. IsFiniteSet(A)
      <3> HIDE DEF fit, ahead
      <3> QED BY <2>6, <1>10, FS_Subset
    <2> HIDE DEF ahead, Below, fit, hits, Better
    <2>8. \A j \in A : place[j] \in B
      BY <2>5, <2>6
    <2>9. \A j, l \in A : place[j] = place[l] => j = l
      BY <2>2, <2>6, <1>5
    <2>10. \A n \in B : \E j \in A : place[j] = n
      BY <2>5, <2>6, <1>10
    <2> HIDE DEF A, B
    <2>11. Cardinality(B) = Cardinality(A)
      BY <2>7, <2>8, <2>9, <2>10, SameSize
    <2> QED BY <2>11 DEF A, B
  <1>15. \A n \in 1..Cardinality(hits) : order[n] \in hits
    <2> HIDE DEF hits, Below, order
    <2> QED BY <1>13 DEF SortedBy
  <1>16. Cardinality(hits) \in Nat
    <2> HIDE DEF hits
    <2> QED BY <1>11, FS_CardinalityType
  <1>17. full \in Seq(Examples) /\ Len(full) = Cardinality(hits)
    <2>1. \A n \in hits : list[n] \in Examples
      BY <1>1, <1>9
    <2> HIDE DEF hits, order
    <2>2. \A n \in 1..Cardinality(hits) : list[order[n]] \in Examples
      BY <1>15, <2>1
    <2> QED BY <2>2, <1>16
  <1>18. retrieve(c, q, limit, u) = Page(full, limit, 0)
    BY DEF retrieve, Sorted, list, Score, key
  <1>19. \A i \in fit : /\ Cardinality(ahead(i)) \in Nat /\ Cardinality(ahead(i)) + 1 \in 1..Cardinality(hits)
                        /\ full[Cardinality(ahead(i)) + 1] = approved[i].example
    <2>1. SUFFICES ASSUME NEW i \in fit
                   PROVE  /\ Cardinality(ahead(i)) \in Nat /\ Cardinality(ahead(i)) + 1 \in 1..Cardinality(hits)
                          /\ full[Cardinality(ahead(i)) + 1] = approved[i].example
      OBVIOUS
    <2> DEFINE a == Cardinality(ahead(i))
    <2>2. place[i] \in hits /\ i \in St /\ a = Cardinality(Below[place[i]])
      BY <1>10, <1>14
    <2>3. a + 1 \in 1..Cardinality(hits) /\ order[a + 1] = place[i] /\ a \in Nat
      <3>1. Ranked(hits, Below)
        <4> HIDE DEF hits, Below
        <4> QED BY <1>11, <1>12, RankOnto
      <3> HIDE DEF hits, Below, order, a
      <3>2. a \in Nat
        BY <2>2, <3>1 DEF Ranked
      <3> QED BY <2>2, <3>2, <1>11, <1>12, <1>13, SortedPlaces
    <2>4. full[a + 1] = list[order[a + 1]]
      <3> HIDE DEF a, order, hits
      <3> QED BY <2>3
    <2> HIDE DEF a, full, order, hits, fit
    <2>5. full[a + 1] = approved[i].example
      BY <2>2, <2>3, <2>4, <1>4
    <2> QED BY <2>3, <2>5 DEF a
  <1> HIDE DEF full, hits, order, Below
  <1>20. /\ Len(retrieve(c, q, limit, u)) = Min({limit, Cardinality(fit)})
         /\ \A n \in 1..Cardinality(hits) : n <= limit => retrieve(c, q, limit, u)[n] = full[n]
    BY <1>1, <1>11, <1>17, <1>18, FirstPage
  <1>21. \A i \in fit : Cardinality(ahead(i)) < limit => retrieve(c, q, limit, u)[Cardinality(ahead(i)) + 1] = approved[i].example
    <2>1. SUFFICES ASSUME NEW i \in fit, Cardinality(ahead(i)) < limit
                   PROVE  retrieve(c, q, limit, u)[Cardinality(ahead(i)) + 1] = approved[i].example
      OBVIOUS
    <2> DEFINE a == Cardinality(ahead(i))
    <2>2. a \in Nat /\ a + 1 \in 1..Cardinality(hits) /\ full[a + 1] = approved[i].example /\ a < limit
      BY <2>1, <1>19
    <2> HIDE DEF a
    <2>3. a + 1 <= limit
      BY <2>2, <1>1
    <2>4. retrieve(c, q, limit, u)[a + 1] = approved[i].example
      BY <2>2, <2>3, <1>20
    <2> QED BY <2>4 DEF a
  <1> QED BY <1>20, <1>21 DEF St, Shared, S


(* A row of a bucket is a row its user added, among the last HistoryCap.   *)
RowOf(i, n, j) ==
  /\ j \in 1..Len(rowLog) /\ buckets[i].rows[n] = rowLog[j]
  /\ \E c \in ConnectionIds, u \in Users :
       /\ buckets[i].key = <<c, u>> /\ j \in Mine(rowLog, c, u)
       /\ Since(j, Mine(rowLog, c, u)) = n - 1 /\ Since(j, Mine(rowLog, c, u)) < HistoryCap
LEMMA RowsKept ==
  ASSUME LogInv, BucketsInv
  PROVE  /\ \A i \in 1..Len(buckets) : \A n \in 1..Len(buckets[i].rows) : n \in 1..HistoryCap /\ \E j \in Nat : RowOf(i, n, j)
         /\ \A c \in ConnectionIds, u \in Users : \A j \in Mine(rowLog, c, u) :
              Since(j, Mine(rowLog, c, u)) < HistoryCap =>
                \E i \in 1..Len(buckets) : \E n \in 1..Len(buckets[i].rows) :
                  buckets[i].key = <<c, u>> /\ buckets[i].rows[n] = rowLog[j]
  <1>1. HistoryCap \in Nat /\ rowLog \in Seq(Rows)
    BY StoresAssumption DEF LogInv
  <1>2. \A c \in ConnectionIds, u \in Users :
          Mine(rowLog, c, u) \subseteq 1..Len(rowLog) /\ Mine(rowLog, c, u) \subseteq Nat /\ IsFiniteSet(Mine(rowLog, c, u))
    BY <1>1, MineFinite
  <1>3. ASSUME NEW i \in 1..Len(buckets), NEW n \in 1..Len(buckets[i].rows)
        PROVE  n \in 1..HistoryCap /\ \E j \in Nat : RowOf(i, n, j)
    <2> DEFINE list == buckets[i].rows
    <2>1. buckets[i] \in BucketSet
      BY DEF BucketsInv
    <2>2. PICK c \in ConnectionIds, u \in Users : buckets[i].key = <<c, u>>
      BY <2>1 DEF BucketSet
    <2> DEFINE S == Mine(rowLog, c, u)
    <2>3. ListsNewest(list, rowLog, S, HistoryCap)
      BY <2>2 DEF BucketsInv, BucketLists
    <2>4. S \subseteq 1..Len(rowLog) /\ S \subseteq Nat /\ IsFiniteSet(S)
      BY <1>2
    <2> HIDE DEF S, list
    <2>5. ListEntry(list, rowLog, S, HistoryCap, n) /\ Len(list) \in Nat /\ Len(list) <= HistoryCap
      BY <1>1, <1>3, <2>3, <2>4, ListHolds DEF list
    <2>6. PICK j \in S : Since(j, S) = n - 1 /\ Since(j, S) < HistoryCap /\ list[n] = rowLog[j]
      BY <2>5 DEF ListEntry
    <2>7. j \in Nat /\ RowOf(i, n, j)
      BY <2>2, <2>4, <2>6 DEF RowOf, S, list
    <2>8. n \in 1..Len(list)
      BY DEF list
    <2>9. n \in 1..HistoryCap
      BY <1>1, <2>5, <2>8
    <2> QED BY <2>7, <2>9
  <1>4. ASSUME NEW c \in ConnectionIds, NEW u \in Users, NEW j \in Mine(rowLog, c, u),
               Since(j, Mine(rowLog, c, u)) < HistoryCap
        PROVE  \E i \in 1..Len(buckets) : \E n \in 1..Len(buckets[i].rows) :
                 buckets[i].key = <<c, u>> /\ buckets[i].rows[n] = rowLog[j]
    <2> DEFINE S == Mine(rowLog, c, u)
    <2>1. PICK i \in 1..Len(buckets) : buckets[i].key = <<c, u>>
      BY DEF BucketsInv, BucketLists
    <2> DEFINE list == buckets[i].rows  n == Since(j, S) + 1
    <2>2. ListsNewest(list, rowLog, S, HistoryCap)
      BY <2>1 DEF BucketsInv, BucketLists
    <2>3. S \subseteq Nat /\ IsFiniteSet(S) /\ j \in S /\ Since(j, S) < HistoryCap
      BY <1>2, <1>4
    <2> HIDE DEF S, list
    <2>4. n \in 1..Len(list)
      BY <1>1, <2>2, <2>3, ListHolds
    <2>5. list[n] = rowLog[j]
      BY <2>2, <2>3 DEF ListsNewest
    <2> QED BY <2>1, <2>4, <2>5 DEF list
  <1> QED BY <1>3, <1>4

(* A place of the rows gathered for a connection, and what stands there.   *)
Gathered(c, p, i, n, j, u) ==
  /\ p = <<i, n>> /\ RowAt(p) = rowLog[j] /\ buckets[i].key = <<c, u>>
  /\ j \in Mine(rowLog, c, u) /\ Since(j, Mine(rowLog, c, u)) = n - 1 /\ Since(j, Mine(rowLog, c, u)) < HistoryCap
  /\ rowLog[j].userId = u

(* The rows of a connection: each kept row once, in the order of its time, *)
(* and one user's by their age.                                            *)
LEMMA ConnectionRows ==
  ASSUME LogInv, BucketsInv, NEW c \in ConnectionIds
  PROVE  LET rows == RowsOf(c) IN
         /\ {rows[n] : n \in DOMAIN rows} = UNION {KeptRows(c, u) : u \in Users}
         /\ \A i, j \in DOMAIN rows :
              i < j => rows[i].at >= rows[j].at /\ (rows[i].userId = rows[j].userId => rows[i].id > rows[j].id)
  <1> DEFINE own == {p \in UNION {{i} \X DOMAIN buckets[i].rows : i \in DOMAIN buckets} : RowAt(p).connectionId = c}
             Below == [p \in own |-> {o \in own : RowFirst(o, p)}]
             order == [n \in 1..Cardinality(own) |-> CHOOSE x \in own : Cardinality({y \in own : RowFirst(y, x)}) = n - 1]
             rows == [n \in 1..Cardinality(own) |-> RowAt(order[n])]
  <1>1. HistoryCap \in Nat /\ rowLog \in Seq(Rows) /\ Len(rowLog) \in Nat
    BY StoresAssumption DEF LogInv
  <1>2. DOMAIN buckets = 1..Len(buckets) /\ Len(buckets) \in Nat
    BY DEF BucketsInv
  <1>3. \A i \in 1..Len(buckets) : buckets[i].rows \in Seq(Rows) /\ DOMAIN buckets[i].rows = 1..Len(buckets[i].rows)
    <2>1. \A i \in 1..Len(buckets) : buckets[i] \in BucketSet
      BY DEF BucketsInv
    <2>2. \A b \in BucketSet : b.rows \in Seq(Rows)
      BY DEF BucketSet
    <2>3. \A i \in 1..Len(buckets) : buckets[i].rows \in Seq(Rows)
      BY <2>1, <2>2
    <2>4. \A list \in Seq(Rows) : DOMAIN list = 1..Len(list)
      OBVIOUS
    <2> QED BY <2>3, <2>4
  <1>4. \A j \in 1..Len(rowLog) : rowLog[j] \in Rows /\ rowLog[j].id = j /\ rowLog[j].at \in Nat
    <2>1. \A j \in 1..Len(rowLog) : rowLog[j] \in Rows /\ rowLog[j].id = j
      BY <1>1 DEF LogInv
    <2>2. \A row \in Rows : row.at \in Nat
      BY DEF Rows
    <2> QED BY <2>1, <2>2
  <1>5. ASSUME NEW p
        PROVE  p \in own <=> \E i \in 1..Len(buckets) : \E n \in 1..Len(buckets[i].rows) :
                               p = <<i, n>> /\ buckets[i].rows[n].connectionId = c
    <2>1. p \in own <=> \E i \in 1..Len(buckets) : p \in {i} \X (1..Len(buckets[i].rows)) /\ RowAt(p).connectionId = c
      BY <1>2, <1>3
    <2>2. \A i \in 1..Len(buckets) : \A n \in 1..Len(buckets[i].rows) : RowAt(<<i, n>>) = buckets[i].rows[n]
      BY DEF RowAt
    <2>3. \A i \in 1..Len(buckets) : p \in {i} \X (1..Len(buckets[i].rows)) <=> \E n \in 1..Len(buckets[i].rows) : p = <<i, n>>
      OBVIOUS
    <2> HIDE DEF own
    <2> QED BY <2>1, <2>2, <2>3
  <1>6. IsFiniteSet(own)
    <2>1. \A p \in own : p \in (1..Len(buckets)) \X (1..HistoryCap)
      <3>1. SUFFICES ASSUME NEW p \in own PROVE p \in (1..Len(buckets)) \X (1..HistoryCap)
        OBVIOUS
      <3>2. PICK i \in 1..Len(buckets) : \E n \in 1..Len(buckets[i].rows) : p = <<i, n>>
        <4> HIDE DEF own
        <4> QED BY <1>5
      <3>3. PICK n \in 1..Len(buckets[i].rows) : p = <<i, n>>
        BY <3>2
      <3>4. n \in 1..HistoryCap
        BY RowsKept
      <3> QED BY <3>3, <3>4
    <2>2. IsFiniteSet(1..Len(buckets)) /\ IsFiniteSet(1..HistoryCap)
      BY <1>1, <1>2, FS_Interval
    <2>3. IsFiniteSet((1..Len(buckets)) \X (1..HistoryCap))
      BY <2>2, FS_Product
    <2> HIDE DEF own
    <2> QED BY <2>1, <2>3, FS_Subset
  <1>7. ASSUME NEW p \in own
        PROVE  \E i \in 1..Len(buckets), n \in Nat, j \in 1..Len(rowLog), u \in Users : Gathered(c, p, i, n, j, u)
    <2>1. PICK i \in 1..Len(buckets) : \E n \in 1..Len(buckets[i].rows) : p = <<i, n>> /\ buckets[i].rows[n].connectionId = c
      <3> HIDE DEF own
      <3> QED BY <1>5, <1>7
    <2>2. PICK n \in 1..Len(buckets[i].rows) : p = <<i, n>> /\ buckets[i].rows[n].connectionId = c
      BY <2>1
    <2>3. PICK j \in Nat : RowOf(i, n, j)
      BY RowsKept
    <2>4. PICK c1 \in ConnectionIds, u \in Users :
            /\ buckets[i].key = <<c1, u>> /\ j \in Mine(rowLog, c1, u)
            /\ Since(j, Mine(rowLog, c1, u)) = n - 1 /\ Since(j, Mine(rowLog, c1, u)) < HistoryCap
      BY <2>3 DEF RowOf
    <2>5. j \in 1..Len(rowLog) /\ buckets[i].rows[n] = rowLog[j]
      BY <2>3 DEF RowOf
    <2>6. rowLog[j].connectionId = c1 /\ rowLog[j].userId = u
      BY <2>4 DEF Mine
    <2>7. c1 = c /\ RowAt(p) = rowLog[j] /\ n \in Nat
      <3>1. RowAt(p) = buckets[i].rows[n]
        BY <2>2 DEF RowAt
      <3>2. n \in Nat
        BY <1>3
      <3> QED BY <3>1, <3>2, <2>2, <2>5, <2>6
    <2> HIDE DEF own
    <2>8. Gathered(c, p, i, n, j, u)
      BY <2>2, <2>4, <2>6, <2>7 DEF Gathered
    <2> QED BY <2>5, <2>7, <2>8
  <1> HIDE DEF own
  <1>8. \A p \in own : p[1] \in Nat /\ p[2] \in Nat /\ p = <<p[1], p[2]>> /\ RowAt(p).at \in Nat
    <2>1. SUFFICES ASSUME NEW p \in own PROVE p[1] \in Nat /\ p[2] \in Nat /\ p = <<p[1], p[2]>> /\ RowAt(p).at \in Nat
      OBVIOUS
    <2>2. PICK i \in 1..Len(buckets), n \in Nat, j \in 1..Len(rowLog), u \in Users : Gathered(c, p, i, n, j, u)
      BY <1>7
    <2> QED BY <2>2, <1>2, <1>4 DEF Gathered
  <1>9. InOrder(own, Below)
    <2>1. Below \in [own -> SUBSET own] /\ \A p \in own : Below[p] = {o \in own : RowFirst(o, p)}
      OBVIOUS
    <2> DEFINE at == [p \in own |-> RowAt(p).at]  b == [p \in own |-> p[1]]  r == [p \in own |-> p[2]]
    <2>2. \A o, p \in own :
            o \in Below[p] <=> at[o] > at[p] \/ (at[o] = at[p] /\ (b[o] < b[p] \/ (b[o] = b[p] /\ r[o] < r[p])))
      BY <2>1 DEF RowFirst, GatheredFirst
    <2>3. \A p \in own : at[p] \in Nat /\ b[p] \in Nat /\ r[p] \in Nat
      BY <1>8
    <2>4. \A o, p \in own : b[o] = b[p] /\ r[o] = r[p] => o = p
      BY <1>8
    <2> HIDE DEF Below, at, b, r
    <2>5. \A p \in own : p \notin Below[p]
      BY <2>2, <2>3
    <2>6. \A o, p \in own : o # p => o \in Below[p] \/ p \in Below[o]
      BY <2>2, <2>3, <2>4
    <2>7. \A o, p \in own : o \in Below[p] => Below[o] \subseteq Below[p]
      <3>1. \A l, o, p \in own : l \in Below[o] /\ o \in Below[p] => l \in Below[p]
        BY <2>2, <2>3
      <3> QED BY <3>1, <2>1
    <2> QED BY <2>1, <2>5, <2>6, <2>7 DEF InOrder
  <1>10. SortedBy(order, own, Below)
    <2>1. SUFFICES ASSUME NEW n \in 1..Cardinality(own)
                   PROVE  order[n] \in own /\ Cardinality(Below[order[n]]) = n - 1
      BY DEF SortedBy
    <2>2. Ranked(own, Below)
      <3> HIDE DEF Below
      <3> QED BY <1>6, <1>9, RankOnto
    <2>3. n - 1 \in Nat /\ n - 1 < Cardinality(own)
      BY <2>2 DEF Ranked
    <2>4. \E x \in own : Cardinality(Below[x]) = n - 1
      <3> HIDE DEF Below
      <3> QED BY <2>2, <2>3 DEF Ranked
    <2>5. \A x \in own : Below[x] = {y \in own : RowFirst(y, x)}
      OBVIOUS
    <2> HIDE DEF Below
    <2>6. \E x \in own : Cardinality({y \in own : RowFirst(y, x)}) = n - 1
      BY <2>4, <2>5
    <2>7. order[n] = CHOOSE x \in own : Cardinality({y \in own : RowFirst(y, x)}) = n - 1
      OBVIOUS
    <2> HIDE DEF order
    <2>8. order[n] \in own /\ Cardinality({y \in own : RowFirst(y, order[n])}) = n - 1
      BY <2>6, <2>7
    <2> QED BY <2>5, <2>8
  <1>11. RowsOf(c) = rows
    BY DEF RowsOf, Sorted, own
  <1>12. DOMAIN rows = 1..Cardinality(own) /\ \A n \in 1..Cardinality(own) : order[n] \in own /\ rows[n] = RowAt(order[n])
    <2> HIDE DEF order, Below
    <2> QED BY <1>10 DEF SortedBy
  <1>13. /\ \A p \in own : \E n \in DOMAIN rows : rows[n] = RowAt(p)
         /\ \A n, m \in DOMAIN rows : n < m => RowFirst(order[n], order[m])
    <2> HIDE DEF order, rows
    <2>1. \A p \in own : Cardinality(Below[p]) + 1 \in 1..Cardinality(own) /\ order[Cardinality(Below[p]) + 1] = p
      <3> HIDE DEF Below
      <3> QED BY <1>6, <1>9, <1>10, SortedPlaces
    <2>2. \A n, m \in 1..Cardinality(own) : n < m => order[n] \in Below[order[m]]
      <3> HIDE DEF Below
      <3> QED BY <1>6, <1>9, <1>10, SortedPlaces
    <2>3. \A p \in own : \E n \in DOMAIN rows : rows[n] = RowAt(p)
      <3> HIDE DEF Below
      <3> QED BY <2>1, <1>12
    <2>4. \A n, m \in DOMAIN rows : n < m => RowFirst(order[n], order[m])
      BY <2>2, <1>12
    <2> QED BY <2>3, <2>4
  <1> HIDE DEF order, rows, Below
  <1>14. \A n \in DOMAIN rows : rows[n] \in UNION {KeptRows(c, u) : u \in Users}
    <2>1. SUFFICES ASSUME NEW n \in DOMAIN rows PROVE \E u \in Users : rows[n] \in KeptRows(c, u)
      OBVIOUS
    <2>2. order[n] \in own /\ rows[n] = RowAt(order[n])
      BY <1>12
    <2>3. PICK i \in 1..Len(buckets), k \in Nat, j \in 1..Len(rowLog), u \in Users : Gathered(c, order[n], i, k, j, u)
      BY <2>2, <1>7
    <2> QED BY <2>2, <2>3 DEF KeptRows, Gathered
  <1>15. \A u \in Users : \A row \in KeptRows(c, u) : \E n \in DOMAIN rows : rows[n] = row
    <2>1. SUFFICES ASSUME NEW u \in Users, NEW row \in KeptRows(c, u) PROVE \E n \in DOMAIN rows : rows[n] = row
      OBVIOUS
    <2>2. PICK j \in Mine(rowLog, c, u) : Since(j, Mine(rowLog, c, u)) < HistoryCap /\ row = rowLog[j]
      BY DEF KeptRows
    <2>3. PICK i \in 1..Len(buckets) : \E n \in 1..Len(buckets[i].rows) :
            buckets[i].key = <<c, u>> /\ buckets[i].rows[n] = rowLog[j]
      BY <2>2, RowsKept
    <2>4. PICK n \in 1..Len(buckets[i].rows) : buckets[i].rows[n] = rowLog[j]
      BY <2>3
    <2>5. rowLog[j].connectionId = c
      BY DEF Mine
    <2>6. <<i, n>> \in own
      BY <2>4, <2>5, <1>5
    <2>7. RowAt(<<i, n>>) = row
      BY <2>2, <2>4 DEF RowAt
    <2> QED BY <2>6, <2>7, <1>13
  <1>16. ASSUME NEW n \in DOMAIN rows, NEW m \in DOMAIN rows, n < m
         PROVE  rows[n].at >= rows[m].at /\ (rows[n].userId = rows[m].userId => rows[n].id > rows[m].id)
    <2> DEFINE p == order[n]  q == order[m]
    <2>1. p \in own /\ q \in own /\ rows[n] = RowAt(p) /\ rows[m] = RowAt(q) /\ RowFirst(p, q)
      BY <1>12, <1>13, <1>16
    <2> HIDE DEF p, q
    <2>12. PICK ip \in 1..Len(buckets), np \in Nat, jp \in 1..Len(rowLog), up \in Users :
             Gathered(c, p, ip, np, jp, up)
      BY <2>1, <1>7
    <2>2. /\ p = <<ip, np>> /\ RowAt(p) = rowLog[jp] /\ buckets[ip].key = <<c, up>>
          /\ jp \in Mine(rowLog, c, up) /\ Since(jp, Mine(rowLog, c, up)) = np - 1
          /\ rowLog[jp].userId = up
      BY <2>12 DEF Gathered
    <2>13. PICK iq \in 1..Len(buckets), nq \in Nat, jq \in 1..Len(rowLog), uq \in Users :
             Gathered(c, q, iq, nq, jq, uq)
      BY <2>1, <1>7
    <2>3. /\ q = <<iq, nq>> /\ RowAt(q) = rowLog[jq] /\ buckets[iq].key = <<c, uq>>
          /\ jq \in Mine(rowLog, c, uq) /\ Since(jq, Mine(rowLog, c, uq)) = nq - 1
          /\ rowLog[jq].userId = uq
      BY <2>13 DEF Gathered
    <2>4. /\ rowLog[jp].at \in Nat /\ rowLog[jq].at \in Nat /\ rowLog[jp].id = jp /\ rowLog[jq].id = jq
          /\ jp \in Nat /\ jq \in Nat
      BY <1>1, <1>4
    <2>5. \/ rowLog[jp].at > rowLog[jq].at
          \/ rowLog[jp].at = rowLog[jq].at /\ (ip < iq \/ (ip = iq /\ np < nq))
      BY <2>1, <2>2, <2>3 DEF RowFirst, GatheredFirst
    <2>6. rowLog[jp].at >= rowLog[jq].at
      BY <2>4, <2>5
    <2>7. ASSUME up = uq PROVE jp > jq
      <3>1. ip = iq
        BY <2>2, <2>3, <2>7 DEF BucketsInv
      <3>2. CASE rowLog[jp].at > rowLog[jq].at
        <4>1. jp < jq => rowLog[jp].at <= rowLog[jq].at
          BY DEF LogInv
        <4>2. jp # jq
          BY <3>2, <2>4
        <4> QED BY <3>2, <4>1, <4>2, <2>4
      <3>3. CASE np < nq
        <4> DEFINE S == Mine(rowLog, c, up)
        <4>1. S \subseteq Nat /\ IsFiniteSet(S) /\ jp \in S /\ jq \in S
          BY <1>1, <2>2, <2>3, <2>7, MineFinite
        <4>2. Since(jp, S) = np - 1 /\ Since(jq, S) = nq - 1
          BY <2>2, <2>3, <2>7
        <4> HIDE DEF S
        <4>3. Since(jp, S) < Since(jq, S)
          BY <4>2, <3>3
        <4> QED BY <4>1, <4>3, SinceRanked
      <3>4. ~(iq < iq) /\ iq \in Nat
        BY <1>2
      <3> QED BY <3>1, <3>2, <3>3, <3>4, <2>5
    <2> QED BY <2>1, <2>2, <2>3, <2>4, <2>6, <2>7
  <1>17. {rows[n] : n \in DOMAIN rows} = UNION {KeptRows(c, u) : u \in Users}
    <2>1. \A x : x \in {rows[n] : n \in DOMAIN rows} => x \in UNION {KeptRows(c, u) : u \in Users}
      BY <1>14
    <2>2. \A x : x \in UNION {KeptRows(c, u) : u \in Users} => x \in {rows[n] : n \in DOMAIN rows}
      BY <1>15
    <2> QED BY <2>1, <2>2
  <1> QED BY <1>11, <1>16, <1>17

StoresInv == LogInv /\ BucketsInv /\ ShotsInv

(* The stores' invariant holds in every state.                             *)
LEMMA StoresInvHolds == StoresSpec => []StoresInv
  <1>1. StoresInit => StoresInv
    <2>1. SUFFICES ASSUME StoresInit PROVE StoresInv
      OBVIOUS
    <2>2. /\ buckets = <<>> /\ byConn = <<>> /\ clock = 0 /\ rowLog = <<>> /\ approved = <<>>
      BY <2>1 DEF StoresInit
    <2>3. /\ \A c, u : Mine(<<>>, c, u) = {}
          /\ Len(<<>>) = 0 /\ 1..0 = {}
      BY DEF Mine
    <2>4. ASSUME NEW cap \in Nat, NEW log PROVE ListsNewest(<<>>, log, {}, cap)
      <3>1. Cardinality({}) = 0
        BY FS_EmptySet
      <3>2. Min({cap, 0}) = 0
        BY LesserOfTwo
      <3> QED BY <3>1, <3>2, <2>3 DEF ListsNewest
    <2>5. LogInv
      BY <2>2 DEF LogInv
    <2>6. BucketsInv
      BY <2>2, <2>3 DEF BucketsInv, BucketLists
    <2>7. ShotsInv
      <3>1. \A c, u : Shots(<<c, u>>) = <<>>
        BY <2>2 DEF Shots
      <3>2. LastSaid(<<>>, {}) = {}
        BY DEF LastSaid
      <3>3. \A c, u : ListsLast(<<>>, <<>>, c, u)
        <4>1. ListsNewest(<<>>, Said(<<>>), {}, FewShotCap)
          BY <2>4, StoresAssumption
        <4>2. <<>> \in Seq(Examples)
          OBVIOUS
        <4> QED BY <2>3, <3>2, <4>1, <4>2 DEF ListsLast
      <3> QED BY <2>2, <3>1, <3>3 DEF ShotsInv
    <2> QED BY <2>5, <2>6, <2>7 DEF StoresInv
  <1>2. StoresInv /\ [StoresNext]_storeVars => StoresInv'
    <2>1. SUFFICES ASSUME StoresInv, [StoresNext]_storeVars PROVE StoresInv'
      OBVIOUS
    <2>2. ASSUME UNCHANGED <<buckets, rowLog, clock>> PROVE LogInv' /\ BucketsInv'
      BY <2>1, <2>2 DEF StoresInv, LogInv, BucketsInv
    <2>3. ASSUME UNCHANGED <<byConn, approved>> PROVE ShotsInv'
      BY <2>1, <2>3 DEF StoresInv, ShotsInv, Shots
    <2>4. CASE UNCHANGED storeVars
      BY <2>2, <2>3, <2>4 DEF storeVars, StoresInv
    <2>5. ASSUME NEW c \in ConnectionIds, NEW u \in Users, AddRow(c, u) PROVE StoresInv'
      <3>1. LogInv' /\ BucketsInv'
        BY <2>1, <2>5, AddRowKeeps DEF StoresInv
      <3> QED BY <2>3, <2>5, <3>1 DEF AddRow, StoresInv
    <2>6. ASSUME NEW c \in ConnectionIds, NEW u \in Users, NEW q \in Questions, NEW s \in Approvable,
                 recordFeedback(q, s, c, u)
          PROVE  StoresInv'
      <3>1. ShotsInv'
        BY <2>1, <2>6, FeedbackKeeps DEF StoresInv
      <3> QED BY <2>2, <2>6, <3>1 DEF recordFeedback, StoresInv
    <2> QED BY <2>1, <2>4, <2>5, <2>6 DEF StoresNext
  <1> QED BY <1>1, <1>2, PTL DEF StoresSpec

(* The stores give back what they were given, to whom they were given it:  *)
(* a user's history is the rows the user added last, whatever the others   *)
(* did, and the examples a question retrieves are the user's own, in the   *)
(* statement approved last, those that share most words first.             *)
THEOREM StoresCorrect == StoresSpec => []StoresSound
  <1>1. StoresInv => StoresSound
    <2>1. SUFFICES ASSUME StoresInv PROVE HistoryKept /\ ExamplesKept
      BY DEF StoresSound
    <2>2. LogInv /\ BucketsInv /\ ShotsInv
      BY <2>1 DEF StoresInv
    <2>3. ASSUME NEW c \in ConnectionIds, NEW u \in UserIds
          PROVE  ListsNewest(listRows(c, u), rowLog, Mine(rowLog, c, u), HistoryCap)
      <3>1. listRows(c, u) = Bucket(<<c, u>>)
        BY StoresAssumption DEF listRows, key
      <3>2. u \in Users /\ rowLog \in Seq(Rows) /\ HistoryCap \in Nat
        BY <2>2, StoresAssumption DEF LogInv, Users
      <3> QED BY <3>1, <3>2, <2>2, BucketFound
    <2>4. \A c \in ConnectionIds : listRows(c, NoUser) = RowsOf(c)
      BY DEF listRows
    <2>5. HistoryKept
      BY <2>2, <2>3, <2>4, ConnectionRows DEF HistoryKept
    <2>6. ExamplesKept
      BY <2>2, Retrieved DEF ExamplesKept
    <2> QED BY <2>5, <2>6
  <1> QED BY <1>1, StoresInvHolds, PTL
=============================================================================
