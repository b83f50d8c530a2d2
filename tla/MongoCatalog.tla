----------------------------- MODULE MongoCatalog -----------------------------
(***************************************************************************)
(* The schema a MongoDB collection is given by sampling it: introspect.ts  *)
(* of the connector ("node") and MongoIntrospector.kt ("ide"). Documents   *)
(* are walked one after the other; the dotted text of each field path is   *)
(* counted, up to MaxPaths of them; then the children that are keys of a   *)
(* map (an address, an id) rather than fields are left out of the columns, *)
(* because a column's name reaches the prompt whatever the data opt-in.    *)
(*                                                                         *)
(* A key is a sequence of atoms, so that a key may itself hold dots: the   *)
(* text of a path is its prefix followed by its key, and two keys of two   *)
(* objects may have one text. A document is the set of the keys its walk   *)
(* visits, each with the text of the object it is in. Types, examples and  *)
(* percentages are not modelled.                                           *)
(***************************************************************************)
EXTENDS Naturals, Sequences, FiniteSets, SequencesExt, FiniteSetsExt

CONSTANTS Atoms,        \* the atoms that read as a field name
          DataAtoms,    \* atoms that do not
          Documents,    \* the documents a sample may hold
          MaxDocs,      \* SAMPLE_SIZE
          MaxPaths,     \* MAX_PATHS
          MaxFields     \* MAX_RECORD_FIELDS

VARIABLES impl,      \* "node" or "ide"
          sample,    \* the documents merged so far
          stats,     \* text |-> how many documents hold it
          parentOf,  \* text |-> text of its parent as last walked, <<>> for the root
          fieldColumns, cutWarned, samplePhase
mongoVars == <<impl, sample, stats, parentOf, fieldColumns, cutWarned, samplePhase>>

AnyAtom == Atoms \cup DataAtoms
Visits == [prefix : Seq(AnyAtom), key : Seq(AnyAtom) \ {<<>>}]
Text(v) == v.prefix \o v.key             \* `${prefix}.${key}`
FieldKey(key) == Len(key) = 1 /\ key[1] \in Atoms          \* FIELD_SEGMENT
Texts(doc) == {Text(v) : v \in doc}

(* A document's keys are in the root or in an object under another key.                           *)
ASSUME MongoCatalogAssumption ==
  /\ Atoms \cap DataAtoms = {}
  /\ \A doc \in Documents : /\ doc \subseteq Visits
                            /\ \A v \in doc : v.prefix \in Texts(doc) \cup {<<>>}
  /\ MaxDocs \in Nat /\ MaxPaths \in Nat /\ MaxFields \in Nat

MongoInit ==
  /\ impl \in {"node", "ide"} /\ samplePhase = "sampling" /\ sample = <<>>
  /\ stats = <<>> /\ parentOf = <<>>
  /\ fieldColumns = {} /\ cutWarned = FALSE

(* The connector walks the whole document before it counts; the IDE counts as it walks, and does   *)
(* not go into an object whose path it has no room for.                                           *)
Walks(doc, counted) ==
  IF impl = "node" THEN {doc}
  ELSE {walked \in SUBSET doc :
          walked = {v \in doc : v.prefix = <<>> \/ v.prefix \in counted \cap Texts(walked)}}

(* mergeDoc: a text already counted is counted once more, a new one while there is room. The texts *)
(* are merged in the document's order, an object before its keys, so any choice that is closed    *)
(* that way may be the one that fits.                                                             *)
Fits(walked, kept) ==
  LET new == Texts(walked) \ DOMAIN stats
      room == MaxPaths - Cardinality(DOMAIN stats)
  IN /\ kept \subseteq new
     /\ Cardinality(kept) = (IF Cardinality(new) <= room THEN Cardinality(new) ELSE room)
     /\ \A t \in kept : \E v \in walked : Text(v) = t /\ v.prefix \in kept \cup DOMAIN stats \cup {<<>>}

Count(walked, t) == (IF t \in DOMAIN stats THEN stats[t] ELSE 0) + (IF t \in Texts(walked) THEN 1 ELSE 0)

(* walkObject notes the parent of each path; of two keys with one text the later one wins.         *)
ParentsAfter(last) ==
  [t \in DOMAIN parentOf \cup DOMAIN last |-> IF t \in DOMAIN last THEN last[t].prefix ELSE parentOf[t]]

WalkDocument(doc) ==
  /\ samplePhase = "sampling" /\ Len(sample) < MaxDocs
  /\ sample' = Append(sample, doc)
  /\ \E kept \in SUBSET (Texts(doc) \ DOMAIN stats) : \E walked \in Walks(doc, kept \cup DOMAIN stats) :
       /\ Fits(walked, kept)
       /\ stats' = [t \in DOMAIN stats \cup kept |-> Count(walked, t)]
       /\ \E last \in [Texts(walked) -> walked] :
            (\A t \in Texts(walked) : Text(last[t]) = t) /\ parentOf' = ParentsAfter(last)
  /\ UNCHANGED <<impl, fieldColumns, cutWarned, samplePhase>>

-----------------------------------------------------------------------------
(* mapShapedPaths: which children of a parent are data. *)
Segment(parent, t) == SubSeq(t, Len(parent) + 1, Len(t))
\* MUTANT: the parent recovered from the text, as the longest prefix that is itself a path.
ParentByText(t) ==
  LET shorter == {n \in 0..(Len(t) - 1) : n = 0 \/ SubSeq(t, 1, n) \in DOMAIN stats}
  IN SubSeq(t, 1, CHOOSE n \in shorter : \A m \in shorter : m <= n)
ParentOf(t) == parentOf[t]

Children(parent) == {t \in DOMAIN stats : ParentOf(t) = parent}
Parents == {ParentOf(t) : t \in DOMAIN stats}
IsField(parent, t) == FieldKey(Segment(parent, t))

DocsHolding(parent) == IF parent = <<>> THEN Len(sample) ELSE stats[parent]
KeysRecur(parent) ==
  LET nameable == {t \in Children(parent) : IsField(parent, t)}
      occurrences == FoldSet(LAMBDA t, n : stats[t] + n, 0, nameable)
  IN Cardinality(nameable) <= MaxFields /\ occurrences >= 2 * Cardinality(nameable)
Rare(parent, t) == stats[t] < 2 \/ 10 * stats[t] < 6 * DocsHolding(parent)
DataChildren(parent) ==
  {t \in Children(parent) :
     \/ ~IsField(parent, t)
     \/ parent # <<>> /\ DocsHolding(parent) >= 3 /\ ~KeysRecur(parent) /\ Rare(parent, t)}

(* A lone field-shaped child is a sparse field, not a map. *)
Collapsed(parent) ==
  IF \/ parent # <<>> /\ parent \notin DOMAIN stats
     \/ Cardinality(DataChildren(parent)) = 1 /\ \A t \in DataChildren(parent) : IsField(parent, t)
  THEN {} ELSE DataChildren(parent)
mapShapedPaths == UNION {Collapsed(parent) : parent \in Parents}

buildColumns == {t \in DOMAIN stats : ~\E k \in mapShapedPaths : IsPrefix(k, t)}

(* introspectCollection: an empty sample describes nothing; the connector warns of a cut when the *)
(* fieldColumns it is left with reach the cap, the IDE never does.                                     *)
CutWarned(cols) == impl = "node" /\ Cardinality(cols) >= MaxPaths
InferColumns ==
  /\ samplePhase = "sampling" /\ sample # <<>>
  /\ fieldColumns' = buildColumns /\ cutWarned' = CutWarned(buildColumns) /\ samplePhase' = "done"
  /\ UNCHANGED <<impl, sample, stats, parentOf>>
SampleFails ==
  /\ samplePhase = "sampling" /\ sample = <<>>
  /\ samplePhase' = "failed" /\ cutWarned' \in BOOLEAN    \* an empty collection is no warning
  /\ UNCHANGED <<impl, sample, stats, parentOf, fieldColumns>>

MongoNext == (\E doc \in Documents : WalkDocument(doc)) \/ InferColumns \/ SampleFails
MongoSpec == MongoInit /\ [][MongoNext]_mongoVars

-----------------------------------------------------------------------------
SampledVisits == UNION {sample[i] : i \in DOMAIN sample}

(* Every object a counted path was last seen in is itself a counted path. *)
ParentsCounted == \A t \in DOMAIN stats : ParentOf(t) \in DOMAIN stats \cup {<<>>}

(* No key that is data becomes a column name: a column is a field, by its shape, of the root or of *)
(* an object that is itself a column, in some document. A name reaches the prompt without any      *)
(* opt-in, and keys with dots collide with field paths. Of the connector this is said of samples   *)
(* whose objects were all counted; the IDE counts every object it walks into.                      *)
NamesAreFields ==
  impl = "ide" \/ ParentsCounted =>
    \A c \in fieldColumns : \E v \in SampledVisits :
      Text(v) = c /\ FieldKey(v.key) /\ v.prefix \in fieldColumns \cup {<<>>}

(* "an unannounced cut [is] unrecoverable": a collection whose fields were cut at the cap says so. *)
CutAnnounced ==
  (samplePhase = "done" /\ impl = "node" /\ \E v \in SampledVisits : FieldKey(v.key) /\ Text(v) \notin DOMAIN stats)
    => cutWarned
=============================================================================
