---------------------------- MODULE StageFields ----------------------------
(***************************************************************************)
(* firstUnknownStageField (packages/core/src/mongo/stage-fields.ts): the   *)
(* walk over a pipeline that reports a field which no earlier stage leaves *)
(* in the document.  One step is one stage; beside what the walk believes, *)
(* the module keeps what a document really may hold there.                 *)
(*                                                                         *)
(* A path is its root and whether anything follows it ("a" or "a.b").  A   *)
(* stage is its name, the paths it mentions as keys, the roots of its      *)
(* expressions, and for $project how it selects.                           *)
(***************************************************************************)
EXTENDS FiniteSets

CONSTANTS
  Roots,         \* the names a document may have at its top, "_id" among them
  ProjectForms   \* "in", "out", and "inner": { a: { b: 0 } }

ASSUME StageFieldsAssumption ==
  /\ "_id" \in Roots /\ ProjectForms \subseteq {"in", "out", "inner"}

VARIABLES
  holds,      \* the roots a document may really have here
  available,  \* the set the walk has computed
  narrowed,   \* it has one: `available` is not null
  walking,    \* the walk goes on
  reported    \* the field it returned, and whether a document may have it

stageVars == <<holds, available, narrowed, walking, reported>>

Narrowing == {"$group", "$count"}
Passing == {"$match", "$sort", "$limit", "$skip", "$sample"}
Paths == Roots \X BOOLEAN                 \* the root, and "something follows"
RootsOf(keys) == {k[1] : k \in keys}
Bare(keys) == {k[1] : k \in {k \in keys : ~k[2]}}
Nothing == [some |-> FALSE, there |-> FALSE]

StageInit ==
  /\ holds \in SUBSET Roots /\ available = {} /\ narrowed = FALSE
  /\ walking = TRUE /\ reported = Nothing

-----------------------------------------------------------------------------
(* What MongoDB makes of the document's roots (external).                  *)
Projects(form, keys, id) ==
  CASE form = "in" -> (RootsOf(keys) \ {"_id"}) \cup (IF id = "drop" THEN {} ELSE holds \cap {"_id"})
    [] form = "out" -> holds \ (Bare(keys) \cup IF id = "drop" THEN {"_id"} ELSE {})
    [] form = "inner" -> IF id = "drop" THEN holds \ {"_id"} ELSE holds

Really(name, keys, form, id) ==
  CASE name \in Narrowing -> RootsOf(keys)
    [] name = "$project" -> Projects(form, keys, id)
    [] name \in {"$addFields", "$set", "$lookup", "$unwind"} -> holds \cup RootsOf(keys)
    [] name = "$unset" -> holds \ Bare(keys)
    [] OTHER -> holds

-----------------------------------------------------------------------------
(* isInclusionProjection: the first key that is not _id tells; a value     *)
(* that is an object counts as a selection.                                *)
IsInclusionProjection(form, keys, id) ==
  IF RootsOf(keys) \ {"_id"} = {} THEN id # "drop" ELSE form # "out"

(* projectedNames, of an inclusion.                                        *)
ProjectedNames(keys, id) ==
  (RootsOf(keys) \ {"_id"}) \cup (IF id = "drop" THEN {} ELSE {"_id"})

(* Mutant: `$unset: "a.b"` takes all of `a` away.                          *)
DropsParents(keys) == available \ RootsOf(keys)

(* A dotted key removes one sub-field and leaves the parent.               *)
Drops(keys) == available \ Bare(keys)

(* What the walk makes of `available`; narrows says it has one afterwards. *)
AfterProject(form, keys, id) ==
  IF IsInclusionProjection(form, keys, id) THEN ProjectedNames(keys, id)
  ELSE Drops(keys \cup IF id = "none" THEN {} ELSE {<<"_id", FALSE>>})

After(name, keys, form, id) ==
  CASE name \in Narrowing -> RootsOf(keys)
    [] name = "$project" -> AfterProject(form, keys, id)
    [] name \in {"$addFields", "$set", "$lookup", "$unwind"} -> available \cup RootsOf(keys)
    [] name = "$unset" -> Drops(keys)
    [] OTHER -> available

Narrows(name, form, keys, id) ==
  \/ narrowed \/ name \in Narrowing
  \/ name = "$project" /\ IsInclusionProjection(form, keys, id)

(* fieldRefsIn: of a $lookup only localField and `let` are this document's.*)
UnknownRef(refs) == narrowed /\ refs \ available # {}

(* A stage the walk reproduces: its references first, then its effect.     *)
WalkStage(name, keys, form, id, refs) ==
  /\ walking
  /\ holds' = Really(name, keys, form, id)
  /\ \/ /\ UnknownRef(refs)
        /\ \E f \in refs \ available : reported' = [some |-> TRUE, there |-> f \in holds]
        /\ walking' = FALSE
        /\ UNCHANGED <<available, narrowed>>
     \/ /\ ~UnknownRef(refs)
        /\ narrowed' = Narrows(name, form, keys, id)
        /\ available' = IF narrowed' THEN After(name, keys, form, id) ELSE {}
        /\ UNCHANGED <<walking, reported>>

(* $replaceRoot, $facet, $unionWith, a stage of another shape, or the end. *)
StopWalk ==
  /\ walking
  /\ walking' = FALSE
  /\ UNCHANGED <<holds, available, narrowed, reported>>

(* The keys a stage of each name may have.                                 *)
KeysOf(name) ==
  CASE name = "$count" -> {{<<r, FALSE>>} : r \in Roots}
    [] name = "$group" -> {{<<"_id", FALSE>>} \cup k : k \in SUBSET (Roots \X {FALSE})}
    [] name = "$project" -> SUBSET ((Roots \ {"_id"}) \X BOOLEAN)
    [] name = "$lookup" -> {{p} : p \in Paths}
    [] name \in {"$addFields", "$set", "$unset"} -> SUBSET Paths \ {{}}
    [] name = "$unwind" -> {{}} \cup {{p} : p \in Paths}
    [] OTHER -> {{}}

(* A projection names a field, or `_id` alone; one that removes fields     *)
(* does not select `_id`.                                                  *)
Projections ==
  {p \in KeysOf("$project") \X ProjectForms \X {"drop", "keep", "none"} :
     /\ p[1] = {} => p[3] # "none" /\ p[2] = IF p[3] = "drop" THEN "out" ELSE "in"
     /\ p[2] # "in" => p[3] # "keep"}

StageNext ==
  \/ \E name \in Narrowing \cup Passing \cup {"$addFields", "$set", "$unset", "$lookup", "$unwind"},
        refs \in SUBSET Roots :
       \E keys \in KeysOf(name) : WalkStage(name, keys, "in", "none", refs)
  \/ \E p \in Projections, refs \in SUBSET Roots : WalkStage("$project", p[1], p[2], p[3], refs)
  \/ StopWalk

StageSpec == StageInit /\ [][StageNext]_stageVars
-----------------------------------------------------------------------------
(* "Only provable absences count": a field the walk reports as produced by *)
(* no earlier stage is one no document can have there, for the projections *)
(* of ProjectForms.                                                        *)
AbsenceProven == reported.some => ~reported.there

(* What the walk believes is never less than what a document may hold.     *)
NarrowedCovers == walking /\ narrowed => holds \subseteq available
=============================================================================
