--------------------------- MODULE MCAskPipeline ---------------------------
(* Small instances of AskPipeline for TLC.                                  *)
EXTENDS AskPipeline

\* Flaws of a statement that are there in every spelling, in one only, and
\* in all but one: quoting a name changes what it resolves to, and a text
\* the parser cannot read shows the floors nothing.
InEvery(flaws) == [s \in Spellings |-> flaws]
InOnly(s, flaws) == [InEvery({}) EXCEPT ![s] = flaws]
InAllBut(s, flaws) == [InEvery(flaws) EXCEPT ![s] = {}]

\* One flaw of each kind the floors tell apart: refused at once, fatal at the
\* last attempt, noted, and left to the database.
FlawKinds == {"literalOnly", "unknownTable", "fanOut", "ambiguous"}
BySpelling == {"unknownTable", "fanOut"}

\* Any of the spellings allowed, with any flaws, alike or not.
ManySpellings ==
  [allowed : SUBSET Spellings,
   flaws : {InEvery(F) : F \in SUBSET FlawKinds}
             \cup {InOnly(s, {f}) : s \in Spellings, f \in BySpelling}
             \cup {InAllBut(s, {f}) : s \in Spellings, f \in BySpelling}]

\* Replies with nothing to quote, flawless or with one flaw that is noted.
OneSpelling == [allowed : {{}, {"raw"}}, flaws : {InEvery({}), InEvery({"fanOut"})}]
Flawless == [allowed : {{}, {"raw"}}, flaws : {InEvery({})}]
OneLimit == {1}
OneTotal == {1}
\* No LIMIT, below, at and above the cap of two rows.
LimitsAroundCap == 0 .. MaxRows + 1
TotalsAroundCap == 0 .. MaxRows + 2
=============================================================================
