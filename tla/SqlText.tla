------------------------------- MODULE SqlText -------------------------------
(***************************************************************************)
(* The lexical half of the SQL guards: core's strip.ts and the IDE's       *)
(* SqlLexer.kt read a statement character by character to hide strings and *)
(* comments, refuse a second statement, cut trailing noise, and append the *)
(* row cap as a line of its own.  A text is a sequence of symbols:         *)
(*   "x" a word     "w" a blank   "n" a line break   ";"  "'"  "\"         *)
(*   "--" opens a line comment, "/*" and "/*!" a block comment, "*/"       *)
(*   closes one, "LIMIT" is the clause the guard appends.                  *)
(***************************************************************************)
EXTENDS Naturals, Sequences, FiniteSets

CONSTANT MaxText      \* bound: length of the texts tried

Symbols == {"x", "w", "n", ";", "'", "\\", "--", "/*", "/*!", "*/"}
Openers == {"/*", "/*!"}

VARIABLES text,       \* what the model wrote
          dialect,    \* "postgres" or "mysql"
          port,       \* "core" or "ide": which guard reads it
          sent        \* the statement that leaves the guard, or how it ended

textVars == <<text, dialect, port, sent>>
Unread == <<"unread">>
Refused == <<"refused">>

(***************************************************************************)
(* Scanning.  A reader is described by how it treats a backslash inside a  *)
(* string and a comment inside a comment; its state is where it is, how    *)
(* deep, and whether the symbol it has read is code, string or comment.    *)
(* A doubled quote closes a string and opens the next.                     *)
(***************************************************************************)
Reading(mark, in, depth) == [mark |-> mark, in |-> in, depth |-> depth]
Unscanned == Reading("none", "code", 0)

Step(reader, st, ch) ==
    CASE st.in = "code" /\ ch = "'"        -> Reading("string", "string", 0)
      [] st.in = "code" /\ ch = "--"       -> Reading("comment", "line", 0)
      [] st.in = "code" /\ ch \in Openers  -> Reading("comment", "block", 1)
      [] st.in = "code" /\ ch \notin {"'", "--"} \union Openers -> Reading("code", "code", 0)
      [] st.in = "escape"                  -> Reading("string", "string", 0)
      [] st.in = "string" /\ ch = "'"      -> Reading("string", "code", 0)
      [] st.in = "string" /\ ch # "'"      ->
           Reading("string", IF ch = "\\" /\ reader.escapes THEN "escape" ELSE "string", 0)
      [] st.in = "line" /\ ch = "n"        -> Reading("code", "code", 0)
      [] st.in = "line" /\ ch # "n"        -> Reading("comment", "line", 0)
      [] st.in = "block" /\ ch = "*/"      ->
           IF st.depth = 1 THEN Reading("comment", "code", 0) ELSE Reading("comment", "block", st.depth - 1)
      [] st.in = "block" /\ ch # "*/"      ->
           Reading("comment", "block", IF ch \in Openers /\ reader.nests THEN st.depth + 1 ELSE st.depth)

(* The states of a reader before the first symbol and after each. *)
Scan(reader, s) ==
    LET st[k \in 0..Len(s)] == IF k = 0 THEN Unscanned ELSE Step(reader, st[k - 1], s[k])
    IN st

Marks(reader, s) == LET st == Scan(reader, s) IN [k \in 1..Len(s) |-> st[k].mark]

(* stripCommentsAndStrings and maskCommentsAndStrings of strip.ts *)
CoreReader(d) == [escapes |-> d = "mysql", nests |-> TRUE]
(* trimTrailingNoise of strip.ts, which has no MySQL backslash *)
TrimReader(d) == [escapes |-> FALSE, nests |-> TRUE]
(* SqlLexer.stripCommentsAndStrings *)
IdeReader(d) == [escapes |-> FALSE, nests |-> FALSE]
(* The database itself: PostgreSQL nests comments, MySQL escapes. *)
DatabaseReader(d) == [escapes |-> d = "mysql", nests |-> d = "postgres"]

Blank == {"w", "n"}
Latest(S) == IF S = {} THEN 0 ELSE CHOOSE k \in S : \A j \in S : j <= k

(* The last symbol that is part of the statement: code other than blanks
   and semicolons, or a string. *)
EndOf(reader, s) ==
    LET m == Marks(reader, s)
    IN Latest({k \in 1..Len(s) : m[k] = "string" \/ (m[k] = "code" /\ s[k] \notin Blank \union {";"})})

(* hasMysqlExecutableComment: an executable comment that opens in code. *)
HasExecutableComment(s) ==
    LET st == Scan([escapes |-> TRUE, nests |-> FALSE], s)
    IN \E k \in 1..Len(s) : s[k] = "/*!" /\ st[k - 1].in = "code"

CodeAt(reader, s, ch) == {k \in 1..Len(s) : s[k] = ch /\ Marks(reader, s)[k] = "code"}

(* strip.ts hasMultipleStatements: a separator with code after it. *)
CoreMultiple(s, d) ==
    LET m == Marks(CoreReader(d), s)
        end == Latest({k \in 1..Len(s) : m[k] = "code" /\ s[k] \notin Blank \union {";"}})
    IN \E k \in CodeAt(CoreReader(d), s, ";") : k < end

(* SqlLexer.hasMultipleStatements: anything but blanks after the first one. *)
IdeMultiple(s, d) ==
    LET m == Marks(IdeReader(d), s)
    IN \E k \in CodeAt(IdeReader(d), s, ";"), j \in 1..Len(s) :
         k < j /\ m[j] = "code" /\ s[j] \notin Blank

(* guard.ts: the statement without its trailing noise. *)
MaskedBody(s, d) ==
    LET m == Marks(CoreReader(d), s)
    IN SubSeq(s, 1, Latest({k \in 1..Len(s) : m[k] = "code" /\ s[k] \notin Blank \union {";"}}))
CoreBody(s, d) == SubSeq(s, 1, EndOf(TrimReader(d), s))

(* SqlGuard.kt: the trimmed text, less one semicolon at its very end. *)
IdeBody(s) ==
    LET trimmed == SubSeq(s, 1, Latest({k \in 1..Len(s) : s[k] \notin Blank}))
        n == Len(trimmed)
    IN IF n > 0 /\ trimmed[n] = ";" THEN SubSeq(trimmed, 1, n - 1) ELSE trimmed

(* external: the parser reads comments and strings as its database does,
   and refuses what is unfinished, stray or more than one statement. *)
Parses(s, d) ==
    LET ended == Scan(DatabaseReader(d), s)[Len(s)]
        m == Marks(DatabaseReader(d), s)
        end == EndOf(DatabaseReader(d), s)
    IN /\ ended.in \in {"code", "line"}
       /\ \A k \in 1..Len(s) : m[k] = "code" => s[k] \notin {"\\", "*/"}
       /\ \A k \in 1..end : ~(m[k] = "code" /\ s[k] = ";")
       /\ \E k \in 1..Len(s) : m[k] = "code" /\ s[k] = "x"

(* What leaves the guard for a statement that has no limit of its own. *)
Capped(body, d) == IF Parses(body, d) THEN body \o <<"n", "LIMIT">> ELSE Refused

Guarded ==
    IF dialect = "mysql" /\ HasExecutableComment(text) THEN Refused
    ELSE IF port = "core"
           THEN IF CoreMultiple(text, dialect) THEN Refused ELSE Capped(CoreBody(text, dialect), dialect)
           ELSE IF IdeMultiple(text, dialect) THEN Refused ELSE Capped(IdeBody(text), dialect)

TextInit == /\ text \in UNION {[1..n -> Symbols] : n \in 1..MaxText}
            /\ dialect \in {"postgres", "mysql"}
            /\ port \in {"core", "ide"}
            /\ sent = Unread

GuardText == /\ sent = Unread
             /\ sent' = Guarded
             /\ UNCHANGED <<text, dialect, port>>

TextNext == GuardText
TextSpec == TextInit /\ [][TextNext]_textVars

-----------------------------------------------------------------------------
(* What a database reads of a text: its code and its strings, in order. *)
Read(s, d) ==
    LET m == Marks(DatabaseReader(d), s)
    IN {k \in 1..Len(s) : m[k] # "comment" /\ s[k] \notin Blank}
Meaning(s, d) ==
    LET read == Read(s, d)
    IN [n \in 1..Cardinality(read) |-> s[CHOOSE k \in read : Cardinality({j \in read : j <= k}) = n]]

(* The statement that leaves the guard means what was asked, with the row
   cap bound to it: nothing of it was cut as noise, and neither a comment nor
   a semicolon keeps the appended LIMIT from the database (strip.ts
   trimTrailingNoise, guard.ts 872-873 "so the appended auto-LIMIT binds to the
   statement"). *)
CapBindsText ==
    sent \notin {Unread, Refused} =>
      LET said == SubSeq(text, 1, EndOf(DatabaseReader(dialect), text))
      IN Meaning(sent, dialect) = Meaning(said, dialect) \o <<"LIMIT">>

(* Texts every reader of MySQL text reads alike: strip.ts nests comments,
   which MySQL does not, and trimTrailingNoise knows no backslash. *)
Undisputed ==
    dialect = "mysql" => /\ \A k \in 1..Len(text) : text[k] # "\\"
                         /\ \A j, k \in 1..Len(text) : {text[j], text[k]} \subseteq Openers => j = k

(* CapBindsText for core's guard, on every PostgreSQL text and on the MySQL
   texts its readers agree about. *)
CoreCapBinds == port = "core" /\ Undisputed => CapBindsText
=============================================================================
