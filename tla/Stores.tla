-------------------------------- MODULE Stores --------------------------------
(***************************************************************************)
(* The in-memory history and few-shot stores (core history.ts) and the     *)
(* feedback that fills the latter (engine.ts, recordFeedback). Both keep a *)
(* list per connection and user, newest first and cut at a cap, so that a  *)
(* busy user's rows neither reach nor evict another's.                     *)
(*                                                                         *)
(* A question is a text in some spelling: spellings differ in case and in  *)
(* blanks around. Reads change nothing and are operators.                  *)
(***************************************************************************)
EXTENDS Naturals, Sequences, FiniteSets, SequencesExt

CONSTANTS ConnectionIds, UserIds,
          WordsOf,       \* [text -> the words of it that count]
          Spellings, Approvable,
          HistoryCap,    \* capPerScope
          FewShotCap,    \* capPerConn
          MaxAdds        \* how many rows and examples are added

NoUser == ""   \* userId is undefined: local mode

ASSUME StoresAssumption ==
  /\ NoUser \notin UserIds
  /\ \A w \in DOMAIN WordsOf : IsFiniteSet(WordsOf[w])
  /\ HistoryCap \in Nat /\ FewShotCap \in Nat

VARIABLES buckets,   \* the map of the history store, in insertion order: [key, rows]
          byConn,    \* the map of the few-shot store: key -> examples
          clock, rowLog, approved  \* the time; every row and every approval, oldest first
storeVars == <<buckets, byConn, clock, rowLog, approved>>

Questions == [text : DOMAIN WordsOf, spelling : Spellings]
Users == UserIds \cup {NoUser}

StoresInit == buckets = <<>> /\ byConn = <<>> /\ clock = 0 /\ rowLog = <<>> /\ approved = <<>>

(* Mutant: one list per connection.                                                               *)
connectionKey(connectionId, userId) == <<connectionId, NoUser>>

(* The ids joined by a NUL, which no id holds. *)
key(connectionId, userId) == <<connectionId, userId>>

Newest(list, cap) == SubSeq(list, 1, IF Len(list) > cap THEN cap ELSE Len(list))

BucketAt(k) == {i \in DOMAIN buckets : buckets[i].key = k}
Bucket(k) == IF BucketAt(k) = {} THEN <<>> ELSE buckets[CHOOSE i \in BucketAt(k) : TRUE].rows

AddRow(connectionId, userId) ==
  /\ Len(rowLog) + Len(approved) < MaxAdds
  /\ \E at \in {clock, clock + 1} :
       LET entry == [id |-> Len(rowLog) + 1, connectionId |-> connectionId, userId |-> userId, at |-> at]
           k == key(connectionId, userId)
           list == [key |-> k, rows |-> Newest(<<entry>> \o Bucket(k), HistoryCap)]
       IN /\ buckets' = (IF BucketAt(k) = {} THEN Append(buckets, list)
                         ELSE [i \in DOMAIN buckets |-> IF i \in BucketAt(k) THEN list ELSE buckets[i]])
          /\ rowLog' = Append(rowLog, entry) /\ clock' = at
  /\ UNCHANGED <<byConn, approved>>

(* sort: what comes before an element decides its place. *)
Sorted(S, Before(_, _)) ==
  [n \in 1..Cardinality(S) |-> CHOOSE x \in S : Cardinality({y \in S : Before(y, x)}) = n - 1]

(* list: one user's bucket, or every bucket of the connection sorted by time; a page of it. Rows of
   one time stay in the order they were gathered in, bucket after bucket. *)
RowAt(p) == buckets[p[1]].rows[p[2]]
GatheredFirst(p, q) == p[1] < q[1] \/ (p[1] = q[1] /\ p[2] < q[2])
RowFirst(p, q) == RowAt(p).at > RowAt(q).at \/ (RowAt(p).at = RowAt(q).at /\ GatheredFirst(p, q))
RowsOf(connectionId) ==
  LET own == {p \in UNION {{i} \X DOMAIN buckets[i].rows : i \in DOMAIN buckets} : RowAt(p).connectionId = connectionId}
      order == Sorted(own, RowFirst)
  IN [n \in 1..Cardinality(own) |-> RowAt(order[n])]
listRows(connectionId, userId) ==
  IF userId # NoUser THEN Bucket(key(connectionId, userId)) ELSE RowsOf(connectionId)
Page(rows, limit, offset) ==
  SubSeq(rows, offset + 1, IF offset + limit > Len(rows) THEN Len(rows) ELSE offset + limit)

(* The guard's verdict on an approved statement: refused, or the statement it would run. *)
Verdict(sql) == IF sql = "unsafe" THEN "refused" ELSE <<"guarded", sql>>

Shots(k) == IF k \in DOMAIN byConn THEN byConn[k] ELSE <<>>
SameQuestion(q, r) == q.text = r.text

(* MemoryFewShotStore.add: an example of the same question makes way for the new one. *)
WithExample(list, example) ==
  Newest(<<example>> \o RemoveFirstMatch(list, LAMBDA e : SameQuestion(e.question, example.question)), FewShotCap)

recordFeedback(question, sql, connectionId, userId) ==
  /\ Len(rowLog) + Len(approved) < MaxAdds
  /\ Verdict(sql) # "refused"
  /\ LET k == key(connectionId, userId)
         example == [question |-> question, sql |-> Verdict(sql)]
     IN /\ byConn' = [j \in DOMAIN byConn \cup {k} |-> IF j = k THEN WithExample(Shots(k), example) ELSE byConn[j]]
        /\ approved' = Append(approved, [connectionId |-> connectionId, userId |-> userId, example |-> example])
  /\ UNCHANGED <<buckets, clock, rowLog>>

(* retrieve: the examples that share a word with the question, the most shared first. *)
overlap(q, r) == Cardinality(WordsOf[q.text] \cap WordsOf[r.text])
retrieve(connectionId, question, limit, userId) ==
  LET list == Shots(key(connectionId, userId))
      Score(i) == overlap(question, list[i].question)
      hits == {i \in DOMAIN list : Score(i) > 0}
      order == Sorted(hits, LAMBDA i, j : Score(i) > Score(j) \/ (Score(i) = Score(j) /\ i < j))
  IN Page([n \in 1..Cardinality(hits) |-> list[order[n]]], limit, 0)

StoresNext ==
  \E c \in ConnectionIds, u \in Users :
    \/ AddRow(c, u)
    \/ \E q \in Questions, s \in Approvable : recordFeedback(q, s, c, u)
StoresSpec == StoresInit /\ [][StoresNext]_storeVars

-----------------------------------------------------------------------------
(* What a user added to a log on a connection, and how much of a set of its places came later.     *)
Mine(log, c, u) == {i \in DOMAIN log : log[i].connectionId = c /\ log[i].userId = u}
Since(i, S) == Cardinality({j \in S : j > i})

(* A list holds what a log has at a set of places, newest first, the last `cap` of them.           *)
ListsNewest(list, log, S, cap) ==
  /\ Len(list) = Min({cap, Cardinality(S)})
  /\ \A i \in S : Since(i, S) < cap => list[Since(i, S) + 1] = log[i]

(* The history page of a user is the user's own rows, newest first, the last HistoryCap of them    *)
(* whatever others did; without a user it is those rows of every user of the connection, newest    *)
(* first, each once.                                                                               *)
KeptRows(c, u) == {rowLog[i] : i \in {k \in Mine(rowLog, c, u) : Since(k, Mine(rowLog, c, u)) < HistoryCap}}
HistoryKept ==
  \A c \in ConnectionIds :
    /\ \A u \in UserIds : ListsNewest(listRows(c, u), rowLog, Mine(rowLog, c, u), HistoryCap)
    /\ LET rows == listRows(c, NoUser) IN
         /\ {rows[n] : n \in DOMAIN rows} = UNION {KeptRows(c, u) : u \in Users}
         /\ \A i, j \in DOMAIN rows :
              i < j => rows[i].at >= rows[j].at /\ (rows[i].userId = rows[j].userId => rows[i].id > rows[j].id)

(* The examples a question retrieves are the user's own approvals on the connection: of the        *)
(* FewShotCap questions approved last, each in the statement approved last, those that share most  *)
(* words.                                                                                          *)
LastSaid(log, S) == {i \in S : \A j \in S : j > i => log[j].example.question.text # log[i].example.question.text}
Stored(S) == {i \in LastSaid(approved, S) : Since(i, LastSaid(approved, S)) < FewShotCap}
ExamplesKept ==
  \A c \in ConnectionIds, u \in Users, q \in Questions, limit \in 1..FewShotCap :
    LET Shared(i) == overlap(q, approved[i].example.question)
        fit == {i \in Stored(Mine(approved, c, u)) : Shared(i) > 0}
        ahead(i) == {j \in fit : Shared(j) > Shared(i) \/ (Shared(j) = Shared(i) /\ j > i)}
        got == retrieve(c, q, limit, u)
    IN /\ Len(got) = Min({limit, Cardinality(fit)})
       /\ \A i \in fit : Cardinality(ahead(i)) < limit => got[Cardinality(ahead(i)) + 1] = approved[i].example

(* What the stores give back is what they were given, by whom they were given it.                  *)
StoresSound == (rowLog # <<>> => HistoryKept) /\ (approved # <<>> => ExamplesKept)
=============================================================================
