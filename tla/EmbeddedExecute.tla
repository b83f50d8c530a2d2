-------------------------- MODULE EmbeddedExecute --------------------------
(***************************************************************************)
(* Concurrent queries over one shared handle: DuckDbConnector.execute with *)
(* its queue (packages/duckdb/src/index.ts), DuckDbWasmConnector.execute   *)
(* without one (browser.ts), and MongoConnector.aggregate, each query with *)
(* a cursor of its own (packages/mongodb/src/index.ts).  The two DuckDB    *)
(* builds share withQueryTimeout.  External: a DuckDB connection runs one  *)
(* statement at a time, those of the queue in the order they were sent,    *)
(* and an interrupt stops whichever it runs; a Mongo cursor that was       *)
(* closed throws at its next use, or has no more documents.                *)
(***************************************************************************)
EXTENDS Naturals, Sequences, FiniteSets

CONSTANTS
  Queries,   \* calls of execute or aggregate, one each
  DocCap     \* maxRows of an aggregate

VARIABLES
  store,    \* "duckdb", "wasm" or "mongo"
  opened,   \* this.conn, this.client is set
  queue,    \* this.queue: the DuckDB queries in the order of their calls
  query,    \* the state of each query
  hits      \* the interrupts that stopped a statement: <<by, whose>>

embeddedVars == <<store, opened, queue, query, hits>>

NewQuery == [pc |-> "start", aborted |-> FALSE, listening |-> FALSE, timer |-> FALSE,
             out |-> "none", stmt |-> "none", docs |-> 0, truncated |-> FALSE]

EmbeddedInit ==
  /\ store \in {"duckdb", "wasm", "mongo"} /\ opened = TRUE /\ queue = <<>>
  /\ query \in [Queries -> {NewQuery, [NewQuery EXCEPT !.aborted = TRUE]}] /\ hits = {}

Ends(q, o) == [query EXCEPT ![q].pc = "done", ![q].out = o, ![q].listening = FALSE]
Running == {q \in Queries : query[q].stmt = "running"}

CloseStore == opened /\ opened' = FALSE /\ UNCHANGED <<store, queue, query, hits>>

-----------------------------------------------------------------------------
(* Mutant: the query starts at once.                                       *)
StartsAtOnce(q) ==
  /\ query' = [query EXCEPT ![q].pc = "prepare"] /\ UNCHANGED queue

(* "One query at a time": the query is chained behind the ones called      *)
(* before it, however they end.                                            *)
Enqueue(q) ==
  /\ query' = [query EXCEPT ![q].pc = "queued"] /\ queue' = Append(queue, q)

(* The DuckDB builds ask the signal first; the browser one has no queue    *)
(* and sends the statement with the listener attached.                     *)
ExecuteDuck(q) ==
  /\ store # "mongo" /\ query[q].pc = "start"
  /\ \/ query[q].aborted /\ query' = Ends(q, "CANCELLED") /\ UNCHANGED queue
     \/ ~query[q].aborted /\ store = "duckdb" /\ Enqueue(q)
     \/ /\ ~query[q].aborted /\ store = "wasm" /\ UNCHANGED queue
        /\ query' = IF opened THEN [query EXCEPT ![q].pc = "run", ![q].stmt = "sent", ![q].listening = TRUE,
                                                ![q].timer = TRUE]
                    ELSE Ends(q, "WASM_LOAD")
  /\ UNCHANGED <<store, opened, hits>>

Earlier(q) == {queue[j] : j \in {i \in 1..Len(queue) : \E k \in (i + 1)..Len(queue) : queue[k] = q}}

(* runQuery, once the query before has settled.                            *)
RunQuery(q) ==
  /\ query[q].pc = "queued"
  /\ \A d \in Earlier(q) : query[d].pc = "done"
  /\ query' = IF query[q].aborted THEN Ends(q, "CANCELLED")
              ELSE IF ~opened THEN Ends(q, "DB_UNREACHABLE")
              ELSE [query EXCEPT ![q].pc = "prepare"]
  /\ UNCHANGED <<store, opened, queue, hits>>

(* conn.prepare ends and the statement is sent; a signal that aborted      *)
(* meanwhile never fires the listener attached now.                        *)
Prepared(q) ==
  /\ query[q].pc = "prepare"
  /\ \/ query' = [query EXCEPT ![q].pc = "run", ![q].stmt = "sent", ![q].timer = TRUE,
                               ![q].listening = ~query[q].aborted]
     \/ query' = Ends(q, "DB_QUERY_ERROR")
  /\ UNCHANGED <<store, opened, queue, hits>>

(* The connection takes a statement up when it runs no other.              *)
StatementStarts(q) ==
  /\ query[q].stmt = "sent" /\ \A d \in Queries : query[d].stmt \notin {"running", "interrupted"}
  /\ \A d \in Earlier(q) : query[d].stmt # "sent"
  /\ query' = [query EXCEPT ![q].stmt = "running"]
  /\ UNCHANGED <<store, opened, queue, hits>>

(* It ends; an interrupted one fails, for whoever still awaits it.  Only   *)
(* now are the timer cleared and the listener removed.                     *)
StatementOver(q) ==
  /\ query[q].stmt \in {"running", "interrupted"}
  /\ LET over == [query EXCEPT ![q].stmt = "over", ![q].listening = FALSE, ![q].timer = FALSE] IN
     IF query[q].pc # "run" THEN query' = over
     ELSE \E o \in {"rows", "DB_QUERY_ERROR"} :
            /\ query[q].stmt = "interrupted" => o # "rows"
            /\ query' = [over EXCEPT ![q].pc = "done", ![q].out = o]
  /\ UNCHANGED <<store, opened, queue, hits>>

(* interrupt(), cancelSent(): whatever the connection runs.  The rejection *)
(* of a promise that has settled is ignored.                               *)
Interrupt(q, after, o) ==
  /\ query' = [d \in Queries |->
        LET self == IF d # q THEN query[d]
                    ELSE IF query[q].pc = "done" THEN after ELSE [after EXCEPT !.pc = "done", !.out = o] IN
        IF query[d].stmt = "running" THEN [self EXCEPT !.stmt = "interrupted"] ELSE self]
  /\ hits' = hits \cup {<<q, d>> : d \in {e \in Running : query[e].pc # "done"}}

(* withQueryTimeout: the timer and the signal interrupt, then reject.      *)
QueryTimeout(q) ==
  /\ query[q].timer /\ Interrupt(q, [query[q] EXCEPT !.timer = FALSE], "DB_TIMEOUT")
  /\ UNCHANGED <<store, opened, queue>>

AbortQuery(q) ==
  /\ query[q].pc # "done" \/ query[q].listening
  /\ ~query[q].aborted
  /\ IF query[q].listening /\ store # "mongo"
     THEN Interrupt(q, [query[q] EXCEPT !.aborted = TRUE, !.listening = FALSE], "CANCELLED")
     ELSE /\ query' = [query EXCEPT ![q].aborted = TRUE,
                                    ![q].stmt = IF query[q].listening THEN "closed" ELSE @]
          /\ UNCHANGED hits
  /\ UNCHANGED <<store, opened, queue>>

-----------------------------------------------------------------------------
(* aggregate(): db() connects when there is no client, and may fail.       *)
ExecuteMongo(q) ==
  /\ store = "mongo" /\ query[q].pc = "start"
  /\ \/ ~opened /\ query' = Ends(q, "DB_UNREACHABLE") /\ UNCHANGED opened
     \/ /\ opened' = TRUE
        /\ query' = [query EXCEPT ![q].pc = "db"]
  /\ UNCHANGED <<store, queue, hits>>

(* The signal is asked once, before the driver is awaited.                 *)
HasDb(q) ==
  /\ query[q].pc = "db"
  /\ query' = IF query[q].aborted THEN Ends(q, "CANCELLED") ELSE [query EXCEPT ![q].pc = "driver"]
  /\ UNCHANGED <<store, opened, queue, hits>>

(* The cursor is made and the listener, which closes it, attached.         *)
OpenCursor(q) ==
  /\ query[q].pc = "driver"
  /\ query' = [query EXCEPT ![q].pc = "fetch", ![q].stmt = "cursor", ![q].listening = ~query[q].aborted]
  /\ UNCHANGED <<store, opened, queue, hits>>

(* hasNext() and next(): one more document, below the cap.                 *)
FetchDoc(q) ==
  /\ query[q].pc = "fetch" /\ query[q].stmt = "cursor" /\ query[q].docs < DocCap
  /\ query' = [query EXCEPT ![q].docs = @ + 1]
  /\ UNCHANGED <<store, opened, queue, hits>>

(* No more documents, also from a closed cursor, or the cap is reached:    *)
(* a full result counts as truncated.                                      *)
FetchEnds(q) ==
  /\ query[q].pc = "fetch"
  /\ query' = [Ends(q, "rows") EXCEPT ![q].stmt = "closed", ![q].truncated = query[q].docs >= DocCap]
  /\ UNCHANGED <<store, opened, queue, hits>>

(* hasNext() throws: maxTimeMS, an error, or the cursor was closed.        *)
FetchFails(q) ==
  /\ query[q].pc = "fetch"
  /\ \/ query[q].aborted /\ query' = [Ends(q, "CANCELLED") EXCEPT ![q].stmt = "closed"]
     \/ ~query[q].aborted /\ \E o \in {"DB_TIMEOUT", "DB_QUERY_ERROR"} :
          query' = [Ends(q, o) EXCEPT ![q].stmt = "closed"]
  /\ UNCHANGED <<store, opened, queue, hits>>

Steps(q) ==
  \/ ExecuteDuck(q) \/ RunQuery(q) \/ Prepared(q) \/ StatementStarts(q) \/ QueryTimeout(q)
  \/ ExecuteMongo(q) \/ HasDb(q) \/ OpenCursor(q) \/ FetchFails(q)

EmbeddedNext ==
  \/ CloseStore
  \/ \E q \in Queries :
       Steps(q) \/ StatementOver(q) \/ AbortQuery(q) \/ FetchDoc(q) \/ FetchEnds(q)

-----------------------------------------------------------------------------
(* "The connection is shared, so a queued query's interrupt would kill the *)
(* running one": an interrupt of DuckDbConnector stops the statement of    *)
(* the query whose signal aborted or whose time is up, and of no other     *)
(* query that is still awaited.                                            *)
InterruptHitsOwn == store = "duckdb" => \A s \in hits : s[1] = s[2]

\* No query is under way, queued ones included.
EmbeddedAtRest == \A q \in Queries : query[q].pc = "done"

EmbeddedSpec == EmbeddedInit /\ [][EmbeddedNext]_embeddedVars

-----------------------------------------------------------------------------
(* The strengthening the proof of InterruptHitsOwn inducts on.             *)
DuckQuery ==
  [pc : {"start", "queued", "prepare", "run", "done"},
   aborted : BOOLEAN, listening : BOOLEAN, timer : BOOLEAN,
   out : {"none", "rows", "CANCELLED", "DB_UNREACHABLE", "DB_QUERY_ERROR", "DB_TIMEOUT"},
   stmt : {"none", "sent", "running", "interrupted", "over"},
   docs : {0}, truncated : {FALSE}]

DuckTypeOK == query \in [Queries -> DuckQuery] /\ queue \in Seq(Queries)

InQueue(q) == \E i \in 1..Len(queue) : queue[i] = q
Sent(q) == query[q].stmt # "none"
Taken(q) == query[q].stmt \in {"running", "interrupted"}

(* Who has a listener or a timer has a statement under way, and who has a  *)
(* statement was queued for it.                                            *)
ArmedInv ==
  \A q \in Queries :
    /\ query[q].timer \/ query[q].listening => Taken(q) \/ query[q].stmt = "sent"
    /\ query[q].pc \in {"start", "queued", "prepare"} => ~Sent(q)
    /\ query[q].pc \in {"queued", "prepare"} \/ Sent(q) => InQueue(q)

(* A query sends nothing before the earlier ones have settled; a settled   *)
(* one may still have its statement under way, and the connection takes    *)
(* statements in the order they were sent, one at a time.                  *)
OrderInv ==
  \A q \in Queries :
    /\ query[q].pc = "prepare" \/ Sent(q) => \A d \in Earlier(q) : query[d].pc = "done"
    /\ Taken(q) => /\ \A d \in Earlier(q) : query[d].stmt # "sent"
                   /\ \A d \in Queries : Taken(d) => d = q

DuckSafe == DuckTypeOK /\ ArmedInv /\ OrderInv /\ InterruptHitsOwn
DuckInv == store = "duckdb" => DuckSafe
=============================================================================
