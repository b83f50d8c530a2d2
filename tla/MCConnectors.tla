---------------------------- MODULE MCConnectors ----------------------------
(* The connectors for TLC: Postgres (PostgresExecute), MySQL and Oracle    *)
(* (PooledExecute), DuckDB and MongoDB queries (EmbeddedExecute), and the  *)
(* handles and files of the embedded engines (EmbeddedFiles).  They share  *)
(* nothing but their interface, so a behaviour exercises one of the four.  *)
EXTENDS PostgresExecute, PooledExecute, EmbeddedExecute, EmbeddedFiles, TLC

VARIABLE focus
connectorVars == <<focus, vars, pooledVars, embeddedVars, filesVars>>

IdlePostgres == aborted = [c \in Callers |-> FALSE]
IdlePooled == brand = "mysql"
IdleEmbedded == store = "duckdb" /\ query = [q \in Queries |-> NewQuery]
IdleFiles ==
  /\ build = "node" /\ supplied = FALSE /\ original = "OFF"
  /\ job = [j \in Registrations |-> NewJob]

ConnectorsInit ==
  /\ focus \in {"postgres", "pooled", "embedded", "files"}
  /\ Init /\ PooledInit /\ EmbeddedInit /\ FilesInit
  /\ focus # "postgres" => IdlePostgres
  /\ focus # "pooled" => IdlePooled
  /\ focus # "embedded" => IdleEmbedded
  /\ focus # "files" => IdleFiles

OfPostgres(A) == focus = "postgres" /\ A /\ UNCHANGED <<focus, pooledVars, embeddedVars, filesVars>>
OfPooled(A) == focus = "pooled" /\ A /\ UNCHANGED <<focus, vars, embeddedVars, filesVars>>
OfEmbedded(A) == focus = "embedded" /\ A /\ UNCHANGED <<focus, vars, pooledVars, filesVars>>
OfFiles(A) == focus = "files" /\ A /\ UNCHANGED <<focus, vars, pooledVars, embeddedVars>>

ConnectorsNext ==
  OfPostgres(Next) \/ OfPooled(PooledNext) \/ OfEmbedded(EmbeddedNext) \/ OfFiles(FilesNext)

\* The fairness each connector states: timers fire, and the servers answer
\* everything but a statement.
PostgresFair(c) ==
  /\ WF_connectorVars(OfPostgres(Execute(c))) /\ WF_connectorVars(OfPostgres(CheckoutFails(c)))
  /\ WF_connectorVars(OfPostgres(WarmEnds(c))) /\ WF_connectorVars(OfPostgres(BeginEnds(c)))
  /\ WF_connectorVars(OfPostgres(Deadline(c))) /\ WF_connectorVars(OfPostgres(Rejected(c)))
  /\ WF_connectorVars(OfPostgres(CommitEnds(c))) /\ WF_connectorVars(OfPostgres(RollbackEnds(c)))

ConnectorsSpec ==
  /\ ConnectorsInit /\ [][ConnectorsNext]_connectorVars
  /\ \A c \in Callers : PostgresFair(c)
  /\ \A c \in Calls : WF_connectorVars(OfPooled(Answers(c)))
  /\ \A k \in Links : WF_connectorVars(OfPooled(KillRuns(k)))
  /\ \A q \in Queries : WF_connectorVars(OfEmbedded(Steps(q)))

(* Every connector comes to rest again and again: a call that has begun    *)
(* settles although its statement may run for ever and ignore its          *)
(* interrupt, the queued ones behind it too, with the pool full or ended;  *)
(* and what a cancelled or late MySQL call left on the server is stopped,  *)
(* by a KILL that finds a session because the call gave up its own.  (Each *)
(* call runs once, so this is that every call that begins ends.)           *)
StatementsEnd ==
  []<>CASE focus = "postgres" -> PostgresAtRest
        [] focus = "pooled"   -> PooledAtRest
        [] focus = "embedded" -> EmbeddedAtRest
        [] focus = "files"    -> TRUE
=============================================================================
