--------------------------- MODULE PooledExecute ---------------------------
(***************************************************************************)
(* The MySQL and the Oracle connector (packages/mysql/src/index.ts,        *)
(* packages/oracle/src/index.ts): connect(), close() and concurrent calls  *)
(* of execute() over a pool of connections.  MySQL stops a statement with  *)
(* KILL QUERY sent over the same pool, and has a deadline of its own;      *)
(* Oracle breaks the connection's call and leaves the deadline to the      *)
(* driver.  The drivers, their pools and the servers are external: a       *)
(* statement may run for ever, and ending a pool ends what it handed out.  *)
(* SQL text, rows and their shaping are left out.                          *)
(***************************************************************************)
EXTENDS Naturals, FiniteSets

CONSTANTS
  Calls,     \* calls of execute, one each
  MaxLinks,  \* bound: the server sessions opened in a behaviour
  Limit,     \* connectionLimit, poolMax
  MaxPools   \* bound: the pools made in a behaviour

ASSUME PooledAssumption == MaxLinks \in Nat /\ Limit \in Nat \ {0} /\ MaxPools \in Nat

Links == 1..MaxLinks   \* server sessions, numbered as they are opened
NoLink == 0

Host == "host"   \* who calls connect() and close()

VARIABLES
  brand,    \* "mysql" or "oracle"
  pool,     \* this.pool: 0 is null, n the n-th pool made
  made,     \* pools made
  ended,    \* the pools that were ended
  opener,   \* where each connect() is suspended
  closing,  \* the pool a close() is ending, 0 when there is none
  call,     \* the state of each execute()
  link,     \* the state of each server session
  kills     \* the sessions a KILL QUERY is under way to

linkVars == <<pool, made, ended, opener, closing>>
pooledVars == <<brand, linkVars, call, link, kills>>

Mysql == brand = "mysql"
NewCall == [pc |-> "start", link |-> NoLink, pool |-> 0, aborted |-> FALSE, listening |-> FALSE,
            cancelled |-> FALSE, timedOut |-> FALSE, out |-> "none"]
NewLink == [at |-> "none", pool |-> 0, txn |-> FALSE, runs |-> "nothing", known |-> FALSE]

PooledInit ==
  /\ brand \in {"mysql", "oracle"}
  /\ pool = 0 /\ made = 0 /\ ended = {} /\ closing = 0
  /\ opener = [p \in Calls \cup {Host} |-> "off"]
  /\ call = [c \in Calls |-> NewCall] /\ link = [k \in Links |-> NewLink]
  /\ kills = {}

Unclosed(n) == {k \in Links : link[k].pool = n /\ link[k].at \in {"idle", "busy"}}
Planned == made + Cardinality({p \in DOMAIN opener : opener[p] = "driver"})
\* A session of pool n that can be handed out now.
Spare(n, k) ==
  /\ n \notin ended
  /\ \/ link[k].at = "idle" /\ link[k].pool = n
     \/ /\ link[k].at = "none" /\ Cardinality(Unclosed(n)) < Limit
        /\ \A j \in 1..(k - 1) : link[j].at # "none"

-----------------------------------------------------------------------------
(* connect() of p.  The pool is published before it has been tried.        *)
StartConnect(p) == opener' = [opener EXCEPT ![p] = "driver"]

ConnectHost ==
  /\ opener[Host] = "off" /\ pool = 0 /\ Planned < MaxPools /\ StartConnect(Host)
  /\ UNCHANGED <<brand, pool, made, ended, closing, call, link, kills>>

(* The driver is imported and createPool called; either may fail.          *)
CreatePool(p) ==
  /\ opener[p] = "driver"
  /\ \/ /\ made' = made + 1 /\ pool' = made'
        /\ opener' = [opener EXCEPT ![p] = "verify"]
     \/ opener' = [opener EXCEPT ![p] = "failed"] /\ UNCHANGED <<made, pool>>
  /\ UNCHANGED <<brand, ended, closing, call, link, kills>>

(* The first connection is obtained and given back, or the pool is ended   *)
(* again: `this.pool`, whichever that is by then.                          *)
VerifyPool(p) ==
  /\ opener[p] = "verify"
  /\ \/ opener' = [opener EXCEPT ![p] = "off"] /\ UNCHANGED <<pool, ended>>
     \/ /\ opener' = [opener EXCEPT ![p] = "failed"]
        /\ ended' = ended \cup ({pool} \ {0}) /\ pool' = 0
  /\ UNCHANGED <<brand, made, closing, call, link, kills>>

HostSeesFailure ==
  /\ opener[Host] = "failed" /\ opener' = [opener EXCEPT ![Host] = "off"]
  /\ UNCHANGED <<brand, pool, made, ended, closing, call, link, kills>>

CloseStarts ==
  /\ closing = 0 /\ pool # 0
  /\ closing' = pool /\ ended' = ended \cup {pool}
  /\ UNCHANGED <<brand, pool, made, opener, call, link, kills>>

CloseEnds ==
  /\ closing # 0 /\ closing' = 0 /\ pool' = 0
  /\ UNCHANGED <<brand, made, ended, opener, call, link, kills>>

-----------------------------------------------------------------------------
Settle(c, o) == [call EXCEPT ![c].pc = "done", ![c].out = o, ![c].link = NoLink,
                             ![c].listening = FALSE]

(* MySQL asks the signal first and needs a pool; Oracle makes one.         *)
ExecuteStarts(c) ==
  /\ call[c].pc = "start"
  /\ \/ Mysql /\ call[c].aborted /\ call' = Settle(c, "CANCELLED") /\ UNCHANGED opener
     \/ Mysql /\ ~call[c].aborted /\ pool = 0 /\ call' = Settle(c, "DB_UNREACHABLE")
        /\ UNCHANGED opener
     \/ /\ pool # 0 /\ (Mysql => ~call[c].aborted)
        /\ call' = [call EXCEPT ![c].pc = IF Mysql THEN "checkout" ELSE "driver", ![c].pool = pool]
        /\ UNCHANGED opener
     \/ ~Mysql /\ pool = 0 /\ Planned < MaxPools
        /\ call' = [call EXCEPT ![c].pc = "ensure"] /\ StartConnect(c)
  /\ UNCHANGED <<brand, pool, made, ended, closing, link, kills>>

(* ensure() of Oracle: connect() returned, or threw; the pool may be gone  *)
(* again.                                                                  *)
EnsureEnds(c) ==
  /\ call[c].pc = "ensure" /\ opener[c] \in {"off", "failed"}
  /\ opener' = [opener EXCEPT ![c] = "off"]
  /\ call' = IF opener[c] = "failed" \/ pool = 0 THEN Settle(c, "DB_UNREACHABLE")
             ELSE [call EXCEPT ![c].pc = "driver", ![c].pool = pool]
  /\ UNCHANGED <<brand, pool, made, ended, closing, link, kills>>

(* Oracle asks the signal once the driver module is there.                 *)
DriverThere(c) ==
  /\ call[c].pc = "driver"
  /\ call' = IF call[c].aborted THEN Settle(c, "CANCELLED")
             ELSE [call EXCEPT ![c].pc = "checkout"]
  /\ UNCHANGED <<brand, linkVars, link, kills>>

(* pool.getConnection.                                                     *)
LinkGiven(c, k) ==
  /\ call[c].pc = "checkout" /\ Spare(call[c].pool, k)
  /\ link' = [link EXCEPT ![k].at = "busy", ![k].pool = call[c].pool, ![k].known = FALSE]
  /\ call' = [call EXCEPT ![c].pc = IF Mysql THEN "begin" ELSE "schema", ![c].link = k]
  /\ UNCHANGED <<brand, linkVars, kills>>

LinkRefused(c) ==
  /\ call[c].pc = "checkout" /\ call' = Settle(c, "DB_UNREACHABLE")
  /\ UNCHANGED <<brand, linkVars, link, kills>>

(* acquire() of Oracle sets CURRENT_SCHEMA, or gives the connection back.  *)
(* The listener is then attached; an abort before now is not seen by it.   *)
SchemaSet(c) ==
  /\ call[c].pc = "schema"
  /\ \/ /\ call' = [call EXCEPT ![c].pc = "begin", ![c].listening = ~call[c].aborted]
        /\ UNCHANGED link
     \/ /\ call' = Settle(c, "DB_QUERY_ERROR")
        /\ link' = [link EXCEPT ![call[c].link].at = "idle"]
  /\ UNCHANGED <<brand, linkVars, kills>>

-----------------------------------------------------------------------------
AbortSeen(c) == call[c].cancelled \/ call[c].aborted
Discarding(c) == Mysql /\ (call[c].timedOut \/ AbortSeen(c))

(* Mutant: every connection goes back to the pool.                         *)
ReleaseAlways(c) == [link EXCEPT ![call[c].link].at = "idle"]

(* The finally block: MySQL destroys a connection whose statement may      *)
(* still run; Oracle's close() returns it and rolls back what is open.     *)
GiveBack(c) ==
  LET k == call[c].link IN
  IF Mysql THEN [link EXCEPT ![k].at = IF Discarding(c) THEN "destroyed" ELSE "idle"]
  ELSE [link EXCEPT ![k].at = "idle", ![k].txn = FALSE]

FailureOf(c) ==
  IF AbortSeen(c) THEN "CANCELLED"
  ELSE IF call[c].timedOut THEN "DB_TIMEOUT" ELSE "DB_QUERY_ERROR"

(* The catch block: a ROLLBACK, but not behind a statement that may never  *)
(* end.                                                                    *)
OnError(c) ==
  \/ Discarding(c) /\ link' = GiveBack(c) /\ call' = Settle(c, FailureOf(c))
  \/ ~Discarding(c) /\ call' = [call EXCEPT ![c].pc = "rollback"] /\ UNCHANGED link

(* START TRANSACTION READ ONLY, SET TRANSACTION READ ONLY.  Oracle sends   *)
(* the statement next.                                                     *)
ReadOnlyBegun(c) ==
  LET k == call[c].link IN
  /\ call[c].pc = "begin"
  /\ link' = [link EXCEPT ![k].txn = TRUE, ![k].runs = IF Mysql THEN "nothing" ELSE "statement"]
  /\ call' = [call EXCEPT ![c].pc = IF Mysql THEN "id" ELSE "statement"]
  /\ UNCHANGED <<brand, linkVars, kills>>

ReadOnlyFails(c) ==
  /\ call[c].pc = "begin" /\ OnError(c) /\ UNCHANGED <<brand, linkVars, kills>>

(* CONNECTION_ID() is read, or that fails and the call cannot be stopped.  *)
(* The listener is attached, the signal asked again, the statement sent    *)
(* and the deadline armed, all before anything is awaited.                 *)
SendStatement(c, known) ==
  LET k == call[c].link   late == known /\ call[c].aborted IN
  /\ call' = [call EXCEPT ![c].pc = "statement", ![c].listening = known /\ ~late,
                          ![c].cancelled = late]
  /\ link' = [link EXCEPT ![k].runs = "statement", ![k].known = known]
  /\ kills' = IF late THEN kills \cup {k} ELSE kills

ReadConnectionId(c) ==
  /\ Mysql /\ call[c].pc = "id" /\ \E known \in BOOLEAN : SendStatement(c, known)
  /\ UNCHANGED <<brand, linkVars>>

(* The statement answers, one that was stopped too (SLEEP yields 1 when    *)
(* interrupted).  MySQL throws CANCELLED on an aborted signal; Oracle      *)
(* looks at it only when the statement fails.                              *)
RowsArrive(c) ==
  LET k == call[c].link IN
  /\ call[c].pc = "statement" /\ link[k].runs # "nothing"
  /\ link[k].runs = "killed" => Mysql
  /\ \/ /\ Mysql /\ AbortSeen(c) /\ call' = Settle(c, "CANCELLED")
        /\ link' = [GiveBack(c) EXCEPT ![k].runs = "nothing"]
     \/ /\ ~(Mysql /\ AbortSeen(c))
        /\ call' = [call EXCEPT ![c].pc = "commit"]
        /\ link' = [link EXCEPT ![k].runs = "nothing"]
  /\ UNCHANGED <<brand, linkVars, kills>>

(* It fails: an error, the server's own time limit, Oracle's callTimeout,  *)
(* a pool ended under it, or because it was stopped.                       *)
StatementErrors(c) ==
  LET k == call[c].link IN
  /\ call[c].pc = "statement"
  /\ \/ /\ Discarding(c) /\ call' = Settle(c, FailureOf(c))
        /\ link' = [GiveBack(c) EXCEPT ![k].runs = "nothing"]
     \/ /\ ~Discarding(c) /\ call' = [call EXCEPT ![c].pc = "rollback"]
        /\ link' = [link EXCEPT ![k].runs = "nothing"]
  /\ UNCHANGED <<brand, linkVars, kills>>

(* Mutant: the deadline rejects and leaves the statement to the server.    *)
DeadlineRejects(c) == kills

(* Whom the deadline asks the server to stop.                              *)
DeadlineKills(c) == IF link[call[c].link].known THEN kills \cup {call[c].link} ELSE kills

(* MySQL's deadline; it also fires while COMMIT or ROLLBACK is awaited.    *)
(* On an open race the catch and the finally block follow at once.         *)
TimerFires(c) ==
  LET late == [call EXCEPT ![c].timedOut = TRUE]
      k    == call[c].link IN
  /\ Mysql /\ call[c].pc \in {"statement", "commit", "rollback"} /\ ~call[c].timedOut
  /\ kills' = DeadlineKills(c)
  /\ IF call[c].pc = "statement"
     THEN /\ call' = [late EXCEPT ![c].pc = "done", ![c].link = NoLink, ![c].listening = FALSE,
                                  ![c].out = IF AbortSeen(c) THEN "CANCELLED" ELSE "DB_TIMEOUT"]
          /\ link' = [link EXCEPT ![k].at = "destroyed"]
     ELSE call' = late /\ UNCHANGED link
  /\ UNCHANGED <<brand, linkVars>>

(* COMMIT, whose failure is ignored; the rows are returned, to a caller    *)
(* that aborted meanwhile too.                                             *)
CommitSent(c) ==
  LET k == call[c].link IN
  /\ call[c].pc = "commit" /\ call' = Settle(c, "rows")
  /\ link' = [GiveBack(c) EXCEPT ![k].txn = FALSE]
  /\ UNCHANGED <<brand, linkVars, kills>>

RolledBack(c) ==
  LET k == call[c].link IN
  /\ call[c].pc = "rollback" /\ call' = Settle(c, FailureOf(c))
  /\ link' = [GiveBack(c) EXCEPT ![k].txn = FALSE]
  /\ UNCHANGED <<brand, linkVars, kills>>

-----------------------------------------------------------------------------
(* The signal aborts: MySQL's listener asks for a KILL, Oracle's breaks    *)
(* the call in progress.                                                   *)
SignalAborts(c) ==
  LET k == call[c].link   heard == call[c].listening IN
  /\ call[c].pc # "done" /\ ~call[c].aborted
  /\ call' = [call EXCEPT ![c].aborted = TRUE, ![c].cancelled = heard \/ @]
  /\ kills' = IF heard /\ Mysql THEN kills \cup {k} ELSE kills
  /\ link' = IF heard /\ ~Mysql /\ link[k].runs = "statement"
             THEN [link EXCEPT ![k].runs = "killed"] ELSE link
  /\ UNCHANGED <<brand, linkVars>>

(* pool.query found a session for the KILL: it stops what k runs now.      *)
KillRuns(k) ==
  /\ k \in kills /\ \E j \in Links : Spare(link[k].pool, j)
  /\ kills' = kills \ {k}
  /\ link' = [link EXCEPT ![k].runs = IF @ = "nothing" THEN "nothing"
                                      ELSE IF link[k].at = "destroyed" THEN "nothing" ELSE "killed"]
  /\ UNCHANGED <<brand, linkVars, call>>

(* The pool is ended, or the query fails: ignored.                         *)
KillLost(k) ==
  /\ k \in kills /\ link[k].pool \in ended /\ kills' = kills \ {k}
  /\ UNCHANGED <<brand, linkVars, call, link>>

(* The server comes to the end of a statement nobody awaits.               *)
Abandoned(k) ==
  /\ link[k].at = "destroyed" /\ link[k].runs # "nothing"
  /\ link' = [link EXCEPT ![k].runs = "nothing"]
  /\ UNCHANGED <<brand, linkVars, call, kills>>

Settled == (\A c \in Calls : call[c].pc = "done") /\ UNCHANGED pooledVars

PooledNext ==
  \/ ConnectHost \/ HostSeesFailure \/ CloseStarts \/ CloseEnds
  \/ \E p \in Calls \cup {Host} : CreatePool(p) \/ VerifyPool(p)
  \/ \E c \in Calls :
       \/ ExecuteStarts(c) \/ EnsureEnds(c) \/ DriverThere(c) \/ LinkRefused(c) \/ SchemaSet(c)
       \/ ReadOnlyBegun(c) \/ ReadOnlyFails(c) \/ ReadConnectionId(c) \/ RowsArrive(c)
       \/ StatementErrors(c) \/ TimerFires(c) \/ CommitSent(c) \/ RolledBack(c) \/ SignalAborts(c)
       \/ \E k \in Links : LinkGiven(c, k)
  \/ \E k \in Links : KillRuns(k) \/ KillLost(k) \/ Abandoned(k)
  \/ Settled

(* The drivers answer everything but a statement; timers fire; Oracle's    *)
(* driver ends a statement at its callTimeout, MySQL's does not.           *)
Answers(c) ==
  \/ EnsureEnds(c) \/ DriverThere(c) \/ SchemaSet(c) \/ ReadOnlyBegun(c) \/ ReadConnectionId(c)
  \/ TimerFires(c) \/ CommitSent(c) \/ RolledBack(c) \/ CreatePool(c) \/ VerifyPool(c)
  \/ (~Mysql /\ StatementErrors(c)) \/ (\E k \in Links : LinkGiven(c, k))
  \/ (call[c].pool \in ended /\ LinkRefused(c))

-----------------------------------------------------------------------------
(* "A connection whose statement may still be running must not serve the   *)
(* next query": an idle session runs nothing, has no transaction open and  *)
(* no KILL under way that the next call on it would receive.               *)
IdleIsQuiet ==
  \A k \in Links : link[k].at = "idle" => ~link[k].txn /\ link[k].runs = "nothing" /\ k \notin kills

\* No call is under way, and MySQL runs nothing for a call that gave up,
\* unless the pool that could carry a KILL is ended.
PooledAtRest ==
  /\ \A c \in Calls : call[c].pc \in {"start", "done"}
  /\ \A k \in Links :
       Mysql /\ link[k].at = "destroyed" /\ link[k].known
         => link[k].runs = "nothing" \/ link[k].pool \in ended

PooledSpec == PooledInit /\ [][PooledNext]_pooledVars

-----------------------------------------------------------------------------
(* The strengthening the proof of IdleIsQuiet inducts on.                  *)
PooledCall ==
  [pc : {"start", "ensure", "driver", "checkout", "schema", "begin", "id", "statement", "commit",
         "rollback", "done"},
   link : Links \cup {NoLink}, pool : Nat, aborted : BOOLEAN, listening : BOOLEAN,
   cancelled : BOOLEAN, timedOut : BOOLEAN,
   out : {"none", "rows", "CANCELLED", "DB_TIMEOUT", "DB_QUERY_ERROR", "DB_UNREACHABLE"}]

PooledLink ==
  [at : {"none", "idle", "busy", "destroyed"}, pool : Nat, txn : BOOLEAN,
   runs : {"nothing", "statement", "killed"}, known : BOOLEAN]

PooledTypeOK ==
  /\ brand \in {"mysql", "oracle"} /\ pool \in Nat /\ made \in Nat /\ kills \subseteq Links
  /\ call \in [Calls -> PooledCall] /\ link \in [Links -> PooledLink]

LinkHeld == {"schema", "begin", "id", "statement", "commit", "rollback"}

(* A session is held by one call, from getConnection to the finally block, *)
(* and only a holder has a listener.                                       *)
HoldInv ==
  \A c \in Calls :
    /\ call[c].link # NoLink <=> call[c].pc \in LinkHeld
    /\ call[c].link # NoLink => link[call[c].link].at = "busy"
    /\ call[c].listening => call[c].link # NoLink
    /\ call[c].cancelled => call[c].aborted
    /\ \A d \in Calls : call[c].link = call[d].link /\ call[c].link # NoLink => c = d

(* What a holder has not sent yet, or has seen the end of, does not run.   *)
RunInv ==
  \A c \in Calls :
    /\ call[c].pc \in LinkHeld \ {"statement"} => link[call[c].link].runs = "nothing"
    /\ call[c].pc = "schema" => ~Mysql /\ ~link[call[c].link].txn

(* A KILL outlives its caller's hold only on a session that is destroyed.  *)
KillInv ==
  \A k \in kills :
    link[k].at = "destroyed" \/ \E c \in Calls : call[c].link = k /\ Discarding(c)

QuietInv ==
  \A k \in Links : link[k].at \in {"none", "idle"} => ~link[k].txn /\ link[k].runs = "nothing"

PooledInv == PooledTypeOK /\ HoldInv /\ RunInv /\ KillInv /\ QuietInv
=============================================================================
