-------------------------- MODULE PostgresExecute --------------------------
(***************************************************************************)
(* PostgresConnector.execute and warmTypeNames (packages/postgres/src/     *)
(* index.ts): concurrent statements over one bounded pool of clients, each *)
(* with its abort signal and its client-side deadline, both of which       *)
(* cancel through the same pool.  pg's pool, the server and its backends   *)
(* are external: a client handles one query at a time, and a statement may *)
(* run for ever.                                                           *)
(*                                                                         *)
(* The pool exists (connect() and close() are not modelled); rows and      *)
(* their shaping are left out.                                             *)
(***************************************************************************)
EXTENDS Integers, FiniteSets

CONSTANTS
  Callers,  \* calls of execute, one each
  Conns,    \* connection identities (backend pids); a closed one is not reused
  NoConn,
  Max       \* the pool's `max`

ASSUME PostgresExecuteAssumption ==
  /\ NoConn \notin Conns
  /\ Max \in Nat \ {0}

VARIABLES
  pc,         \* where each call is suspended
  my,         \* `client`
  aborted,    \* opts.signal.aborted
  listening,  \* onAbort is attached and can still fire
  cancelled, timedOut, armed,  \* armed: the deadline's timer is set
  outcome,
  conn,       \* "none", "idle", "busy" or "closed"
  txn,        \* the backend has a transaction open
  running,    \* what the backend runs: "nothing", "warm", "statement", "killed"
  cancels,    \* pg_cancel_backend requests under way: <<caller, connection>>
  struck,     \* the cancels that hit something: <<caller, caller hit>>
  warmer,     \* the callers whose client runs the pg_type query
  typeNames   \* typeNameCache: "null", "full" or "empty"

signalVars == <<aborted, listening, cancelled, timedOut, armed>>
poolVars == <<conn, txn, running>>
vars == <<pc, my, signalVars, outcome, poolVars, cancels, struck, warmer, typeNames>>

Open == {k \in Conns : conn[k] \in {"idle", "busy"}}
SlotFree == (\E k \in Conns : conn[k] = "idle") \/ Cardinality(Open) < Max

Init ==
  /\ pc = [c \in Callers |-> "start"] /\ my = [c \in Callers |-> NoConn]
  /\ aborted \in [Callers -> BOOLEAN]
  /\ listening = [c \in Callers |-> FALSE] /\ cancelled = [c \in Callers |-> FALSE]
  /\ timedOut = [c \in Callers |-> FALSE] /\ armed = [c \in Callers |-> FALSE]
  /\ outcome = [c \in Callers |-> "none"]
  /\ conn = [k \in Conns |-> "none"] /\ txn = [k \in Conns |-> FALSE]
  /\ running = [k \in Conns |-> "nothing"]
  /\ cancels = {} /\ struck = {} /\ warmer = {} /\ typeNames = "null"

-----------------------------------------------------------------------------
(* Up to pool.connect(): a signal already aborted ends the call.           *)
Execute(c) ==
  /\ pc[c] = "start"
  /\ \/ aborted[c] /\ pc' = [pc EXCEPT ![c] = "done"]
                   /\ outcome' = [outcome EXCEPT ![c] = "CANCELLED"]
     \/ ~aborted[c] /\ pc' = [pc EXCEPT ![c] = "checkout"] /\ UNCHANGED outcome
  /\ UNCHANGED <<my, signalVars, poolVars, cancels, struck, warmer, typeNames>>

(* pool.connect() fails, or waited for a slot longer than its timeout.     *)
CheckoutFails(c) ==
  /\ pc[c] = "checkout"
  /\ pc' = [pc EXCEPT ![c] = "done"]
  /\ outcome' = [outcome EXCEPT ![c] = "DB_UNREACHABLE"]
  /\ UNCHANGED <<my, signalVars, poolVars, cancels, struck, warmer, typeNames>>

(* warmTypeNames: the first caller runs the query on its own client, the   *)
(* others that come before its end await the same promise.                 *)
StartWarm(c, k) ==
  \/ /\ typeNames # "null"
     /\ pc' = [pc EXCEPT ![c] = "begin"] /\ UNCHANGED <<running, warmer>>
  \/ /\ typeNames = "null" /\ pc' = [pc EXCEPT ![c] = "warm"]
     /\ \/ warmer = {} /\ warmer' = {c} /\ running' = [running EXCEPT ![k] = "warm"]
        \/ warmer # {} /\ UNCHANGED <<running, warmer>>

(* A client is handed out.  A signal aborted by now never fires its        *)
(* listener.                                                               *)
CheckedOut(c, k) ==
  /\ pc[c] = "checkout"
  /\ conn[k] = "idle" \/ (conn[k] = "none" /\ Cardinality(Open) < Max)
  /\ conn' = [conn EXCEPT ![k] = "busy"] /\ my' = [my EXCEPT ![c] = k]
  /\ listening' = [listening EXCEPT ![c] = ~aborted[c]]
  /\ StartWarm(c, k)
  /\ UNCHANGED <<aborted, cancelled, timedOut, armed, outcome, txn, cancels, struck, typeNames>>

(* The pg_type query ends: a failure leaves an empty map, for good.        *)
WarmEnds(c) ==
  /\ warmer = {c} /\ typeNames = "null"
  /\ typeNames' = IF running[my[c]] = "killed" THEN "empty" ELSE "full"
  /\ running' = [running EXCEPT ![my[c]] = "nothing"]
  /\ pc' = [d \in Callers |-> IF pc[d] = "warm" THEN "begin" ELSE pc[d]]
  /\ UNCHANGED <<my, signalVars, outcome, conn, txn, cancels, struck, warmer>>

-----------------------------------------------------------------------------
(* Mutants: an abort the listener missed is forgotten; a cancelled client  *)
(* goes back to the pool; every client does.                               *)
CancelledByListener(c) == cancelled[c]
DiscardOnTimeout(c) == timedOut[c]
FinallyReleases(c, o) ==
  /\ pc' = [pc EXCEPT ![c] = "done"] /\ outcome' = [outcome EXCEPT ![c] = o]
  /\ listening' = [listening EXCEPT ![c] = FALSE] /\ armed' = [armed EXCEPT ![c] = FALSE]
  /\ my' = [my EXCEPT ![c] = NoConn]
  /\ conn' = [conn EXCEPT ![my[c]] = "idle"]

(* What the code asks after the race, in the catch and in the finally.     *)
WasCancelled(c) == cancelled[c] \/ aborted[c]
Discard(c) == timedOut[c] \/ WasCancelled(c)

(* The finally block, with the value or error of the call.                 *)
Finally(c, o) ==
  /\ pc' = [pc EXCEPT ![c] = "done"] /\ outcome' = [outcome EXCEPT ![c] = o]
  /\ listening' = [listening EXCEPT ![c] = FALSE] /\ armed' = [armed EXCEPT ![c] = FALSE]
  /\ my' = [my EXCEPT ![c] = NoConn]
  /\ conn' = [conn EXCEPT ![my[c]] = IF Discard(c) THEN "closed" ELSE "idle"]

(* The error of the catch block.                                           *)
ErrorOf(c) ==
  IF WasCancelled(c) THEN "CANCELLED" ELSE IF timedOut[c] THEN "DB_TIMEOUT" ELSE "DB_QUERY_ERROR"

(* The catch block: no rollback on a client that is to be destroyed.       *)
Catch(c) ==
  \/ Discard(c) /\ Finally(c, ErrorOf(c))
  \/ /\ ~Discard(c)
     /\ pc' = [pc EXCEPT ![c] = "rollback"]
     /\ UNCHANGED <<outcome, listening, armed, my, conn>>

(* BEGIN READ ONLY and SET LOCAL done: the statement is sent and the       *)
(* deadline armed.                                                         *)
BeginEnds(c) ==
  /\ pc[c] = "begin"
  /\ pc' = [pc EXCEPT ![c] = "statement"]
  /\ txn' = [txn EXCEPT ![my[c]] = TRUE]
  /\ running' = [running EXCEPT ![my[c]] = "statement"]
  /\ armed' = [armed EXCEPT ![c] = TRUE]
  /\ UNCHANGED <<my, aborted, listening, cancelled, timedOut, outcome, conn,
                 cancels, struck, warmer, typeNames>>

(* One of them fails, with the transaction open or not.                    *)
BeginFails(c) ==
  /\ pc[c] = "begin"
  /\ Catch(c)
  /\ \/ UNCHANGED txn
     \/ txn' = [txn EXCEPT ![my[c]] = TRUE]
  /\ UNCHANGED <<aborted, cancelled, timedOut, running, cancels, struck, warmer, typeNames>>

(* The statement's rows arrive: an aborted call throws CANCELLED, any      *)
(* other commits.                                                          *)
StatementEnds(c) ==
  /\ pc[c] = "statement" /\ running[my[c]] = "statement"
  /\ running' = [running EXCEPT ![my[c]] = "nothing"]
  /\ \/ WasCancelled(c) /\ Catch(c)
     \/ /\ ~WasCancelled(c)
        /\ pc' = [pc EXCEPT ![c] = "commit"]
        /\ UNCHANGED <<outcome, listening, armed, my, conn>>
  /\ UNCHANGED <<aborted, cancelled, timedOut, txn, cancels, struck, warmer, typeNames>>

(* The statement fails, statement_timeout and pg_cancel_backend included.  *)
StatementFails(c) ==
  /\ pc[c] = "statement"
  /\ running' = [running EXCEPT ![my[c]] = "nothing"]
  /\ Catch(c)
  /\ UNCHANGED <<aborted, cancelled, timedOut, txn, cancels, struck, warmer, typeNames>>

(* The deadline, also while COMMIT or ROLLBACK is awaited: it cancels the  *)
(* backend, and rejects the race if that is still open.                    *)
Deadline(c) ==
  /\ armed[c]
  /\ armed' = [armed EXCEPT ![c] = FALSE]
  /\ timedOut' = [timedOut EXCEPT ![c] = TRUE]
  /\ cancels' = cancels \cup {<<c, my[c]>>}
  /\ pc' = [pc EXCEPT ![c] = IF @ = "statement" THEN "rejected" ELSE @]
  /\ UNCHANGED <<my, aborted, listening, cancelled, outcome, poolVars, struck, warmer, typeNames>>

(* The code resumes from the rejected race, the statement still running.   *)
Rejected(c) ==
  /\ pc[c] = "rejected"
  /\ Catch(c)
  /\ UNCHANGED <<aborted, cancelled, timedOut, txn, running, cancels, struck, warmer, typeNames>>

CommitEnds(c) ==
  /\ pc[c] = "commit"
  /\ txn' = [txn EXCEPT ![my[c]] = FALSE]
  /\ running' = [running EXCEPT ![my[c]] = "nothing"]
  /\ Finally(c, "rows")
  /\ UNCHANGED <<aborted, cancelled, timedOut, cancels, struck, warmer, typeNames>>

(* ROLLBACK waits its turn behind what the client still runs.              *)
RollbackEnds(c) ==
  /\ pc[c] = "rollback" /\ running[my[c]] # "statement"
  /\ txn' = [txn EXCEPT ![my[c]] = FALSE]
  /\ running' = [running EXCEPT ![my[c]] = "nothing"]
  /\ Finally(c, ErrorOf(c))
  /\ UNCHANGED <<aborted, cancelled, timedOut, cancels, struck, warmer, typeNames>>

-----------------------------------------------------------------------------
(* The signal aborts; onAbort asks for the cancel of its backend.          *)
Abort(c) ==
  /\ pc[c] # "done" /\ ~aborted[c]
  /\ aborted' = [aborted EXCEPT ![c] = TRUE]
  /\ \/ /\ listening[c]
        /\ cancelled' = [cancelled EXCEPT ![c] = TRUE]
        /\ cancels' = cancels \cup {<<c, my[c]>>}
     \/ ~listening[c] /\ UNCHANGED <<cancelled, cancels>>
  /\ UNCHANGED <<pc, my, listening, timedOut, armed, outcome, poolVars,
                 struck, warmer, typeNames>>

(* pool.query found a client: pg_cancel_backend stops whatever the backend *)
(* runs now, for whichever caller holds it.                                *)
CancelRuns(a, k) ==
  /\ <<a, k>> \in cancels /\ SlotFree
  /\ cancels' = cancels \ {<<a, k>>}
  /\ struck' = struck \cup
       {<<a, c>> : c \in {d \in Callers : my[d] = k /\ running[k] # "nothing"}}
  /\ running' = [running EXCEPT ![k] = IF @ = "nothing" THEN "nothing" ELSE "killed"]
  /\ UNCHANGED <<pc, my, signalVars, outcome, conn, txn, warmer, typeNames>>

(* No client within the pool's timeout, or the query failed: ignored.      *)
CancelLost(a, k) ==
  /\ <<a, k>> \in cancels
  /\ cancels' = cancels \ {<<a, k>>}
  /\ UNCHANGED <<pc, my, signalVars, outcome, poolVars, struck, warmer, typeNames>>

(* The server comes to the end of a statement that nobody awaits any more. *)
AbandonedEnds(k) ==
  /\ running[k] # "nothing" /\ \A c \in Callers : my[c] # k \/ pc[c] = "rollback"
  /\ running' = [running EXCEPT ![k] = "nothing"]
  /\ UNCHANGED <<pc, my, signalVars, outcome, conn, txn, cancels, struck, warmer, typeNames>>

(* All calls have settled.                                                 *)
Done == (\A c \in Callers : pc[c] = "done") /\ UNCHANGED vars

Next ==
  \/ \E c \in Callers :
       \/ Execute(c) \/ CheckoutFails(c) \/ WarmEnds(c)
       \/ BeginEnds(c) \/ BeginFails(c) \/ StatementEnds(c) \/ StatementFails(c)
       \/ Deadline(c) \/ Rejected(c) \/ CommitEnds(c) \/ RollbackEnds(c) \/ Abort(c)
       \/ \E k \in Conns : CheckedOut(c, k) \/ CancelRuns(c, k) \/ CancelLost(c, k)
  \/ (\E k \in Conns : AbandonedEnds(k))
  \/ Done

Spec == Init /\ [][Next]_vars

(* The timers fire, the pool's connect timeout included, and the server    *)
(* answers everything but the statement.                                   *)
Fairness ==
  \A c \in Callers :
    /\ WF_vars(Execute(c)) /\ WF_vars(CheckoutFails(c)) /\ WF_vars(WarmEnds(c))
    /\ WF_vars(BeginEnds(c)) /\ WF_vars(Deadline(c)) /\ WF_vars(Rejected(c))
    /\ WF_vars(CommitEnds(c)) /\ WF_vars(RollbackEnds(c))

LiveSpec == Spec /\ Fairness

-----------------------------------------------------------------------------
Flags ==
  /\ aborted \in [Callers -> BOOLEAN] /\ listening \in [Callers -> BOOLEAN]
  /\ cancelled \in [Callers -> BOOLEAN] /\ timedOut \in [Callers -> BOOLEAN]
  /\ armed \in [Callers -> BOOLEAN] /\ txn \in [Conns -> BOOLEAN]

(* The connector's state and the pool's are well typed; a cancel names the *)
(* backend of a client that was held when it was asked for.                *)
TypeOK ==
  /\ Flags
  /\ pc \in [Callers -> {"start", "checkout", "warm", "begin", "statement",
                         "rejected", "commit", "rollback", "done"}]
  /\ my \in [Callers -> Conns \cup {NoConn}]
  /\ outcome \in [Callers -> {"none", "rows", "CANCELLED", "DB_TIMEOUT",
                              "DB_QUERY_ERROR", "DB_UNREACHABLE"}]
  /\ conn \in [Conns -> {"none", "idle", "busy", "closed"}]
  /\ running \in [Conns -> {"nothing", "warm", "statement", "killed"}]
  /\ cancels \subseteq Callers \X Conns /\ struck \subseteq Callers \X Callers
  /\ warmer \subseteq Callers /\ typeNames \in {"null", "full", "empty"}

(* The finally block never gives the pool "a connection whose statement    *)
(* may still be running, mid-transaction".                                 *)
IdleIsClean ==
  \A k \in Conns : conn[k] = "idle" => ~txn[k] /\ running[k] = "nothing"

(* A pg_cancel_backend sent late, from a signal or from a deadline, never  *)
(* hits the statement of another caller that was given the same backend.   *)
CancelHitsOwn == \A s \in struck : s[1] = s[2]

(* A call whose signal aborted before its rows arrived throws, also when   *)
(* the abort came while it waited for a client and no listener saw it.     *)
AbortedGetsNoRows ==
  [][\A c \in Callers :
       aborted[c] /\ pc[c] \notin {"commit", "done"} => pc'[c] # "commit" /\ outcome'[c] # "rows"]_vars

\* No call of execute is under way.
PostgresAtRest == \A c \in Callers : pc[c] = "done"

(* "Warm the OID->typename cache once so column typing is accurate."       *)
TypingAccurate == \A c \in Callers : outcome[c] = "rows" => typeNames = "full"

-----------------------------------------------------------------------------
(* The strengthening the proofs induct on.                                 *)

Holding == {"warm", "begin", "statement", "rejected", "commit", "rollback"}

(* A client is held by one caller, from its checkout to its finally block, *)
(* and only a holder has a listener or a timer.                            *)
OwnInv ==
  \A c \in Callers :
    /\ my[c] # NoConn <=> pc[c] \in Holding
    /\ my[c] # NoConn => conn[my[c]] = "busy"
    /\ listening[c] \/ armed[c] => my[c] # NoConn
    /\ \A d \in Callers : my[c] = my[d] /\ my[c] # NoConn => c = d

(* What is not handed out runs nothing.                                    *)
CleanInv ==
  \A k \in Conns : conn[k] \in {"none", "idle"} => ~txn[k] /\ running[k] = "nothing"

(* A cancel outlives its caller's hold on the backend only if the client   *)
(* is destroyed.                                                           *)
CancelInv ==
  \A a \in Callers, k \in Conns :
    <<a, k>> \in cancels => conn[k] = "closed" \/ (my[a] = k /\ Discard(a))

(* A call has no outcome before its finally block.                         *)
OpenInv == \A c \in Callers : pc[c] # "done" => outcome[c] = "none"

PoolInv == TypeOK /\ OwnInv /\ CleanInv /\ CancelInv /\ CancelHitsOwn
=============================================================================
