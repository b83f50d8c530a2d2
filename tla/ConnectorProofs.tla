-------------------------- MODULE ConnectorProofs --------------------------
(***************************************************************************)
(* Proofs about the connectors, for any callers, sessions and pool sizes.  *)
(* PostgreSQL: what goes back to the pool is clean, a late                 *)
(* pg_cancel_backend never hits another caller's statement, and an aborted *)
(* call is given no rows.  MySQL and Oracle: an idle session is quiet.     *)
(* DuckDB: an interrupt stops the statement it was meant for.  SQLite: the *)
(* host's database handle is given back as it came, or read-only.          *)
(***************************************************************************)
EXTENDS PostgresExecute, PooledExecute, EmbeddedExecute, EmbeddedFiles, TLAPS

(* The pool before the first call.                                         *)
LEMMA PoolInitial == Init => PoolInv
  <1> SUFFICES ASSUME Init PROVE PoolInv
    OBVIOUS
  <1> USE PostgresExecuteAssumption DEF PostgresExecuteAssumption, Init
  <1>1. TypeOK
    <2>1. Flags
      BY Zenon DEF Flags
    <2> QED BY <2>1 DEF TypeOK
  <1>2. OwnInv /\ CleanInv
    BY DEF OwnInv, CleanInv, Holding
  <1>3. CancelInv /\ CancelHitsOwn
    BY DEF CancelInv, CancelHitsOwn
  <1> QED BY <1>1, <1>2, <1>3 DEF PoolInv

(* A finally block leaves the flags Boolean.                               *)
LEMMA FinallyFlags ==
  ASSUME Flags, NEW c \in Callers, NEW o, Finally(c, o)
  PROVE  listening' \in [Callers -> BOOLEAN] /\ armed' \in [Callers -> BOOLEAN]
  BY Zenon DEF Flags, Finally

(* So does a catch block.                                                  *)
LEMMA CatchFlags ==
  ASSUME Flags, NEW c \in Callers, Catch(c)
  PROVE  listening' \in [Callers -> BOOLEAN] /\ armed' \in [Callers -> BOOLEAN]
  <1>1. CASE Finally(c, ErrorOf(c))
    BY <1>1, FinallyFlags
  <1>2. CASE UNCHANGED <<listening, armed>>
    BY <1>2, Zenon DEF Flags
  <1> QED BY <1>1, <1>2 DEF Catch

(* Every step of the connector keeps its flags Boolean.                    *)
LEMMA FlagsPreserved == Flags /\ [Next]_vars => Flags'
  <1> SUFFICES ASSUME Flags, [Next]_vars PROVE Flags'
    OBVIOUS
  <1>1. ASSUME NEW c \in Callers,
               Execute(c) \/ CheckoutFails(c) \/ WarmEnds(c)
               \/ \E k \in Conns : CancelRuns(c, k) \/ CancelLost(c, k)
        PROVE  Flags'
    BY <1>1, Zenon DEF Flags, Execute, CheckoutFails, WarmEnds, CancelRuns, CancelLost,
                       signalVars, poolVars
  <1>2. ASSUME NEW c \in Callers, NEW k \in Conns, CheckedOut(c, k) PROVE Flags'
    <2>1. (~aborted[c]) \in BOOLEAN
      BY Zenon
    <2>2. listening' \in [Callers -> BOOLEAN]
      BY <1>2, <2>1, Zenon DEF Flags, CheckedOut
    <2> QED BY <1>2, <2>2, Zenon DEF Flags, CheckedOut
  <1>3. ASSUME NEW c \in Callers, BeginEnds(c) PROVE Flags'
    BY <1>3, Zenon DEF Flags, BeginEnds
  <1>4. ASSUME NEW c \in Callers, BeginFails(c) PROVE Flags'
    <2>1. listening' \in [Callers -> BOOLEAN] /\ armed' \in [Callers -> BOOLEAN]
      BY <1>4, CatchFlags DEF BeginFails
    <2> QED BY <1>4, <2>1, Zenon DEF Flags, BeginFails
  <1>5. ASSUME NEW c \in Callers, StatementEnds(c) PROVE Flags'
    <2>1. listening' \in [Callers -> BOOLEAN] /\ armed' \in [Callers -> BOOLEAN]
      <3>1. CASE Catch(c)
        BY <3>1, CatchFlags
      <3>2. CASE UNCHANGED <<listening, armed>>
        BY <3>2, Zenon DEF Flags
      <3> QED BY <1>5, <3>1, <3>2 DEF StatementEnds
    <2> QED BY <1>5, <2>1, Zenon DEF Flags, StatementEnds
  <1>6. ASSUME NEW c \in Callers, StatementFails(c) \/ Rejected(c) PROVE Flags'
    <2>1. listening' \in [Callers -> BOOLEAN] /\ armed' \in [Callers -> BOOLEAN]
      BY <1>6, CatchFlags DEF StatementFails, Rejected
    <2> QED BY <1>6, <2>1, Zenon DEF Flags, StatementFails, Rejected
  <1>7. ASSUME NEW c \in Callers, Deadline(c) PROVE Flags'
    BY <1>7, Zenon DEF Flags, Deadline, poolVars
  <1>8. ASSUME NEW c \in Callers, CommitEnds(c) \/ RollbackEnds(c) PROVE Flags'
    <2>1. listening' \in [Callers -> BOOLEAN] /\ armed' \in [Callers -> BOOLEAN]
      BY <1>8, FinallyFlags DEF CommitEnds, RollbackEnds
    <2> QED BY <1>8, <2>1, Zenon DEF Flags, CommitEnds, RollbackEnds
  <1>9. ASSUME NEW c \in Callers, Abort(c) PROVE Flags'
    BY <1>9, Zenon DEF Flags, Abort, poolVars
  <1>10. ASSUME NEW k \in Conns, AbandonedEnds(k) PROVE Flags'
    BY <1>10, Zenon DEF Flags, AbandonedEnds, signalVars
  <1>11. CASE UNCHANGED vars
    BY <1>11, Zenon DEF Flags, vars, signalVars, poolVars
  <1> QED
    BY <1>1, <1>2, <1>3, <1>4, <1>5, <1>6, <1>7, <1>8, <1>9, <1>10, <1>11 DEF Next, Done

(* Every step of the connector keeps the rest of its state typed.          *)
LEMMA TypePreserved == PoolInv /\ [Next]_vars => TypeOK'
  <1> SUFFICES ASSUME PoolInv, [Next]_vars PROVE TypeOK'
    OBVIOUS
  <1>1. Flags'
    BY FlagsPreserved DEF PoolInv, TypeOK
  <1> USE <1>1, PostgresExecuteAssumption
      DEF PostgresExecuteAssumption, PoolInv, TypeOK, signalVars, poolVars
  <1>2. \A c \in Callers : ErrorOf(c) \in {"CANCELLED", "DB_TIMEOUT", "DB_QUERY_ERROR"}
    BY DEF ErrorOf
  <1>3. ASSUME NEW c \in Callers, Execute(c) \/ CheckoutFails(c) \/ WarmEnds(c) PROVE TypeOK'
    BY <1>3 DEF Execute, CheckoutFails, WarmEnds
  <1>4. ASSUME NEW c \in Callers, NEW k \in Conns, CheckedOut(c, k) PROVE TypeOK'
    BY <1>4 DEF CheckedOut, StartWarm
  <1>5. ASSUME NEW c \in Callers, BeginEnds(c) PROVE TypeOK'
    BY <1>5 DEF BeginEnds
  <1>6. ASSUME NEW c \in Callers, BeginFails(c) \/ Rejected(c) PROVE TypeOK'
    BY <1>2, <1>6 DEF BeginFails, Rejected, Catch, Finally
  <1>7. ASSUME NEW c \in Callers, StatementEnds(c) \/ StatementFails(c) PROVE TypeOK'
    BY <1>2, <1>7 DEF StatementEnds, StatementFails, Catch, Finally
  <1>8. ASSUME NEW c \in Callers, Deadline(c) PROVE TypeOK'
    <2>1. my[c] \in Conns
      BY <1>8 DEF Deadline, OwnInv
    <2> QED BY <1>8, <2>1 DEF Deadline
  <1>9. ASSUME NEW c \in Callers, CommitEnds(c) \/ RollbackEnds(c) PROVE TypeOK'
    BY <1>2, <1>9 DEF CommitEnds, RollbackEnds, Finally
  <1>10. ASSUME NEW c \in Callers, Abort(c) PROVE TypeOK'
    <2>1. CASE listening[c]
      <3>1. my[c] \in Conns
        BY <2>1 DEF OwnInv
      <3> QED BY <1>10, <2>1, <3>1 DEF Abort
    <2>2. CASE ~listening[c]
      BY <1>10, <2>2 DEF Abort
    <2> QED BY <2>1, <2>2
  <1>11. ASSUME NEW c \in Callers, NEW k \in Conns, CancelRuns(c, k) \/ CancelLost(c, k)
         PROVE  TypeOK'
    BY <1>11 DEF CancelRuns, CancelLost
  <1>12. ASSUME NEW k \in Conns, AbandonedEnds(k) PROVE TypeOK'
    BY <1>12 DEF AbandonedEnds
  <1>13. CASE UNCHANGED vars
    BY <1>13 DEF vars
  <1> QED
    BY <1>3, <1>4, <1>5, <1>6, <1>7, <1>8, <1>9, <1>10, <1>11, <1>12, <1>13 DEF Next, Done

(* The invariant of the pool but for its types.                            *)
Rest == OwnInv /\ CleanInv /\ CancelInv /\ CancelHitsOwn

(* A caller that leaves with its client releases it alone, and clean or    *)
(* closed.                                                                 *)
LEMMA FinallyKeeps ==
  ASSUME PoolInv, TypeOK', NEW c \in Callers, NEW o, pc[c] \in Holding, Finally(c, o),
         UNCHANGED <<aborted, cancelled, timedOut, cancels, struck>>,
         \A k \in Conns : k # my[c] => txn'[k] = txn[k] /\ running'[k] = running[k],
         Discard(c) \/ (~txn'[my[c]] /\ running'[my[c]] = "nothing")
  PROVE  Rest'
  <1> USE PostgresExecuteAssumption DEF PostgresExecuteAssumption, PoolInv, TypeOK, Flags
  <1>1. my[c] \in Conns /\ conn[my[c]] = "busy"
    BY DEF OwnInv
  <1>2. /\ my' = [my EXCEPT ![c] = NoConn] /\ pc' = [pc EXCEPT ![c] = "done"]
        /\ listening' = [listening EXCEPT ![c] = FALSE] /\ armed' = [armed EXCEPT ![c] = FALSE]
        /\ Discard(c) => conn' = [conn EXCEPT ![my[c]] = "closed"]
        /\ ~Discard(c) => conn' = [conn EXCEPT ![my[c]] = "idle"]
    BY DEF Finally
  <1>3. OwnInv'
    BY <1>1, <1>2 DEF OwnInv, Holding
  <1>4. CleanInv'
    BY <1>1, <1>2 DEF CleanInv
  <1>5. CancelInv'
    <2> SUFFICES ASSUME NEW a \in Callers, NEW k \in Conns, <<a, k>> \in cancels
                 PROVE  conn'[k] = "closed" \/ (my'[a] = k /\ Discard(a)')
      BY DEF CancelInv
    <2>1. conn[k] = "closed" \/ (my[a] = k /\ Discard(a))
      BY DEF CancelInv
    <2>2. Discard(a)' = Discard(a)
      BY DEF Discard, WasCancelled
    <2> QED BY <1>1, <1>2, <2>1, <2>2
  <1>6. CancelHitsOwn'
    BY DEF CancelHitsOwn
  <1> QED BY <1>3, <1>4, <1>5, <1>6 DEF Rest

(* The catch block of a caller that holds a client.                        *)
LEMMA CatchKeeps ==
  ASSUME PoolInv, TypeOK', NEW c \in Callers, pc[c] \in Holding, Catch(c),
         UNCHANGED <<aborted, cancelled, timedOut, cancels, struck>>,
         \A k \in Conns : k # my[c] => txn'[k] = txn[k] /\ running'[k] = running[k]
  PROVE  Rest'
  <1>1. CASE Discard(c) /\ Finally(c, ErrorOf(c))
    BY <1>1, FinallyKeeps
  <1>2. CASE /\ pc' = [pc EXCEPT ![c] = "rollback"]
             /\ UNCHANGED <<outcome, listening, armed, my, conn>>
    <2> USE PostgresExecuteAssumption DEF PostgresExecuteAssumption, PoolInv, TypeOK, Flags
    <2>1. OwnInv'
      BY <1>2 DEF OwnInv, Holding
    <2>2. CleanInv'
      BY <1>2 DEF CleanInv, OwnInv
    <2>3. CancelInv' /\ CancelHitsOwn'
      BY <1>2 DEF CancelInv, CancelHitsOwn, Discard, WasCancelled
    <2> QED BY <2>1, <2>2, <2>3 DEF Rest
  <1> QED BY <1>1, <1>2 DEF Catch

(* Every step keeps clients owned once, what is idle clean, and cancels    *)
(* away from other callers.                                                *)
LEMMA RestPreserved == PoolInv /\ [Next]_vars => Rest'
  <1> SUFFICES ASSUME PoolInv, [Next]_vars PROVE Rest'
    OBVIOUS
  <1>0. TypeOK'
    BY TypePreserved
  <1> USE <1>0, PostgresExecuteAssumption
      DEF PostgresExecuteAssumption, PoolInv, TypeOK, Flags, Rest, signalVars, poolVars
  <1>1. ASSUME NEW c \in Callers, Execute(c) \/ CheckoutFails(c) PROVE Rest'
    BY <1>1 DEF Execute, CheckoutFails, OwnInv, CleanInv, CancelInv, CancelHitsOwn,
                Holding, Discard, WasCancelled
  <1>2. ASSUME NEW c \in Callers, NEW k \in Conns, CheckedOut(c, k) PROVE Rest'
    <2>1. /\ conn[k] \in {"idle", "none"} /\ my[c] = NoConn
          /\ conn' = [conn EXCEPT ![k] = "busy"] /\ my' = [my EXCEPT ![c] = k]
          /\ \A d \in Callers : d # c => pc'[d] = pc[d] /\ my[d] # k
          /\ pc'[c] \in {"warm", "begin"}
      BY <1>2 DEF CheckedOut, StartWarm, OwnInv, Holding
    <2>2. OwnInv'
      BY <1>2, <2>1 DEF CheckedOut, OwnInv, Holding
    <2>3. CleanInv'
      BY <1>2, <2>1 DEF CheckedOut, StartWarm, CleanInv
    <2>4. CancelInv' /\ CancelHitsOwn'
      BY <1>2, <2>1 DEF CheckedOut, CancelInv, CancelHitsOwn, Discard, WasCancelled
    <2> QED BY <2>2, <2>3, <2>4
  <1>3. ASSUME NEW c \in Callers, WarmEnds(c) PROVE Rest'
    BY <1>3 DEF WarmEnds, OwnInv, CleanInv, CancelInv, CancelHitsOwn, Holding,
                Discard, WasCancelled
  <1>4. ASSUME NEW c \in Callers, BeginEnds(c) PROVE Rest'
    <2>1. my[c] \in Conns /\ conn[my[c]] = "busy"
      BY <1>4 DEF BeginEnds, OwnInv, Holding
    <2>2. OwnInv'
      BY <1>4, <2>1 DEF BeginEnds, OwnInv, Holding
    <2>3. CleanInv' /\ CancelInv' /\ CancelHitsOwn'
      BY <1>4, <2>1 DEF BeginEnds, CleanInv, CancelInv, CancelHitsOwn, Discard, WasCancelled
    <2> QED BY <2>2, <2>3
  <1>5. ASSUME NEW c \in Callers, BeginFails(c) \/ StatementFails(c) \/ Rejected(c) PROVE Rest'
    <2>1. /\ pc[c] \in Holding /\ Catch(c)
          /\ UNCHANGED <<aborted, cancelled, timedOut, cancels, struck>>
          /\ \A k \in Conns : k # my[c] => txn'[k] = txn[k] /\ running'[k] = running[k]
      BY <1>5 DEF BeginFails, StatementFails, Rejected, Holding
    <2> QED BY <2>1, CatchKeeps
  <1>6. ASSUME NEW c \in Callers, StatementEnds(c) PROVE Rest'
    <2>1. /\ pc[c] \in Holding
          /\ UNCHANGED <<aborted, cancelled, timedOut, cancels, struck>>
          /\ \A k \in Conns : k # my[c] => txn'[k] = txn[k] /\ running'[k] = running[k]
      BY <1>6 DEF StatementEnds, Holding
    <2>2. CASE Catch(c)
      BY <2>1, <2>2, CatchKeeps
    <2>3. CASE /\ pc' = [pc EXCEPT ![c] = "commit"]
               /\ UNCHANGED <<outcome, listening, armed, my, conn>>
      <3>1. OwnInv'
        BY <2>1, <2>3 DEF OwnInv, Holding
      <3>2. CleanInv'
        BY <2>1, <2>3 DEF CleanInv, OwnInv
      <3>3. CancelInv' /\ CancelHitsOwn'
        BY <2>1, <2>3 DEF CancelInv, CancelHitsOwn, Discard, WasCancelled
      <3> QED BY <3>1, <3>2, <3>3
    <2> QED BY <1>6, <2>2, <2>3 DEF StatementEnds
  <1>7. ASSUME NEW c \in Callers, Deadline(c) PROVE Rest'
    <2>1. my[c] \in Conns
      BY <1>7 DEF Deadline, OwnInv
    <2>2. OwnInv' /\ CleanInv' /\ CancelHitsOwn'
      BY <1>7 DEF Deadline, OwnInv, CleanInv, CancelHitsOwn, Holding
    <2>3. CancelInv'
      <3> SUFFICES ASSUME NEW a \in Callers, NEW k \in Conns, <<a, k>> \in cancels'
                   PROVE  conn'[k] = "closed" \/ (my'[a] = k /\ Discard(a)')
        BY DEF CancelInv
      <3>1. CASE <<a, k>> \in cancels
        BY <1>7, <3>1 DEF Deadline, CancelInv, Discard, WasCancelled
      <3>2. CASE a = c /\ k = my[c]
        BY <1>7, <3>2 DEF Deadline, Discard
      <3> QED BY <1>7, <3>1, <3>2 DEF Deadline
    <2> QED BY <2>2, <2>3
  <1>8. ASSUME NEW c \in Callers, CommitEnds(c) PROVE Rest'
    <2>1. /\ pc[c] \in Holding /\ my[c] \in Conns /\ Finally(c, "rows")
          /\ UNCHANGED <<aborted, cancelled, timedOut, cancels, struck>>
      BY <1>8 DEF CommitEnds, Holding, OwnInv
    <2>2. /\ \A k \in Conns : k # my[c] => txn'[k] = txn[k] /\ running'[k] = running[k]
          /\ ~txn'[my[c]] /\ running'[my[c]] = "nothing"
      BY <1>8, <2>1 DEF CommitEnds
    <2> QED BY <2>1, <2>2, FinallyKeeps
  <1>9. ASSUME NEW c \in Callers, RollbackEnds(c) PROVE Rest'
    <2>1. /\ pc[c] \in Holding /\ my[c] \in Conns /\ Finally(c, ErrorOf(c))
          /\ UNCHANGED <<aborted, cancelled, timedOut, cancels, struck>>
      BY <1>9 DEF RollbackEnds, Holding, OwnInv
    <2>2. /\ \A k \in Conns : k # my[c] => txn'[k] = txn[k] /\ running'[k] = running[k]
          /\ ~txn'[my[c]] /\ running'[my[c]] = "nothing"
      BY <1>9, <2>1 DEF RollbackEnds
    <2> QED BY <2>1, <2>2, FinallyKeeps
  <1>10. ASSUME NEW c \in Callers, Abort(c) PROVE Rest'
    <2>1. OwnInv' /\ CleanInv' /\ CancelHitsOwn'
      BY <1>10 DEF Abort, OwnInv, CleanInv, CancelHitsOwn
    <2>2. CancelInv'
      <3> SUFFICES ASSUME NEW a \in Callers, NEW k \in Conns, <<a, k>> \in cancels'
                   PROVE  conn'[k] = "closed" \/ (my'[a] = k /\ Discard(a)')
        BY DEF CancelInv
      <3>1. CASE <<a, k>> \in cancels
        BY <1>10, <3>1 DEF Abort, CancelInv, Discard, WasCancelled
      <3>2. CASE a = c /\ k = my[c]
        BY <1>10, <3>2 DEF Abort, Discard, WasCancelled
      <3> QED BY <1>10, <3>1, <3>2 DEF Abort
    <2> QED BY <2>1, <2>2
  <1>11. ASSUME NEW a \in Callers, NEW k \in Conns, CancelRuns(a, k) PROVE Rest'
    <2>1. OwnInv' /\ CancelInv'
      BY <1>11 DEF CancelRuns, OwnInv, CancelInv, Discard, WasCancelled
    <2>2. CleanInv'
      BY <1>11 DEF CancelRuns, CleanInv
    <2>3. CancelHitsOwn'
      <3>1. \A c \in Callers : my[c] = k => c = a
        BY <1>11 DEF CancelRuns, CancelInv, OwnInv
      <3> QED BY <1>11, <3>1 DEF CancelRuns, CancelHitsOwn
    <2> QED BY <2>1, <2>2, <2>3
  <1>12. ASSUME NEW a \in Callers, NEW k \in Conns, CancelLost(a, k) PROVE Rest'
    BY <1>12 DEF CancelLost, OwnInv, CleanInv, CancelInv, CancelHitsOwn, Discard, WasCancelled
  <1>13. ASSUME NEW k \in Conns, AbandonedEnds(k) PROVE Rest'
    BY <1>13 DEF AbandonedEnds, OwnInv, CleanInv, CancelInv, CancelHitsOwn, Discard, WasCancelled
  <1>14. CASE UNCHANGED vars
    BY <1>14 DEF vars, OwnInv, CleanInv, CancelInv, CancelHitsOwn, Discard, WasCancelled
  <1> QED
    BY <1>1, <1>2, <1>3, <1>4, <1>5, <1>6, <1>7, <1>8, <1>9, <1>10, <1>11, <1>12, <1>13, <1>14
    DEF Next, Done

(* PoolInv is an invariant of concurrent execute() calls.                  *)
THEOREM PoolInvCorrect == Spec => []PoolInv
  <1>1. PoolInv /\ [Next]_vars => PoolInv'
    BY TypePreserved, RestPreserved DEF PoolInv, Rest
  <1> QED BY PoolInitial, <1>1, PTL DEF Spec

(* What execute() gives back to the pool has no transaction open and runs  *)
(* nothing, for any number of callers and connections.                     *)
THEOREM IdleCorrect == Spec => []IdleIsClean
  <1>1. PoolInv => IdleIsClean
    BY DEF PoolInv, CleanInv, IdleIsClean
  <1> QED BY PoolInvCorrect, <1>1, PTL

(* No pg_cancel_backend of one execute() hits the statement of another.    *)
THEOREM CancelCorrect == Spec => []CancelHitsOwn
  <1> QED BY PoolInvCorrect, PTL DEF PoolInv

(* What a step may do to where a call is suspended and to its outcome.     *)
Fate(c) ==
  \/ outcome'[c] = outcome[c] /\ (pc'[c] = "done" <=> pc[c] = "done")
     /\ (pc'[c] = "commit" => pc[c] = "commit" \/ ~aborted[c])
  \/ pc'[c] = "done" /\ (outcome'[c] = "rows" => pc[c] = "commit")

(* The finally block settles its own call alone, and with rows only after  *)
(* its COMMIT.                                                             *)
LEMMA FinallyFate ==
  ASSUME TypeOK, NEW c \in Callers, NEW o, Finally(c, o), o = "rows" => pc[c] = "commit"
  PROVE  \A d \in Callers : Fate(d)
  BY DEF Fate, Finally, TypeOK

(* The catch block settles it with an error, or goes on to the ROLLBACK.   *)
LEMMA CatchFate ==
  ASSUME TypeOK, NEW c \in Callers, pc[c] # "done", Catch(c) PROVE \A d \in Callers : Fate(d)
  <1>1. CASE Finally(c, ErrorOf(c))
    BY <1>1, FinallyFate DEF ErrorOf
  <1>2. CASE pc' = [pc EXCEPT ![c] = "rollback"] /\ UNCHANGED outcome
    BY <1>2 DEF Fate, TypeOK
  <1> QED BY <1>1, <1>2 DEF Catch

(* Every step of the connector decides each call's fate like that.         *)
LEMMA StepFate ==
  ASSUME TypeOK, [Next]_vars PROVE \A d \in Callers : Fate(d)
  <1> DEFINE G == \A d \in Callers : Fate(d)
  <1>1. ASSUME NEW c \in Callers, Execute(c) \/ CheckoutFails(c) \/ WarmEnds(c) PROVE G
    BY <1>1 DEF Execute, CheckoutFails, WarmEnds, Fate, TypeOK
  <1>2. ASSUME NEW c \in Callers, NEW k \in Conns, CheckedOut(c, k) PROVE G
    BY <1>2 DEF CheckedOut, StartWarm, Fate, TypeOK
  <1>3. ASSUME NEW c \in Callers, BeginEnds(c) \/ Deadline(c) PROVE G
    BY <1>3 DEF BeginEnds, Deadline, Fate, TypeOK
  <1>4. ASSUME NEW c \in Callers, BeginFails(c) \/ Rejected(c) \/ StatementFails(c) PROVE G
    BY <1>4, CatchFate DEF BeginFails, Rejected, StatementFails
  <1>5. ASSUME NEW c \in Callers, StatementEnds(c) PROVE G
    <2>1. CASE Catch(c)
      BY <1>5, <2>1, CatchFate DEF StatementEnds
    <2>2. CASE /\ ~WasCancelled(c) /\ pc' = [pc EXCEPT ![c] = "commit"] /\ UNCHANGED outcome
               /\ pc[c] = "statement"
      BY <2>2 DEF Fate, TypeOK, WasCancelled
    <2> QED BY <1>5, <2>1, <2>2 DEF StatementEnds
  <1>6. ASSUME NEW c \in Callers, CommitEnds(c) \/ RollbackEnds(c) PROVE G
    BY <1>6, FinallyFate DEF CommitEnds, RollbackEnds, ErrorOf
  <1>7. ASSUME UNCHANGED <<pc, outcome>> PROVE G
    BY <1>7 DEF Fate
  <1>8. ASSUME NEW c \in Callers, Abort(c) PROVE G
    BY <1>7, <1>8 DEF Abort
  <1>9. ASSUME NEW k \in Conns,
               AbandonedEnds(k) \/ \E c \in Callers : CancelRuns(c, k) \/ CancelLost(c, k) PROVE G
    BY <1>7, <1>9 DEF CancelRuns, CancelLost, AbandonedEnds
  <1>10. ASSUME UNCHANGED vars PROVE G
    BY <1>7, <1>10 DEF vars
  <1> HIDE DEF G
  <1>11. G
    BY <1>1, <1>2, <1>3, <1>4, <1>5, <1>6, <1>8, <1>9, <1>10 DEF Next, Done
  <1> QED BY <1>11 DEF G

(* A call of PostgresConnector.execute whose signal aborted before its     *)
(* rows arrived neither commits nor returns rows, for any callers and any  *)
(* pool.                                                                   *)
THEOREM AbortedCorrect == Spec => AbortedGetsNoRows
  <1>1. Init => OpenInv
    BY DEF Init, OpenInv
  <1>2. PoolInv /\ OpenInv /\ [Next]_vars => OpenInv'
    <2> SUFFICES ASSUME PoolInv, OpenInv, [Next]_vars PROVE OpenInv'
      OBVIOUS
    <2>1. \A d \in Callers : Fate(d)
      BY StepFate DEF PoolInv
    <2> QED BY <2>1 DEF OpenInv, Fate
  <1>3. PoolInv /\ OpenInv /\ [Next]_vars =>
          [\A c \in Callers :
             aborted[c] /\ pc[c] \notin {"commit", "done"} => pc'[c] # "commit" /\ outcome'[c] # "rows"]_vars
    <2> SUFFICES ASSUME PoolInv, OpenInv, [Next]_vars, NEW c \in Callers, aborted[c],
                        pc[c] \notin {"commit", "done"}
                 PROVE  pc'[c] # "commit" /\ outcome'[c] # "rows"
      OBVIOUS
    <2>1. Fate(c)
      BY StepFate DEF PoolInv
    <2> QED BY <2>1 DEF OpenInv, Fate
  <1> QED BY <1>1, <1>2, <1>3, PoolInvCorrect, PTL DEF Spec, AbortedGetsNoRows

-----------------------------------------------------------------------------
(* MySQL and Oracle.                                                       *)

(* The pools before the first call.                                        *)
LEMMA PooledInitial == PooledInit => PooledInv
  <1> SUFFICES ASSUME PooledInit PROVE PooledInv
    OBVIOUS
  <1>1. NewCall \in PooledCall /\ NewLink \in PooledLink
    BY DEF NewCall, PooledCall, NewLink, PooledLink
  <1>2. /\ call = [c \in Calls |-> NewCall] /\ link = [k \in Links |-> NewLink]
        /\ kills = {} /\ pool = 0 /\ made = 0 /\ brand \in {"mysql", "oracle"}
    BY DEF PooledInit
  <1>3. call \in [Calls -> PooledCall] /\ link \in [Links -> PooledLink]
    BY <1>1, <1>2, Zenon
  <1>4. PooledTypeOK
    BY <1>2, <1>3 DEF PooledTypeOK
  <1>5. HoldInv /\ RunInv
    BY <1>2 DEF HoldInv, RunInv, NewCall, LinkHeld
  <1>6. KillInv /\ QuietInv
    BY <1>2 DEF KillInv, QuietInv, NewLink
  <1> QED BY <1>4, <1>5, <1>6 DEF PooledInv

(* Giving one call, or one session, another record keeps the types.        *)
LEMMA CallTyped ==
  ASSUME PooledTypeOK, NEW c \in Calls, NEW r \in PooledCall, call' = [call EXCEPT ![c] = r]
  PROVE  /\ call' \in [Calls -> PooledCall] /\ call'[c] = r
         /\ \A d \in Calls : d # c => call'[d] = call[d]
  BY Zenon DEF PooledTypeOK

(* The same for a session.                                                 *)
LEMMA LinkTyped ==
  ASSUME PooledTypeOK, NEW k \in Links, NEW l \in PooledLink, link' = [link EXCEPT ![k] = l]
  PROVE  /\ link' \in [Links -> PooledLink] /\ link'[k] = l
         /\ \A j \in Links : j # k => link'[j] = link[j]
  BY Zenon DEF PooledTypeOK

(* No call but c changes.                                                  *)
OneCall(c) ==
  /\ brand' = brand /\ call' \in [Calls -> PooledCall] /\ \A d \in Calls : d # c => call'[d] = call[d]

(* A call that holds nothing before and after.                             *)
Aside(c) ==
  /\ OneCall(c) /\ UNCHANGED <<link, kills>> /\ call[c].link = NoLink /\ call'[c].link = NoLink
  /\ call'[c].pc \notin LinkHeld /\ call'[c].listening = FALSE
  /\ call'[c].cancelled => call'[c].aborted

(* The session of c, and no other, changes, and KILLs of it may be asked.  *)
OneLink(k) ==
  /\ link' \in [Links -> PooledLink] /\ \A j \in Links : j # k => link'[j] = link[j]
  /\ kills' \in {kills, kills \cup {k}}

(* A holder that goes on with its session.                                 *)
GoesOn(c, k) ==
  /\ OneCall(c) /\ OneLink(k) /\ call[c].link = k /\ k # NoLink
  /\ call'[c].link = k /\ call'[c].pc \in LinkHeld /\ link'[k].at = "busy"
  /\ call'[c].cancelled => call'[c].aborted
  /\ kills' # kills \/ Discarding(c) => Discarding(c)'
  /\ call'[c].pc # "statement" => link'[k].runs = "nothing"
  /\ call'[c].pc = "schema" => ~Mysql' /\ ~link'[k].txn

(* A holder that gives its session back, or destroys it.                   *)
GivesUp(c, k) ==
  /\ OneCall(c) /\ OneLink(k) /\ call[c].link = k /\ k # NoLink
  /\ call'[c].link = NoLink /\ call'[c].pc = "done" /\ call'[c].listening = FALSE
  /\ call'[c].cancelled => call'[c].aborted
  /\ \/ link'[k].at = "destroyed"
     \/ /\ link'[k].at = "idle" /\ ~link'[k].txn /\ link'[k].runs = "nothing"
        /\ UNCHANGED kills /\ ~Discarding(c)

(* What the other calls hold is not touched.                               *)
LEMMA OthersHold ==
  ASSUME PooledInv, NEW c \in Calls, OneCall(c), NEW a \in Calls, a # c,
         \A j \in Links : j # call[c].link => link'[j] = link[j],
         call'[c].link \in {NoLink, call[c].link}
  PROVE  /\ call'[a].link # NoLink <=> call'[a].pc \in LinkHeld
         /\ call'[a].link # NoLink => link'[call'[a].link].at = "busy"
         /\ call'[a].listening => call'[a].link # NoLink
         /\ call'[a].cancelled => call'[a].aborted
         /\ \A d \in Calls : call'[a].link = call'[d].link /\ call'[a].link # NoLink => a = d
         /\ call'[a].pc \in LinkHeld \ {"statement"} => link'[call'[a].link].runs = "nothing"
         /\ call'[a].pc = "schema" => ~Mysql' /\ ~link'[call'[a].link].txn
  <1> USE DEF PooledInv, OneCall
  <1>1. call'[a] = call[a] /\ call[a].link \in Links \cup {NoLink}
    BY DEF PooledTypeOK, PooledCall
  <1>2. /\ call[a].link # NoLink <=> call[a].pc \in LinkHeld
        /\ call[a].link # NoLink => link[call[a].link].at = "busy"
        /\ call[a].listening => call[a].link # NoLink
        /\ call[a].cancelled => call[a].aborted
        /\ \A d \in Calls : call[a].link = call[d].link /\ call[a].link # NoLink => a = d
    BY DEF HoldInv
  <1>3. call[a].link # NoLink => link'[call[a].link] = link[call[a].link]
    BY <1>1, <1>2
  <1>4. \A d \in Calls : call[a].link = call'[d].link /\ call[a].link # NoLink => a = d
    BY <1>2
  <1>5. /\ call[a].pc \in LinkHeld \ {"statement"} => link[call[a].link].runs = "nothing"
        /\ call[a].pc = "schema" => ~Mysql /\ ~link[call[a].link].txn
    BY DEF RunInv
  <1>6. /\ call'[a].pc \in LinkHeld \ {"statement"} => link'[call'[a].link].runs = "nothing"
        /\ call'[a].pc = "schema" => ~Mysql' /\ ~link'[call'[a].link].txn
    BY <1>1, <1>2, <1>3, <1>5 DEF Mysql, LinkHeld
  <1> QED BY <1>1, <1>2, <1>3, <1>4, <1>6, Zenon

(* A step without a session keeps who holds what, and what is quiet.       *)
LEMMA AsideKeeps ==
  ASSUME PooledInv, NEW c \in Calls, Aside(c)
  PROVE  HoldInv' /\ RunInv' /\ KillInv' /\ QuietInv'
  <1> USE DEF PooledInv, Aside, OneCall
  <1>1. \A a \in Calls : a # c =>
          /\ call'[a].link # NoLink <=> call'[a].pc \in LinkHeld
          /\ call'[a].link # NoLink => link'[call'[a].link].at = "busy"
          /\ call'[a].listening => call'[a].link # NoLink
          /\ call'[a].cancelled => call'[a].aborted
          /\ \A d \in Calls : call'[a].link = call'[d].link /\ call'[a].link # NoLink => a = d
          /\ call'[a].pc \in LinkHeld \ {"statement"} => link'[call'[a].link].runs = "nothing"
          /\ call'[a].pc = "schema" => ~Mysql' /\ ~link'[call'[a].link].txn
    BY OthersHold, Zenon
  <1>2. HoldInv' /\ RunInv'
    <2>1. /\ call'[c].link # NoLink <=> call'[c].pc \in LinkHeld
          /\ call'[c].link # NoLink => link'[call'[c].link].at = "busy"
          /\ call'[c].listening => call'[c].link # NoLink
          /\ call'[c].cancelled => call'[c].aborted
          /\ call'[c].pc \in LinkHeld \ {"statement"} => link'[call'[c].link].runs = "nothing"
          /\ call'[c].pc # "schema"
      BY DEF LinkHeld
    <2>2. \A d \in Calls : call'[c].link = call'[d].link /\ call'[c].link # NoLink => c = d
      BY <1>1
    <2>3. HoldInv'
      BY <1>1, <2>1, <2>2, Zenon DEF HoldInv
    <2>4. RunInv'
      BY <1>1, <2>1, Zenon DEF RunInv
    <2> QED BY <2>3, <2>4
  <1>3. KillInv'
    <2> SUFFICES ASSUME NEW k \in kills
                 PROVE  link[k].at = "destroyed" \/ \E d \in Calls : call'[d].link = k /\ Discarding(d)'
      BY DEF KillInv
    <2>1. CASE link[k].at = "destroyed"
      BY <2>1
    <2>2. ASSUME NEW d \in Calls, call[d].link = k, Discarding(d)
          PROVE  call'[d].link = k /\ Discarding(d)'
      <3>1. d # c
        BY <2>2 DEF PooledTypeOK, NoLink, Links
      <3> QED BY <2>2, <3>1 DEF Discarding, AbortSeen, Mysql
    <2> QED BY <2>1, <2>2 DEF KillInv
  <1>4. QuietInv'
    BY DEF QuietInv
  <1> QED BY <1>2, <1>3, <1>4

(* So does a holder that goes on with its session ...                      *)
LEMMA GoesOnKeeps ==
  ASSUME PooledInv, NEW c \in Calls, NEW k \in Links, GoesOn(c, k)
  PROVE  HoldInv' /\ RunInv' /\ KillInv' /\ QuietInv'
  <1> USE DEF PooledInv, GoesOn, OneCall, OneLink
  <1>1. \A a \in Calls : a # c =>
          /\ call'[a].link # NoLink <=> call'[a].pc \in LinkHeld
          /\ call'[a].link # NoLink => link'[call'[a].link].at = "busy"
          /\ call'[a].listening => call'[a].link # NoLink
          /\ call'[a].cancelled => call'[a].aborted
          /\ \A d \in Calls : call'[a].link = call'[d].link /\ call'[a].link # NoLink => a = d
          /\ call'[a].pc \in LinkHeld \ {"statement"} => link'[call'[a].link].runs = "nothing"
          /\ call'[a].pc = "schema" => ~Mysql' /\ ~link'[call'[a].link].txn
    BY OthersHold, Zenon
  <1>2. HoldInv' /\ RunInv'
    <2>1. /\ call'[c].link # NoLink <=> call'[c].pc \in LinkHeld
          /\ call'[c].link # NoLink => link'[call'[c].link].at = "busy"
          /\ call'[c].listening => call'[c].link # NoLink
          /\ call'[c].cancelled => call'[c].aborted
          /\ call'[c].pc \in LinkHeld \ {"statement"} => link'[call'[c].link].runs = "nothing"
          /\ call'[c].pc = "schema" => ~Mysql' /\ ~link'[call'[c].link].txn
      BY DEF LinkHeld
    <2>2. \A d \in Calls : call'[c].link = call'[d].link /\ call'[c].link # NoLink => c = d
      BY <1>1
    <2>3. HoldInv'
      BY <1>1, <2>1, <2>2, Zenon DEF HoldInv
    <2>4. RunInv'
      BY <1>1, <2>1, Zenon DEF RunInv
    <2> QED BY <2>3, <2>4
  <1>3. KillInv'
    <2> SUFFICES ASSUME NEW j \in kills'
                 PROVE  link'[j].at = "destroyed" \/ \E d \in Calls : call'[d].link = j /\ Discarding(d)'
      BY DEF KillInv
    <2>1. CASE j \notin kills
      BY <2>1
    <2>2. CASE j \in kills /\ link[j].at = "destroyed"
      <3>1. link[k].at = "busy" /\ j \in Links
        BY <2>2 DEF HoldInv, PooledTypeOK
      <3> QED BY <2>2, <3>1
    <2>3. ASSUME NEW d \in Calls, call[d].link = j, Discarding(d)
          PROVE  call'[d].link = j /\ Discarding(d)'
      <3>1. CASE d = c
        BY <2>3, <3>1
      <3>2. CASE d # c
        BY <2>3, <3>2 DEF Discarding, AbortSeen, Mysql
      <3> QED BY <3>1, <3>2
    <2> QED BY <2>1, <2>2, <2>3 DEF KillInv
  <1>4. QuietInv'
    BY DEF QuietInv
  <1> QED BY <1>2, <1>3, <1>4

(* ... and one that ends its hold.                                         *)
LEMMA GivesUpKeeps ==
  ASSUME PooledInv, NEW c \in Calls, NEW k \in Links, GivesUp(c, k)
  PROVE  HoldInv' /\ RunInv' /\ KillInv' /\ QuietInv'
  <1> USE DEF PooledInv, GivesUp, OneCall, OneLink
  <1>1. \A a \in Calls : a # c =>
          /\ call'[a].link # NoLink <=> call'[a].pc \in LinkHeld
          /\ call'[a].link # NoLink => link'[call'[a].link].at = "busy"
          /\ call'[a].listening => call'[a].link # NoLink
          /\ call'[a].cancelled => call'[a].aborted
          /\ \A d \in Calls : call'[a].link = call'[d].link /\ call'[a].link # NoLink => a = d
          /\ call'[a].pc \in LinkHeld \ {"statement"} => link'[call'[a].link].runs = "nothing"
          /\ call'[a].pc = "schema" => ~Mysql' /\ ~link'[call'[a].link].txn
    BY OthersHold, Zenon
  <1>2. HoldInv' /\ RunInv'
    <2>1. /\ call'[c].link # NoLink <=> call'[c].pc \in LinkHeld
          /\ call'[c].link # NoLink => link'[call'[c].link].at = "busy"
          /\ call'[c].listening => call'[c].link # NoLink
          /\ call'[c].cancelled => call'[c].aborted
          /\ call'[c].pc \in LinkHeld \ {"statement"} => link'[call'[c].link].runs = "nothing"
          /\ call'[c].pc # "schema"
      BY DEF LinkHeld
    <2>2. \A d \in Calls : call'[c].link = call'[d].link /\ call'[c].link # NoLink => c = d
      BY <1>1
    <2>3. HoldInv'
      BY <1>1, <2>1, <2>2, Zenon DEF HoldInv
    <2>4. RunInv'
      BY <1>1, <2>1, Zenon DEF RunInv
    <2> QED BY <2>3, <2>4
  <1>3. KillInv'
    <2> SUFFICES ASSUME NEW j \in kills'
                 PROVE  link'[j].at = "destroyed" \/ \E d \in Calls : call'[d].link = j /\ Discarding(d)'
      BY DEF KillInv
    <2>a. link[k].at = "busy" /\ kills \subseteq Links
      BY DEF HoldInv, PooledTypeOK
    <2>1. CASE j \notin kills
      BY <2>1
    <2>2. CASE j \in kills /\ link[j].at = "destroyed"
      BY <2>2, <2>a
    <2>3. ASSUME NEW d \in Calls, j \in kills, call[d].link = j, Discarding(d)
          PROVE  link'[j].at = "destroyed" \/ \E e \in Calls : call'[e].link = j /\ Discarding(e)'
      <3>1. CASE d = c
        BY <2>3, <3>1
      <3>2. CASE d # c
        BY <2>3, <3>2 DEF Discarding, AbortSeen, Mysql
      <3> QED BY <3>1, <3>2
    <2> QED BY <2>1, <2>2, <2>3 DEF KillInv
  <1>4. QuietInv'
    BY DEF QuietInv
  <1> QED BY <1>2, <1>3, <1>4

(* What is known of a call that holds a session.                           *)
LEMMA Holder ==
  ASSUME PooledInv, NEW c \in Calls, call[c].pc \in LinkHeld
  PROVE  /\ call[c] \in PooledCall /\ call[c].link \in Links /\ call[c].link # NoLink
         /\ link[call[c].link] \in PooledLink /\ link[call[c].link].at = "busy"
         /\ call[c].cancelled => call[c].aborted
  <1>1. call[c] \in PooledCall
    BY DEF PooledInv, PooledTypeOK
  <1>2. call[c].link # NoLink /\ link[call[c].link].at = "busy" /\ (call[c].cancelled => call[c].aborted)
    BY DEF PooledInv, HoldInv
  <1>3. call[c].link \in Links
    BY <1>1, <1>2 DEF PooledCall
  <1> QED BY <1>1, <1>2, <1>3 DEF PooledInv, PooledTypeOK

(* What a call settles with.                                               *)
Failures == {"rows", "CANCELLED", "DB_TIMEOUT", "DB_QUERY_ERROR", "DB_UNREACHABLE"}

(* The record of a call that settles.                                      *)
LEMMA SettleTyped ==
  ASSUME PooledTypeOK, NEW c \in Calls, NEW o \in Failures
  PROVE  \E r \in PooledCall :
           /\ Settle(c, o) = [call EXCEPT ![c] = r]
           /\ r.pc = "done" /\ r.link = NoLink /\ r.listening = FALSE
           /\ r.cancelled = call[c].cancelled /\ r.aborted = call[c].aborted
  <1> DEFINE r == [call[c] EXCEPT !.pc = "done", !.out = o, !.link = NoLink, !.listening = FALSE]
  <1>1. call[c] \in PooledCall
    BY DEF PooledTypeOK
  <1>2. /\ r \in PooledCall /\ r.pc = "done" /\ r.link = NoLink /\ r.listening = FALSE
        /\ r.cancelled = call[c].cancelled /\ r.aborted = call[c].aborted
    BY <1>1 DEF PooledCall, Failures
  <1>3. Settle(c, o) = [call EXCEPT ![c] = r]
    BY DEF Settle, PooledTypeOK
  <1> QED BY <1>2, <1>3, Zenon

(* The error of the catch block is one of them.                            *)
LEMMA FailureTyped ==
  ASSUME NEW c PROVE FailureOf(c) \in Failures
  BY DEF FailureOf, Failures

(* What the finally block leaves of the session.                           *)
LEMMA GiveBackTyped ==
  ASSUME PooledTypeOK, NEW c \in Calls, call[c].link \in Links
  PROVE  \E l \in PooledLink :
           /\ GiveBack(c) = [link EXCEPT ![call[c].link] = l]
           /\ Discarding(c) => l.at = "destroyed"
           /\ ~Discarding(c) => l.at = "idle"
           /\ l.runs = link[call[c].link].runs
  <1> DEFINE k == call[c].link
             at == IF Discarding(c) THEN "destroyed" ELSE "idle"
             my1 == [link[k] EXCEPT !.at = at]
             or1 == [link[k] EXCEPT !.at = "idle", !.txn = FALSE]
  <1>1. link[k] \in PooledLink
    BY DEF PooledTypeOK
  <1>2. at \in {"destroyed", "idle"}
    OBVIOUS
  <1> HIDE DEF at
  <1>3. my1 \in PooledLink /\ my1.at = at /\ my1.runs = link[k].runs
    BY <1>1, <1>2 DEF PooledLink
  <1>4. or1 \in PooledLink /\ or1.at = "idle" /\ or1.runs = link[k].runs
    BY <1>1 DEF PooledLink
  <1>5. CASE Mysql
    <2>1. GiveBack(c) = [link EXCEPT ![k] = my1]
      BY <1>5 DEF GiveBack, at, PooledTypeOK
    <2> QED BY <1>3, <2>1, Zenon DEF at
  <1>6. CASE ~Mysql
    <2>1. GiveBack(c) = [link EXCEPT ![k] = or1] /\ ~Discarding(c)
      BY <1>6 DEF GiveBack, Discarding, PooledTypeOK
    <2> QED BY <1>4, <2>1, Zenon
  <1> QED BY <1>5, <1>6

(* A call that settles without having had a session.                       *)
LEMMA SettlesAside ==
  ASSUME PooledInv, NEW c \in Calls, call[c].pc \notin LinkHeld, NEW o \in Failures,
         call' = Settle(c, o), UNCHANGED <<brand, link, kills>>
  PROVE  Aside(c)
  <1>1. PICK r \in PooledCall :
           /\ call' = [call EXCEPT ![c] = r]
           /\ r.pc = "done" /\ r.link = NoLink /\ r.listening = FALSE
           /\ r.cancelled = call[c].cancelled /\ r.aborted = call[c].aborted
    BY SettleTyped DEF PooledInv
  <1>2. /\ call' \in [Calls -> PooledCall] /\ call'[c] = r
        /\ \A d \in Calls : d # c => call'[d] = call[d]
    BY <1>1, CallTyped DEF PooledInv
  <1>3. call[c].link = NoLink /\ (call[c].cancelled => call[c].aborted)
    BY DEF PooledInv, HoldInv
  <1> QED BY <1>1, <1>2, <1>3 DEF Aside, OneCall, LinkHeld

(* A call that moves on without a session.                                 *)
LEMMA MovesAside ==
  ASSUME PooledInv, NEW c \in Calls, call[c].pc \notin LinkHeld,
         NEW p \in {"ensure", "driver", "checkout"}, NEW n \in Nat,
         call' = [call EXCEPT ![c].pc = p, ![c].pool = n], UNCHANGED <<brand, link, kills>>
  PROVE  Aside(c)
  <1> DEFINE r == [call[c] EXCEPT !.pc = p, !.pool = n]
  <1>1. call[c] \in PooledCall
    BY DEF PooledInv, PooledTypeOK
  <1>2. /\ r \in PooledCall /\ r.pc = p /\ r.link = call[c].link /\ r.listening = call[c].listening
        /\ r.cancelled = call[c].cancelled /\ r.aborted = call[c].aborted
    BY <1>1 DEF PooledCall
  <1>3. call' = [call EXCEPT ![c] = r]
    BY DEF PooledInv, PooledTypeOK
  <1> HIDE DEF r
  <1>4. /\ call' \in [Calls -> PooledCall] /\ call'[c] = r
        /\ \A d \in Calls : d # c => call'[d] = call[d]
    BY <1>2, <1>3, CallTyped DEF PooledInv
  <1>5. /\ call[c].link = NoLink /\ (call[c].cancelled => call[c].aborted)
        /\ call[c].listening = FALSE
    BY <1>1 DEF PooledInv, HoldInv, PooledCall
  <1> QED BY <1>2, <1>4, <1>5 DEF Aside, OneCall, LinkHeld

(* A holder that settles, and leaves its session as l.                     *)
LEMMA HolderSettles ==
  ASSUME PooledInv, NEW c \in Calls, call[c].pc \in LinkHeld, UNCHANGED <<brand, kills>>,
         NEW o \in Failures, call' = Settle(c, o),
         NEW l \in PooledLink, link' = [link EXCEPT ![call[c].link] = l],
         \/ l.at = "destroyed"
         \/ l.at = "idle" /\ l.txn = FALSE /\ l.runs = "nothing" /\ ~Discarding(c)
  PROVE  GivesUp(c, call[c].link)
  <1>1. PICK r \in PooledCall :
           /\ call' = [call EXCEPT ![c] = r]
           /\ r.pc = "done" /\ r.link = NoLink /\ r.listening = FALSE
           /\ r.cancelled = call[c].cancelled /\ r.aborted = call[c].aborted
    BY SettleTyped DEF PooledInv
  <1>2. /\ call' \in [Calls -> PooledCall] /\ call'[c] = r
        /\ \A d \in Calls : d # c => call'[d] = call[d]
    BY <1>1, CallTyped DEF PooledInv
  <1>3. /\ call[c].link \in Links /\ call[c].link # NoLink
        /\ call[c].cancelled => call[c].aborted
    BY Holder
  <1>4. /\ link' \in [Links -> PooledLink] /\ link'[call[c].link] = l
        /\ \A j \in Links : j # call[c].link => link'[j] = link[j]
    BY <1>3, LinkTyped DEF PooledInv
  <1> QED BY <1>1, <1>2, <1>3, <1>4 DEF GivesUp, OneCall, OneLink

(* A holder that goes on, its session becoming l and its record r.         *)
LEMMA HolderGoesOn ==
  ASSUME PooledInv, NEW c \in Calls, call[c].pc \in LinkHeld, brand' = brand,
         kills' \in {kills, kills \cup {call[c].link}},
         NEW r \in PooledCall, call' = [call EXCEPT ![c] = r], r.link = call[c].link,
         r.pc \in LinkHeld \ {"schema"}, r.cancelled => r.aborted,
         NEW l \in PooledLink, link' = [link EXCEPT ![call[c].link] = l], l.at = "busy",
         r.pc # "statement" => l.runs = "nothing",
         kills' # kills => Mysql /\ (r.timedOut \/ r.cancelled \/ r.aborted),
         call[c].timedOut => r.timedOut, call[c].aborted => r.aborted
  PROVE  GoesOn(c, call[c].link)
  <1>1. /\ call' \in [Calls -> PooledCall] /\ call'[c] = r
        /\ \A d \in Calls : d # c => call'[d] = call[d]
    BY CallTyped DEF PooledInv
  <1>2. /\ call[c].link \in Links /\ call[c].link # NoLink
        /\ call[c].cancelled => call[c].aborted
    BY Holder
  <1>3. /\ link' \in [Links -> PooledLink] /\ link'[call[c].link] = l
        /\ \A j \in Links : j # call[c].link => link'[j] = link[j]
    BY <1>2, LinkTyped DEF PooledInv
  <1>4. kills' # kills \/ Discarding(c) => Discarding(c)'
    BY <1>1, <1>2 DEF Discarding, AbortSeen, Mysql
  <1>5. /\ call'[c].link = call[c].link /\ call'[c].pc \in LinkHeld \ {"schema"}
        /\ call'[c].cancelled => call'[c].aborted
        /\ call'[c].pc # "statement" => link'[call[c].link].runs = "nothing"
        /\ link'[call[c].link].at = "busy"
    BY <1>1, <1>3, Zenon
  <1>6. OneCall(c) /\ OneLink(call[c].link)
    BY <1>1, <1>3, Zenon DEF OneCall, OneLink
  <1> QED BY <1>2, <1>4, <1>5, <1>6, Zenon DEF GoesOn

(* The catch and the finally block, with nothing running.                  *)
LEMMA OnErrorKeeps ==
  ASSUME PooledInv, NEW c \in Calls, call[c].pc \in LinkHeld \ {"statement"}, OnError(c),
         UNCHANGED <<brand, kills>>
  PROVE  GivesUp(c, call[c].link) \/ GoesOn(c, call[c].link)
  <1>1. /\ call[c] \in PooledCall /\ call[c].link \in Links /\ call[c].link # NoLink
        /\ link[call[c].link] \in PooledLink /\ link[call[c].link].at = "busy"
        /\ call[c].cancelled => call[c].aborted
    BY Holder
  <1>2. CASE Discarding(c) /\ link' = GiveBack(c) /\ call' = Settle(c, FailureOf(c))
    <2>1. PICK l \in PooledLink : link' = [link EXCEPT ![call[c].link] = l] /\ l.at = "destroyed"
      BY <1>1, <1>2, GiveBackTyped DEF PooledInv
    <2> QED BY <1>2, <2>1, FailureTyped, HolderSettles
  <1>3. CASE call' = [call EXCEPT ![c].pc = "rollback"] /\ UNCHANGED link
    <2> DEFINE r == [call[c] EXCEPT !.pc = "rollback"]
    <2>1. /\ r \in PooledCall /\ r.pc = "rollback" /\ r.link = call[c].link
          /\ r.cancelled = call[c].cancelled /\ r.aborted = call[c].aborted
          /\ r.timedOut = call[c].timedOut
      BY <1>1 DEF PooledCall
    <2>2. call' = [call EXCEPT ![c] = r]
      BY <1>3 DEF PooledInv, PooledTypeOK
    <2> HIDE DEF r
    <2>3. link' = [link EXCEPT ![call[c].link] = link[call[c].link]]
      BY <1>3 DEF PooledInv, PooledTypeOK
    <2>4. link[call[c].link].runs = "nothing"
      BY DEF PooledInv, RunInv
    <2>5. r.pc \in LinkHeld \ {"schema"}
      BY <2>1 DEF LinkHeld
    <2> QED BY <1>1, <2>1, <2>2, <2>3, <2>4, <2>5, HolderGoesOn
  <1> QED BY <1>2, <1>3 DEF OnError

(* A session is handed out.                                                *)
LEMMA GivenKeeps ==
  ASSUME PooledInv, NEW c \in Calls, NEW k \in Links, LinkGiven(c, k)
  PROVE  PooledInv'
  <1> DEFINE r == [call[c] EXCEPT !.pc = IF Mysql THEN "begin" ELSE "schema", !.link = k]
             l == [link[k] EXCEPT !.at = "busy", !.pool = call[c].pool, !.known = FALSE]
  <1>1. /\ call[c] \in PooledCall /\ link[k] \in PooledLink
        /\ call[c].pc = "checkout" /\ link[k].at \in {"none", "idle"}
        /\ UNCHANGED <<brand, kills, pool, made>>
    BY DEF LinkGiven, PooledInv, PooledTypeOK, Spare, linkVars
  <1>2. /\ r \in PooledCall /\ r.pc = (IF Mysql THEN "begin" ELSE "schema") /\ r.link = k
        /\ r.listening = call[c].listening /\ r.cancelled = call[c].cancelled
        /\ r.aborted = call[c].aborted
    BY <1>1 DEF PooledCall
  <1>3. l \in PooledLink /\ l.at = "busy" /\ l.txn = link[k].txn /\ l.runs = link[k].runs
    <2>1. call[c].pool \in Nat
      BY <1>1 DEF PooledCall
    <2> QED BY <1>1, <2>1 DEF PooledLink
  <1>4. call' = [call EXCEPT ![c] = r] /\ link' = [link EXCEPT ![k] = l]
    BY DEF LinkGiven, PooledInv, PooledTypeOK
  <1> HIDE DEF r, l
  <1>5. /\ call' \in [Calls -> PooledCall] /\ call'[c] = r
        /\ \A d \in Calls : d # c => call'[d] = call[d]
    BY <1>2, <1>4, CallTyped DEF PooledInv
  <1>6. /\ link' \in [Links -> PooledLink] /\ link'[k] = l
        /\ \A j \in Links : j # k => link'[j] = link[j]
    BY <1>3, <1>4, LinkTyped DEF PooledInv
  <1>7. PooledTypeOK'
    BY <1>1, <1>5, <1>6 DEF PooledInv, PooledTypeOK
  <1>8. /\ call[c].link = NoLink /\ k # NoLink /\ (call[c].cancelled => call[c].aborted)
        /\ link[k].txn = FALSE /\ link[k].runs = "nothing"
        /\ \A d \in Calls : call[d].link # k
    <2>1. link[k].txn = FALSE
      BY <1>1 DEF PooledInv, QuietInv, PooledLink
    <2> QED BY <1>1, <2>1 DEF PooledInv, HoldInv, QuietInv, LinkHeld, Links, NoLink
  <1>9. ASSUME NEW a \in Calls, a # c
        PROVE  /\ call'[a] = call[a] /\ call[a].link # k
               /\ call[a].link # NoLink => link'[call[a].link] = link[call[a].link]
               /\ call[a].link # NoLink <=> call[a].pc \in LinkHeld
               /\ call[a].link # NoLink => link[call[a].link].at = "busy"
               /\ call[a].listening => call[a].link # NoLink
               /\ call[a].cancelled => call[a].aborted
               /\ \A d \in Calls : call[a].link = call[d].link /\ call[a].link # NoLink => a = d
               /\ call[a].pc \in LinkHeld \ {"statement"} => link[call[a].link].runs = "nothing"
               /\ call[a].pc = "schema" => ~Mysql /\ ~link[call[a].link].txn
    <2>1. call[a].link \in Links \cup {NoLink}
      BY DEF PooledInv, PooledTypeOK, PooledCall
    <2>2. /\ call[a].link # NoLink <=> call[a].pc \in LinkHeld
          /\ call[a].link # NoLink => link[call[a].link].at = "busy"
          /\ call[a].listening => call[a].link # NoLink
          /\ call[a].cancelled => call[a].aborted
          /\ \A d \in Calls : call[a].link = call[d].link /\ call[a].link # NoLink => a = d
      BY DEF PooledInv, HoldInv
    <2>3. /\ call[a].pc \in LinkHeld \ {"statement"} => link[call[a].link].runs = "nothing"
          /\ call[a].pc = "schema" => ~Mysql /\ ~link[call[a].link].txn
      BY DEF PooledInv, RunInv
    <2>4. call[a].link # NoLink => link'[call[a].link] = link[call[a].link]
      BY <1>6, <1>8, <2>1
    <2>5. call'[a] = call[a] /\ call[a].link # k
      BY <1>5, <1>8, <1>9
    <2> QED BY <2>2, <2>3, <2>4, <2>5, Zenon
  <1>10. /\ call'[c].link = k /\ call'[c].pc \in LinkHeld \ {"statement"}
         /\ call'[c].cancelled => call'[c].aborted
         /\ link'[k].at = "busy" /\ link'[k].runs = "nothing" /\ link'[k].txn = FALSE
         /\ call'[c].pc = "schema" => ~Mysql
    BY <1>2, <1>3, <1>5, <1>6, <1>8 DEF LinkHeld
  <1>11. HoldInv'
    <2>1. ASSUME NEW a \in Calls, a # c
          PROVE  /\ call'[a].link # NoLink <=> call'[a].pc \in LinkHeld
                 /\ call'[a].link # NoLink => link'[call'[a].link].at = "busy"
                 /\ call'[a].listening => call'[a].link # NoLink
                 /\ call'[a].cancelled => call'[a].aborted
                 /\ \A d \in Calls : call'[a].link = call'[d].link /\ call'[a].link # NoLink => a = d
      <3>1. \A d \in Calls : call'[a].link = call'[d].link /\ call'[a].link # NoLink => a = d
        BY <1>5, <1>9, <1>10, <2>1
      <3>2. /\ call'[a] = call[a]
            /\ call[a].link # NoLink => link'[call[a].link] = link[call[a].link]
            /\ call[a].link # NoLink <=> call[a].pc \in LinkHeld
            /\ call[a].link # NoLink => link[call[a].link].at = "busy"
            /\ call[a].listening => call[a].link # NoLink
            /\ call[a].cancelled => call[a].aborted
        BY ONLY <1>9, <2>1, a \in Calls, Zenon
      <3> QED BY ONLY <3>1, <3>2, Zenon
    <2>2. \A d \in Calls : call'[c].link = call'[d].link => c = d
      BY <1>9, <1>10
    <2> QED BY <1>8, <1>10, <2>1, <2>2 DEF HoldInv
  <1>12. RunInv'
    <2>1. \A a \in Calls : a # c =>
            /\ call'[a].pc \in LinkHeld \ {"statement"} => link'[call'[a].link].runs = "nothing"
            /\ call'[a].pc = "schema" => ~Mysql' /\ ~link'[call'[a].link].txn
      BY <1>1, <1>9 DEF Mysql, LinkHeld
    <2> QED BY <1>1, <1>10, <2>1 DEF RunInv, Mysql
  <1>13. KillInv'
    <2> SUFFICES ASSUME NEW j \in kills
                 PROVE  link'[j].at = "destroyed" \/ \E d \in Calls : call'[d].link = j /\ Discarding(d)'
      BY <1>1 DEF KillInv
    <2>1. CASE link[j].at = "destroyed"
      BY <1>1, <1>6, <2>1 DEF PooledInv, PooledTypeOK
    <2>2. ASSUME NEW d \in Calls, call[d].link = j, Discarding(d)
          PROVE  call'[d].link = j /\ Discarding(d)'
      <3>1. j \in Links /\ j # NoLink
        BY DEF PooledInv, PooledTypeOK, Links, NoLink
      <3>2. d # c
        BY <1>8, <2>2, <3>1
      <3> QED BY <1>1, <1>5, <2>2, <3>2 DEF Discarding, AbortSeen, Mysql
    <2> QED BY <2>1, <2>2 DEF PooledInv, KillInv
  <1>14. QuietInv'
    BY <1>6, <1>10 DEF PooledInv, QuietInv
  <1> QED BY <1>7, <1>11, <1>12, <1>13, <1>14 DEF PooledInv

(* A KILL arrives or is lost, or the server ends what nobody awaits.       *)
LEMMA ServerKeeps ==
  ASSUME PooledInv, NEW k \in Links, KillRuns(k) \/ KillLost(k) \/ Abandoned(k)
  PROVE  PooledInv'
  <1>1. /\ UNCHANGED <<brand, pool, made, call>> /\ kills' \subseteq kills
        /\ link[k] \in PooledLink
    BY DEF KillRuns, KillLost, Abandoned, linkVars, PooledInv, PooledTypeOK
  <1>2. PICK l \in PooledLink : /\ link' = [link EXCEPT ![k] = l] /\ l.at = link[k].at
                                /\ l.txn = link[k].txn /\ l.runs \in {"nothing", "killed", link[k].runs}
                                /\ link[k].runs = "nothing" => l.runs = "nothing"
    <2>1. ASSUME NEW w \in {"nothing", "killed"}, link[k].runs = "nothing" => w = "nothing",
                 link' = [link EXCEPT ![k].runs = w]
          PROVE  \E l \in PooledLink : /\ link' = [link EXCEPT ![k] = l] /\ l.at = link[k].at
                                       /\ l.txn = link[k].txn /\ l.runs \in {"nothing", "killed", link[k].runs}
                                       /\ link[k].runs = "nothing" => l.runs = "nothing"
      <3> DEFINE l == [link[k] EXCEPT !.runs = w]
      <3>1. l \in PooledLink /\ l.at = link[k].at /\ l.txn = link[k].txn /\ l.runs = w
        BY <1>1 DEF PooledLink
      <3>2. link' = [link EXCEPT ![k] = l]
        BY <2>1 DEF PooledInv, PooledTypeOK
      <3> HIDE DEF l
      <3>3. /\ l.runs \in {"nothing", "killed", link[k].runs}
            /\ link[k].runs = "nothing" => l.runs = "nothing"
        BY <2>1, <3>1
      <3> QED BY <3>1, <3>2, <3>3, Zenon
    <2>2. CASE KillRuns(k)
      <3> DEFINE w == IF link[k].runs = "nothing" \/ link[k].at = "destroyed" THEN "nothing" ELSE "killed"
      <3>1. link' = [link EXCEPT ![k].runs = w]
        BY <2>2 DEF KillRuns
      <3>2. w \in {"nothing", "killed"} /\ (link[k].runs = "nothing" => w = "nothing")
        OBVIOUS
      <3> HIDE DEF w
      <3> QED BY <2>1, <3>1, <3>2
    <2>3. CASE Abandoned(k)
      BY <2>1, <2>3 DEF Abandoned
    <2>4. CASE KillLost(k)
      <3>1. link' = [link EXCEPT ![k] = link[k]]
        BY <2>4 DEF KillLost, PooledInv, PooledTypeOK
      <3>2. link[k].runs \in {"nothing", "killed", link[k].runs}
        OBVIOUS
      <3> QED BY <1>1, <3>1, <3>2, Zenon
    <2> QED BY <2>2, <2>3, <2>4
  <1>3. /\ link' \in [Links -> PooledLink] /\ link'[k] = l
        /\ \A j \in Links : j # k => link'[j] = link[j]
    BY <1>2, LinkTyped DEF PooledInv
  <1>4. PooledTypeOK'
    BY <1>1, <1>3 DEF PooledInv, PooledTypeOK
  <1>5. \A j \in Links : /\ link'[j].at = link[j].at /\ link'[j].txn = link[j].txn
                         /\ link[j].runs = "nothing" => link'[j].runs = "nothing"
    BY <1>2, <1>3
  <1>6. \A c \in Calls : call[c].link \in Links \cup {NoLink}
    BY DEF PooledInv, PooledTypeOK, PooledCall
  <1>7. HoldInv'
    BY <1>1, <1>5, <1>6 DEF PooledInv, HoldInv
  <1>8. RunInv'
    <2>1. \A c \in Calls : call[c].pc \in LinkHeld => call[c].link \in Links
      BY <1>6 DEF PooledInv, HoldInv
    <2> QED BY <1>1, <1>5, <2>1 DEF PooledInv, RunInv, LinkHeld, Mysql
  <1>9. KillInv'
    BY <1>1, <1>5 DEF PooledInv, KillInv, PooledTypeOK, Discarding, AbortSeen, Mysql
  <1>10. QuietInv'
    BY <1>5 DEF PooledInv, QuietInv
  <1> QED BY <1>4, <1>7, <1>8, <1>9, <1>10 DEF PooledInv

(* A step of a call that is aside, goes on or gives up keeps everything.   *)
LEMMA StepKeeps ==
  ASSUME PooledInv, NEW c \in Calls, pool' \in Nat, made' \in Nat,
         Aside(c) \/ (call[c].pc \in LinkHeld /\ (GoesOn(c, call[c].link) \/ GivesUp(c, call[c].link)))
  PROVE  PooledInv'
  <1>1. CASE Aside(c)
    <2>1. PooledTypeOK'
      BY <1>1 DEF Aside, OneCall, PooledInv, PooledTypeOK
    <2> QED BY <1>1, <2>1, AsideKeeps DEF PooledInv
  <1>2. CASE call[c].pc \in LinkHeld /\ GoesOn(c, call[c].link)
    <2>1. call[c].link \in Links
      BY <1>2, Holder
    <2>2. PooledTypeOK'
      BY <1>2, <2>1 DEF GoesOn, OneCall, OneLink, PooledInv, PooledTypeOK
    <2> QED BY <1>2, <2>1, <2>2, GoesOnKeeps DEF PooledInv
  <1>3. CASE call[c].pc \in LinkHeld /\ GivesUp(c, call[c].link)
    <2>1. call[c].link \in Links
      BY <1>3, Holder
    <2>2. PooledTypeOK'
      BY <1>3, <2>1 DEF GivesUp, OneCall, OneLink, PooledInv, PooledTypeOK
    <2> QED BY <1>3, <2>1, <2>2, GivesUpKeeps DEF PooledInv
  <1> QED BY <1>1, <1>2, <1>3

(* Before a call has a session.                                            *)
LEMMA BeforeKeeps ==
  ASSUME PooledInv, NEW c \in Calls,
         ExecuteStarts(c) \/ EnsureEnds(c) \/ DriverThere(c) \/ LinkRefused(c)
  PROVE  PooledInv'
  <1>1. /\ call[c].pc \notin LinkHeld /\ UNCHANGED <<brand, link, kills, pool, made>>
        /\ pool \in Nat /\ made \in Nat
    BY DEF ExecuteStarts, EnsureEnds, DriverThere, LinkRefused, linkVars, LinkHeld, PooledInv, PooledTypeOK
  <1>2. \/ \E o \in Failures : call' = Settle(c, o)
        \/ \E p \in {"ensure", "driver", "checkout"}, n \in Nat :
             call' = [call EXCEPT ![c].pc = p, ![c].pool = n]
    <2>1. ASSUME NEW p \in {"ensure", "driver", "checkout"}, call' = [call EXCEPT ![c].pc = p]
          PROVE  \E n \in Nat : call' = [call EXCEPT ![c].pc = p, ![c].pool = n]
      <3>1. call[c] \in PooledCall
        BY DEF PooledInv, PooledTypeOK
      <3>2. call[c].pool \in Nat /\ [call[c] EXCEPT !.pc = p] = [call[c] EXCEPT !.pc = p, !.pool = call[c].pool]
        BY <3>1 DEF PooledCall
      <3>3. call' = [call EXCEPT ![c].pc = p, ![c].pool = call[c].pool]
        BY <2>1, <3>1, <3>2 DEF PooledInv, PooledTypeOK
      <3> QED BY <3>2, <3>3, Zenon
    <2>2. CASE ExecuteStarts(c)
      BY <1>1, <2>1, <2>2 DEF ExecuteStarts, Failures
    <2>3. CASE EnsureEnds(c)
      BY <1>1, <2>3 DEF EnsureEnds, Failures
    <2>4. CASE DriverThere(c)
      BY <2>1, <2>4 DEF DriverThere, Failures
    <2>5. CASE LinkRefused(c)
      BY <2>5 DEF LinkRefused, Failures
    <2> QED BY <2>2, <2>3, <2>4, <2>5
  <1>3. Aside(c)
    BY <1>1, <1>2, SettlesAside, MovesAside
  <1> QED BY <1>1, <1>3, StepKeeps

(* A holder that goes on, with the one record and the one session changed. *)
LEMMA SchemaKeeps ==
  ASSUME PooledInv, NEW c \in Calls, SchemaSet(c) PROVE PooledInv'
  <1>1. /\ call[c].pc \in LinkHeld /\ call[c].pc = "schema" /\ UNCHANGED <<brand, kills, pool, made>>
        /\ pool \in Nat /\ made \in Nat
    BY DEF SchemaSet, linkVars, LinkHeld, PooledInv, PooledTypeOK
  <1>2. /\ call[c] \in PooledCall /\ call[c].link \in Links /\ call[c].link # NoLink
        /\ link[call[c].link] \in PooledLink /\ link[call[c].link].at = "busy"
        /\ call[c].cancelled => call[c].aborted
    BY <1>1, Holder
  <1>3. link[call[c].link].runs = "nothing" /\ link[call[c].link].txn = FALSE /\ ~Mysql
    <2>1. link[call[c].link].runs = "nothing" /\ ~link[call[c].link].txn /\ ~Mysql
      BY <1>1 DEF PooledInv, RunInv
    <2>2. link[call[c].link].txn = FALSE
      BY <1>2, <2>1 DEF PooledLink
    <2> QED BY <2>1, <2>2
  <1>4. CASE /\ call' = [call EXCEPT ![c].pc = "begin", ![c].listening = ~call[c].aborted]
             /\ UNCHANGED link
    <2> DEFINE r == [call[c] EXCEPT !.pc = "begin", !.listening = ~call[c].aborted]
    <2>1. /\ r \in PooledCall /\ r.pc = "begin" /\ r.link = call[c].link
          /\ r.cancelled = call[c].cancelled /\ r.aborted = call[c].aborted
          /\ r.timedOut = call[c].timedOut
      BY <1>2 DEF PooledCall
    <2>2. call' = [call EXCEPT ![c] = r]
      BY <1>4 DEF PooledInv, PooledTypeOK
    <2> HIDE DEF r
    <2>3. link' = [link EXCEPT ![call[c].link] = link[call[c].link]]
      BY <1>4 DEF PooledInv, PooledTypeOK
    <2>4. r.pc \in LinkHeld \ {"schema"}
      BY <2>1 DEF LinkHeld
    <2>5. GoesOn(c, call[c].link)
      BY <1>1, <1>2, <1>3, <2>1, <2>2, <2>3, <2>4, HolderGoesOn
    <2> QED BY <1>1, <2>5, StepKeeps
  <1>5. CASE /\ call' = Settle(c, "DB_QUERY_ERROR")
             /\ link' = [link EXCEPT ![call[c].link].at = "idle"]
    <2> DEFINE l == [link[call[c].link] EXCEPT !.at = "idle"]
    <2>1. /\ l \in PooledLink /\ l.at = "idle" /\ l.txn = link[call[c].link].txn
          /\ l.runs = link[call[c].link].runs
      BY <1>2 DEF PooledLink
    <2>2. link' = [link EXCEPT ![call[c].link] = l]
      BY <1>5 DEF PooledInv, PooledTypeOK
    <2> HIDE DEF l
    <2>3. ~Discarding(c) /\ "DB_QUERY_ERROR" \in Failures
      BY <1>3 DEF Discarding, Failures
    <2>4. GivesUp(c, call[c].link)
      BY <1>1, <1>3, <1>5, <2>1, <2>2, <2>3, HolderSettles
    <2> QED BY <1>1, <2>4, StepKeeps
  <1> QED BY <1>4, <1>5 DEF SchemaSet

(* The session a call gives back, once its transaction is over or what it  *)
(* ran has come to its end.                                                *)
LEMMA GaveBack ==
  ASSUME PooledTypeOK, NEW c \in Calls, call[c].link \in Links
  PROVE  /\ \E l \in PooledLink :
              /\ [GiveBack(c) EXCEPT ![call[c].link].txn = FALSE] = [link EXCEPT ![call[c].link] = l]
              /\ Discarding(c) => l.at = "destroyed"
              /\ ~Discarding(c) => l.at = "idle"
              /\ l.txn = FALSE /\ l.runs = link[call[c].link].runs
         /\ \E l \in PooledLink :
              /\ [GiveBack(c) EXCEPT ![call[c].link].runs = "nothing"] = [link EXCEPT ![call[c].link] = l]
              /\ Discarding(c) => l.at = "destroyed"
  <1> DEFINE k == call[c].link
  <1>1. PICK l \in PooledLink :
           /\ GiveBack(c) = [link EXCEPT ![k] = l]
           /\ Discarding(c) => l.at = "destroyed"
           /\ ~Discarding(c) => l.at = "idle"
           /\ l.runs = link[k].runs
    BY GiveBackTyped
  <1> DEFINE t == [l EXCEPT !.txn = FALSE]
             u == [l EXCEPT !.runs = "nothing"]
  <1>2. t \in PooledLink /\ t.at = l.at /\ t.txn = FALSE /\ t.runs = l.runs
    BY DEF PooledLink
  <1>3. u \in PooledLink /\ u.at = l.at
    BY DEF PooledLink
  <1>4. GiveBack(c)[k] = l /\ DOMAIN link = Links /\ DOMAIN GiveBack(c) = Links
    BY <1>1 DEF PooledTypeOK
  <1>5. /\ [GiveBack(c) EXCEPT ![k].txn = FALSE] = [GiveBack(c) EXCEPT ![k] = t]
        /\ [GiveBack(c) EXCEPT ![k].runs = "nothing"] = [GiveBack(c) EXCEPT ![k] = u]
    BY <1>4
  <1> HIDE DEF t, u
  <1>6. /\ [GiveBack(c) EXCEPT ![k] = t] = [link EXCEPT ![k] = t]
        /\ [GiveBack(c) EXCEPT ![k] = u] = [link EXCEPT ![k] = u]
    BY <1>1, <1>4
  <1>7. \E m \in PooledLink :
              /\ [GiveBack(c) EXCEPT ![call[c].link].txn = FALSE] = [link EXCEPT ![call[c].link] = m]
              /\ Discarding(c) => m.at = "destroyed"
              /\ ~Discarding(c) => m.at = "idle"
              /\ m.txn = FALSE /\ m.runs = link[call[c].link].runs
    BY <1>1, <1>2, <1>5, <1>6, Zenon
  <1>8. \E m \in PooledLink :
              /\ [GiveBack(c) EXCEPT ![call[c].link].runs = "nothing"] = [link EXCEPT ![call[c].link] = m]
              /\ Discarding(c) => m.at = "destroyed"
    BY <1>1, <1>3, <1>5, <1>6, Zenon
  <1> QED BY <1>7, <1>8

(* The session of c after w, n and q are put in it.                        *)
LEMMA LinkPut ==
  ASSUME PooledTypeOK, NEW k \in Links, NEW w \in {"nothing", "statement", "killed"},
         NEW x \in BOOLEAN, NEW n \in BOOLEAN
  PROVE  \E l \in PooledLink :
           /\ [link EXCEPT ![k].txn = x, ![k].runs = w, ![k].known = n] = [link EXCEPT ![k] = l]
           /\ l.at = link[k].at /\ l.runs = w /\ l.txn = x
  <1> DEFINE l == [link[k] EXCEPT !.txn = x, !.runs = w, !.known = n]
  <1>1. link[k] \in PooledLink
    BY DEF PooledTypeOK
  <1>2. l \in PooledLink /\ l.at = link[k].at /\ l.runs = w /\ l.txn = x
    BY <1>1 DEF PooledLink
  <1>3. [link EXCEPT ![k].txn = x, ![k].runs = w, ![k].known = n] = [link EXCEPT ![k] = l]
    BY DEF PooledTypeOK
  <1> HIDE DEF l
  <1> QED BY <1>2, <1>3, Zenon

(* Oracle's or MySQL's transaction is begun, and the statement sent.       *)
LEMMA BeginKeeps ==
  ASSUME PooledInv, NEW c \in Calls, ReadOnlyBegun(c) \/ ReadOnlyFails(c) PROVE PooledInv'
  <1>1. /\ call[c].pc \in LinkHeld /\ call[c].pc = "begin" /\ UNCHANGED <<brand, kills, pool, made>>
        /\ pool \in Nat /\ made \in Nat
    BY DEF ReadOnlyBegun, ReadOnlyFails, linkVars, LinkHeld, PooledInv, PooledTypeOK
  <1>2. /\ call[c] \in PooledCall /\ call[c].link \in Links /\ call[c].link # NoLink
        /\ link[call[c].link] \in PooledLink /\ link[call[c].link].at = "busy"
        /\ call[c].cancelled => call[c].aborted
    BY <1>1, Holder
  <1>3. CASE ReadOnlyBegun(c)
    <2> DEFINE p == IF Mysql THEN "id" ELSE "statement"
               w == IF Mysql THEN "nothing" ELSE "statement"
               r == [call[c] EXCEPT !.pc = p]
               l == [link[call[c].link] EXCEPT !.txn = TRUE, !.runs = w]
    <2>1. /\ p \in {"id", "statement"} /\ w \in {"nothing", "statement"}
          /\ p # "statement" => w = "nothing"
      OBVIOUS
    <2>2. /\ call' = [call EXCEPT ![c].pc = p]
          /\ link' = [link EXCEPT ![call[c].link].txn = TRUE, ![call[c].link].runs = w]
      BY <1>3 DEF ReadOnlyBegun
    <2> HIDE DEF p, w
    <2>3. /\ r \in PooledCall /\ r.pc = p /\ r.link = call[c].link
          /\ r.cancelled = call[c].cancelled /\ r.aborted = call[c].aborted
          /\ r.timedOut = call[c].timedOut
      BY <1>2, <2>1 DEF PooledCall
    <2>4. l \in PooledLink /\ l.at = link[call[c].link].at /\ l.runs = w
      BY <1>2, <2>1 DEF PooledLink
    <2>5. call' = [call EXCEPT ![c] = r] /\ link' = [link EXCEPT ![call[c].link] = l]
      BY <2>2 DEF PooledInv, PooledTypeOK
    <2> HIDE DEF r, l
    <2>6. r.pc \in LinkHeld \ {"schema"}
      BY <2>1, <2>3 DEF LinkHeld
    <2>7. GoesOn(c, call[c].link)
      BY <1>1, <1>2, <2>1, <2>3, <2>4, <2>5, <2>6, HolderGoesOn
    <2> QED BY <1>1, <2>7, StepKeeps
  <1>4. CASE ReadOnlyFails(c)
    <2>1. OnError(c) /\ call[c].pc \in LinkHeld \ {"statement"}
      BY <1>1, <1>4 DEF ReadOnlyFails
    <2>2. GivesUp(c, call[c].link) \/ GoesOn(c, call[c].link)
      BY <1>1, <2>1, OnErrorKeeps
    <2> QED BY <1>1, <2>2, StepKeeps
  <1> QED BY <1>3, <1>4

(* The statement is sent, with a KILL behind it when the signal has        *)
(* already aborted.                                                        *)
LEMMA SendKeeps ==
  ASSUME PooledInv, NEW c \in Calls, ReadConnectionId(c) PROVE PooledInv'
  <1>1. /\ call[c].pc \in LinkHeld /\ call[c].pc = "id" /\ UNCHANGED <<brand, pool, made>>
        /\ pool \in Nat /\ made \in Nat /\ Mysql
    BY DEF ReadConnectionId, linkVars, LinkHeld, PooledInv, PooledTypeOK
  <1>2. /\ call[c] \in PooledCall /\ call[c].link \in Links /\ call[c].link # NoLink
        /\ link[call[c].link] \in PooledLink /\ link[call[c].link].at = "busy"
        /\ call[c].cancelled => call[c].aborted
    BY <1>1, Holder
  <1>3. PICK known \in BOOLEAN : SendStatement(c, known)
    BY DEF ReadConnectionId
  <1> DEFINE late == known /\ call[c].aborted
             h == known /\ ~late
             r == [call[c] EXCEPT !.pc = "statement", !.listening = h, !.cancelled = late]
             l == [link[call[c].link] EXCEPT !.runs = "statement", !.known = known]
  <1>4. /\ call' = [call EXCEPT ![c].pc = "statement", ![c].listening = h, ![c].cancelled = late]
        /\ link' = [link EXCEPT ![call[c].link].runs = "statement", ![call[c].link].known = known]
        /\ kills' = IF late THEN kills \cup {call[c].link} ELSE kills
    BY <1>3 DEF SendStatement
  <1>5. late \in BOOLEAN /\ h \in BOOLEAN /\ (late => call[c].aborted)
    OBVIOUS
  <1> HIDE DEF late, h
  <1>6. /\ r \in PooledCall /\ r.pc = "statement" /\ r.link = call[c].link
        /\ r.cancelled = late /\ r.aborted = call[c].aborted
        /\ r.timedOut = call[c].timedOut
    BY <1>2, <1>5 DEF PooledCall
  <1>7. l \in PooledLink /\ l.at = link[call[c].link].at
    BY <1>2, <1>3 DEF PooledLink
  <1>8. call' = [call EXCEPT ![c] = r] /\ link' = [link EXCEPT ![call[c].link] = l]
    BY <1>4 DEF PooledInv, PooledTypeOK
  <1> HIDE DEF r, l
  <1>9. /\ r.pc \in LinkHeld \ {"schema"} /\ r.pc = "statement"
        /\ l.at = "busy" /\ (call[c].timedOut => r.timedOut) /\ (call[c].aborted => r.aborted)
    BY <1>2, <1>6, <1>7 DEF LinkHeld
  <1>10. /\ r.cancelled => r.aborted
         /\ kills' \in {kills, kills \cup {call[c].link}}
         /\ kills' # kills => r.cancelled
    BY <1>4, <1>5, <1>6
  <1>11. GoesOn(c, call[c].link)
    BY <1>1, <1>6, <1>7, <1>8, <1>9, <1>10, HolderGoesOn
  <1> QED BY <1>1, <1>11, StepKeeps

(* The statement answers or fails.                                         *)
LEMMA AnswerKeeps ==
  ASSUME PooledInv, NEW c \in Calls, RowsArrive(c) \/ StatementErrors(c) PROVE PooledInv'
  <1>1. /\ call[c].pc \in LinkHeld /\ call[c].pc = "statement" /\ UNCHANGED <<brand, kills, pool, made>>
        /\ pool \in Nat /\ made \in Nat
    BY DEF RowsArrive, StatementErrors, linkVars, LinkHeld, PooledInv, PooledTypeOK
  <1>2. /\ call[c] \in PooledCall /\ call[c].link \in Links /\ call[c].link # NoLink
        /\ link[call[c].link] \in PooledLink /\ link[call[c].link].at = "busy"
        /\ call[c].cancelled => call[c].aborted
    BY <1>1, Holder
  <1>3. \/ \E o \in Failures :
             /\ Discarding(c) /\ call' = Settle(c, o)
             /\ link' = [GiveBack(c) EXCEPT ![call[c].link].runs = "nothing"]
        \/ \E p \in {"commit", "rollback"} :
             call' = [call EXCEPT ![c].pc = p] /\ link' = [link EXCEPT ![call[c].link].runs = "nothing"]
    <2>1. CASE RowsArrive(c)
      BY <2>1 DEF RowsArrive, Failures, Discarding
    <2>2. CASE StatementErrors(c)
      BY <2>2, FailureTyped DEF StatementErrors
    <2> QED BY <2>1, <2>2
  <1>4. ASSUME NEW o \in Failures, Discarding(c), call' = Settle(c, o),
               link' = [GiveBack(c) EXCEPT ![call[c].link].runs = "nothing"]
        PROVE  PooledInv'
    <2>1. PICK l \in PooledLink : link' = [link EXCEPT ![call[c].link] = l] /\ l.at = "destroyed"
      BY <1>2, <1>4, GaveBack, Zenon DEF PooledInv
    <2>2. GivesUp(c, call[c].link)
      BY <1>1, <1>4, <2>1, HolderSettles
    <2> QED BY <1>1, <2>2, StepKeeps
  <1>5. ASSUME NEW p \in {"commit", "rollback"}, call' = [call EXCEPT ![c].pc = p],
               link' = [link EXCEPT ![call[c].link].runs = "nothing"]
        PROVE  PooledInv'
    <2> DEFINE r == [call[c] EXCEPT !.pc = p]
               l == [link[call[c].link] EXCEPT !.runs = "nothing"]
    <2>1. /\ r \in PooledCall /\ r.pc = p /\ r.link = call[c].link
          /\ r.cancelled = call[c].cancelled /\ r.aborted = call[c].aborted
          /\ r.timedOut = call[c].timedOut
      BY <1>2 DEF PooledCall
    <2>2. l \in PooledLink /\ l.at = link[call[c].link].at /\ l.runs = "nothing"
      BY <1>2 DEF PooledLink
    <2>3. call' = [call EXCEPT ![c] = r] /\ link' = [link EXCEPT ![call[c].link] = l]
      BY <1>5 DEF PooledInv, PooledTypeOK
    <2> HIDE DEF r, l
    <2>4. r.pc \in LinkHeld \ {"schema"}
      BY <2>1 DEF LinkHeld
    <2>5. GoesOn(c, call[c].link)
      BY <1>1, <1>2, <2>1, <2>2, <2>3, <2>4, HolderGoesOn
    <2> QED BY <1>1, <2>5, StepKeeps
  <1> QED BY <1>3, <1>4, <1>5, Zenon

(* The transaction is over and the session given back or destroyed.        *)
LEMMA EndKeeps ==
  ASSUME PooledInv, NEW c \in Calls, CommitSent(c) \/ RolledBack(c) PROVE PooledInv'
  <1>1. /\ call[c].pc \in LinkHeld \ {"statement"} /\ UNCHANGED <<brand, kills, pool, made>>
        /\ pool \in Nat /\ made \in Nat
    BY DEF CommitSent, RolledBack, linkVars, LinkHeld, PooledInv, PooledTypeOK
  <1>2. call[c].link \in Links /\ link[call[c].link].runs = "nothing"
    BY <1>1, Holder DEF PooledInv, RunInv
  <1>3. \E o \in Failures : call' = Settle(c, o)
    BY FailureTyped DEF CommitSent, RolledBack, Failures
  <1>4. link' = [GiveBack(c) EXCEPT ![call[c].link].txn = FALSE]
    BY DEF CommitSent, RolledBack
  <1>5. PICK l \in PooledLink : /\ link' = [link EXCEPT ![call[c].link] = l]
                                /\ Discarding(c) => l.at = "destroyed"
                                /\ ~Discarding(c) => l.at = "idle"
                                /\ l.txn = FALSE /\ l.runs = link[call[c].link].runs
    BY <1>2, <1>4, GaveBack, Zenon DEF PooledInv
  <1>6. GivesUp(c, call[c].link)
    BY <1>1, <1>2, <1>3, <1>5, HolderSettles
  <1> QED BY <1>1, <1>6, StepKeeps

(* MySQL's deadline fires.                                                 *)
LEMMA TimerKeeps ==
  ASSUME PooledInv, NEW c \in Calls, TimerFires(c) PROVE PooledInv'
  <1>1. /\ call[c].pc \in LinkHeld \ {"schema"} /\ UNCHANGED <<brand, pool, made>>
        /\ pool \in Nat /\ made \in Nat /\ Mysql
        /\ kills' \in {kills, kills \cup {call[c].link}}
    BY DEF TimerFires, DeadlineKills, linkVars, LinkHeld, PooledInv, PooledTypeOK
  <1>2. /\ call[c] \in PooledCall /\ call[c].link \in Links /\ call[c].link # NoLink
        /\ link[call[c].link] \in PooledLink /\ link[call[c].link].at = "busy"
        /\ call[c].cancelled => call[c].aborted
    BY <1>1, Holder
  <1>3. CASE call[c].pc = "statement"
    <2> DEFINE o == IF AbortSeen(c) THEN "CANCELLED" ELSE "DB_TIMEOUT"
               r == [call[c] EXCEPT !.timedOut = TRUE, !.pc = "done", !.link = NoLink,
                                    !.listening = FALSE, !.out = o]
               l == [link[call[c].link] EXCEPT !.at = "destroyed"]
    <2>1. /\ call' = [[call EXCEPT ![c].timedOut = TRUE] EXCEPT
                         ![c].pc = "done", ![c].link = NoLink, ![c].listening = FALSE, ![c].out = o]
          /\ link' = [link EXCEPT ![call[c].link].at = "destroyed"]
      BY <1>3 DEF TimerFires
    <2>2. o \in {"CANCELLED", "DB_TIMEOUT"}
      OBVIOUS
    <2> HIDE DEF o
    <2>3. /\ r \in PooledCall /\ r.pc = "done" /\ r.link = NoLink /\ r.listening = FALSE
          /\ r.cancelled = call[c].cancelled /\ r.aborted = call[c].aborted
      BY <1>2, <2>2 DEF PooledCall
    <2>4. l \in PooledLink /\ l.at = "destroyed"
      BY <1>2 DEF PooledLink
    <2>5. call' = [call EXCEPT ![c] = r] /\ link' = [link EXCEPT ![call[c].link] = l]
      BY <2>1 DEF PooledInv, PooledTypeOK
    <2> HIDE DEF r, l
    <2>6. /\ call' \in [Calls -> PooledCall] /\ call'[c] = r
          /\ \A d \in Calls : d # c => call'[d] = call[d]
      BY <2>3, <2>5, CallTyped DEF PooledInv
    <2>7. /\ link' \in [Links -> PooledLink] /\ link'[call[c].link] = l
          /\ \A j \in Links : j # call[c].link => link'[j] = link[j]
      BY <1>2, <2>4, <2>5, LinkTyped DEF PooledInv
    <2>8. GivesUp(c, call[c].link)
      BY <1>1, <1>2, <2>3, <2>4, <2>6, <2>7 DEF GivesUp, OneCall, OneLink
    <2> QED BY <1>1, <2>8, StepKeeps
  <1>4. CASE call[c].pc # "statement"
    <2> DEFINE r == [call[c] EXCEPT !.timedOut = TRUE]
    <2>1. call' = [call EXCEPT ![c].timedOut = TRUE] /\ UNCHANGED link
      BY <1>4 DEF TimerFires
    <2>2. /\ r \in PooledCall /\ r.pc = call[c].pc /\ r.link = call[c].link
          /\ r.cancelled = call[c].cancelled /\ r.aborted = call[c].aborted
          /\ r.timedOut = TRUE
      BY <1>2 DEF PooledCall
    <2>3. call' = [call EXCEPT ![c] = r] /\ link' = [link EXCEPT ![call[c].link] = link[call[c].link]]
      BY <2>1 DEF PooledInv, PooledTypeOK
    <2> HIDE DEF r
    <2>4. link[call[c].link].runs = "nothing" /\ r.timedOut /\ r.pc \in LinkHeld \ {"schema"}
      BY <1>1, <1>4, <2>2 DEF PooledInv, RunInv
    <2>5. GoesOn(c, call[c].link)
      BY <1>1, <1>2, <2>2, <2>3, <2>4, HolderGoesOn
    <2> QED BY <1>1, <2>5, StepKeeps
  <1> QED BY <1>3, <1>4

(* The caller's signal aborts, before, during or after the hold.           *)
LEMMA SignalKeeps ==
  ASSUME PooledInv, NEW c \in Calls, SignalAborts(c) PROVE PooledInv'
  <1> DEFINE h == call[c].listening
             w == h \/ call[c].cancelled
             r == [call[c] EXCEPT !.aborted = TRUE, !.cancelled = w]
  <1>1. /\ call[c] \in PooledCall /\ UNCHANGED <<brand, pool, made>> /\ pool \in Nat /\ made \in Nat
        /\ call' = [call EXCEPT ![c].aborted = TRUE, ![c].cancelled = w]
    BY DEF SignalAborts, linkVars, PooledInv, PooledTypeOK
  <1>2. w \in BOOLEAN
    BY <1>1 DEF PooledCall
  <1> HIDE DEF w
  <1>3. /\ r \in PooledCall /\ r.pc = call[c].pc /\ r.link = call[c].link /\ r.aborted = TRUE
        /\ r.listening = call[c].listening /\ r.timedOut = call[c].timedOut
    BY <1>1, <1>2 DEF PooledCall
  <1>4. call' = [call EXCEPT ![c] = r]
    BY <1>1 DEF PooledInv, PooledTypeOK
  <1> HIDE DEF r
  <1>5. /\ call' \in [Calls -> PooledCall] /\ call'[c] = r
        /\ \A d \in Calls : d # c => call'[d] = call[d]
    BY <1>3, <1>4, CallTyped DEF PooledInv
  <1>6. CASE call[c].pc \notin LinkHeld
    <2>1. call[c].link = NoLink /\ call[c].listening = FALSE
      BY <1>1, <1>6 DEF PooledInv, HoldInv, PooledCall
    <2>2. UNCHANGED <<link, kills>>
      BY <2>1 DEF SignalAborts
    <2>3. Aside(c)
      BY <1>1, <1>3, <1>5, <1>6, <2>1, <2>2 DEF Aside, OneCall
    <2> QED BY <1>1, <2>3, StepKeeps
  <1>7. CASE call[c].pc \in LinkHeld
    <2>1. /\ call[c].link \in Links /\ call[c].link # NoLink
          /\ link[call[c].link] \in PooledLink /\ link[call[c].link].at = "busy"
      BY <1>7, Holder
    <2>2. kills' \in {kills, kills \cup {call[c].link}} /\ (kills' # kills => Mysql)
      BY DEF SignalAborts
    <2>3. \E l \in PooledLink : /\ link' = [link EXCEPT ![call[c].link] = l]
                                /\ l.at = "busy" /\ l.txn = link[call[c].link].txn
                                /\ link[call[c].link].runs = "nothing" => l.runs = "nothing"
      <3>1. CASE UNCHANGED link
        <4>1. link' = [link EXCEPT ![call[c].link] = link[call[c].link]]
          BY <3>1 DEF PooledInv, PooledTypeOK
        <4> QED BY <2>1, <4>1, Zenon
      <3>2. CASE /\ link[call[c].link].runs = "statement"
                 /\ link' = [link EXCEPT ![call[c].link].runs = "killed"]
        <4> DEFINE l == [link[call[c].link] EXCEPT !.runs = "killed"]
        <4>1. l \in PooledLink /\ l.at = "busy" /\ l.txn = link[call[c].link].txn
          BY <2>1 DEF PooledLink
        <4>2. link' = [link EXCEPT ![call[c].link] = l] /\ link[call[c].link].runs # "nothing"
          BY <3>2 DEF PooledInv, PooledTypeOK
        <4> HIDE DEF l
        <4> QED BY <4>1, <4>2, Zenon
      <3> QED BY <3>1, <3>2 DEF SignalAborts
    <2>4. PICK l \in PooledLink : /\ link' = [link EXCEPT ![call[c].link] = l]
                                  /\ l.at = "busy" /\ l.txn = link[call[c].link].txn
                                  /\ link[call[c].link].runs = "nothing" => l.runs = "nothing"
      BY <2>3
    <2>5. /\ link' \in [Links -> PooledLink] /\ link'[call[c].link] = l
          /\ \A j \in Links : j # call[c].link => link'[j] = link[j]
      BY <2>1, <2>4, LinkTyped DEF PooledInv
    <2>6. OneCall(c) /\ OneLink(call[c].link)
      BY <1>1, <1>5, <2>2, <2>5, Zenon DEF OneCall, OneLink
    <2>7. /\ call'[c].pc # "statement" => link'[call[c].link].runs = "nothing"
          /\ call'[c].pc = "schema" => ~Mysql' /\ ~link'[call[c].link].txn
      <3>1. /\ call[c].pc # "statement" => link[call[c].link].runs = "nothing"
            /\ call[c].pc = "schema" => ~Mysql /\ ~link[call[c].link].txn
        BY <1>7 DEF PooledInv, RunInv
      <3> QED BY <1>1, <1>3, <1>5, <2>4, <2>5, <3>1 DEF Mysql
    <2>8. kills' # kills \/ Discarding(c) => Discarding(c)'
      BY <1>1, <1>3, <1>5, <2>2 DEF Discarding, AbortSeen, Mysql
    <2>9. GoesOn(c, call[c].link)
      BY <1>3, <1>5, <1>7, <2>1, <2>4, <2>5, <2>6, <2>7, <2>8 DEF GoesOn
    <2> QED BY <1>1, <1>7, <2>9, StepKeeps
  <1> QED BY <1>6, <1>7

(* connect(), close() and the steps of a pool that comes or goes.          *)
LEMMA PoolsKeep ==
  ASSUME PooledInv, UNCHANGED <<brand, call, link, kills>>, pool' \in Nat, made' \in Nat
  PROVE  PooledInv'
  BY DEF PooledInv, PooledTypeOK, HoldInv, RunInv, KillInv, QuietInv, Discarding, AbortSeen, Mysql

(* Every step of the MySQL and the Oracle connector keeps the invariant.   *)
LEMMA PooledPreserved == PooledInv /\ [PooledNext]_pooledVars => PooledInv'
  <1> SUFFICES ASSUME PooledInv, [PooledNext]_pooledVars PROVE PooledInv'
    OBVIOUS
  <1>1. pool \in Nat /\ made \in Nat
    BY DEF PooledInv, PooledTypeOK
  <1>2. CASE ConnectHost \/ HostSeesFailure \/ CloseStarts \/ CloseEnds \/ Settled \/ UNCHANGED pooledVars
    <2>1. UNCHANGED <<brand, call, link, kills>> /\ pool' \in Nat /\ made' \in Nat
      BY <1>1, <1>2 DEF ConnectHost, HostSeesFailure, CloseStarts, CloseEnds, Settled, pooledVars, linkVars
    <2> QED BY <2>1, PoolsKeep
  <1>3. ASSUME NEW p \in Calls \cup {Host}, CreatePool(p) \/ VerifyPool(p) PROVE PooledInv'
    <2>1. UNCHANGED <<brand, call, link, kills>> /\ pool' \in Nat /\ made' \in Nat
      BY <1>1, <1>3 DEF CreatePool, VerifyPool
    <2> QED BY <2>1, PoolsKeep
  <1>4. ASSUME NEW c \in Calls,
               \/ ExecuteStarts(c) \/ EnsureEnds(c) \/ DriverThere(c) \/ LinkRefused(c) \/ SchemaSet(c)
               \/ ReadOnlyBegun(c) \/ ReadOnlyFails(c) \/ ReadConnectionId(c) \/ RowsArrive(c)
               \/ StatementErrors(c) \/ TimerFires(c) \/ CommitSent(c) \/ RolledBack(c) \/ SignalAborts(c)
               \/ \E k \in Links : LinkGiven(c, k)
        PROVE  PooledInv'
    BY <1>4, BeforeKeeps, SchemaKeeps, BeginKeeps, SendKeeps, AnswerKeeps, TimerKeeps, EndKeeps,
       SignalKeeps, GivenKeeps, Zenon
  <1>5. ASSUME NEW k \in Links, KillRuns(k) \/ KillLost(k) \/ Abandoned(k) PROVE PooledInv'
    BY <1>5, ServerKeeps
  <1> QED BY <1>2, <1>3, <1>4, <1>5, Zenon DEF PooledNext

(* A session a KILL is under way to is held by a call or destroyed, so it  *)
(* is not idle.                                                            *)
LEMMA PooledQuiet == PooledInv => IdleIsQuiet
  <1> SUFFICES ASSUME PooledInv, NEW k \in Links, link[k].at = "idle"
               PROVE  ~link[k].txn /\ link[k].runs = "nothing" /\ k \notin kills
    BY DEF IdleIsQuiet
  <1>1. ~link[k].txn /\ link[k].runs = "nothing"
    BY DEF PooledInv, QuietInv
  <1>2. ASSUME k \in kills PROVE FALSE
    <2>1. PICK c \in Calls : call[c].link = k
      BY <1>2 DEF PooledInv, KillInv
    <2>2. k # NoLink
      BY DEF Links, NoLink
    <2> QED BY <2>1, <2>2 DEF PooledInv, HoldInv
  <1> QED BY <1>1, <1>2

(* A session MySQL's or Oracle's execute() has given back to its pool has  *)
(* no transaction open, runs nothing and has no KILL under way, for any    *)
(* number of calls, sessions and pools.                                    *)
THEOREM IdleQuietCorrect == PooledSpec => []IdleIsQuiet
  <1>1. PooledInit => PooledInv
    BY PooledInitial
  <1>2. PooledInv /\ [PooledNext]_pooledVars => PooledInv'
    BY PooledPreserved
  <1>3. PooledInv => IdleIsQuiet
    BY PooledQuiet
  <1> QED BY <1>1, <1>2, <1>3, PTL DEF PooledSpec

-----------------------------------------------------------------------------
(* DuckDB.                                                                 *)

(* The DuckDB connector before the first query.                            *)
LEMMA DuckInitial == EmbeddedInit => DuckInv
  <1> SUFFICES ASSUME EmbeddedInit, store = "duckdb"
               PROVE  DuckSafe
    BY DEF DuckInv
  <1>1. /\ queue = <<>> /\ hits = {}
        /\ query \in [Queries -> {NewQuery, [NewQuery EXCEPT !.aborted = TRUE]}]
    BY DEF EmbeddedInit
  <1>2. \A q \in Queries : query[q] = NewQuery \/ query[q] = [NewQuery EXCEPT !.aborted = TRUE]
    BY <1>1
  <1>3. NewQuery \in DuckQuery
    BY DEF NewQuery, DuckQuery
  <1>6. [NewQuery EXCEPT !.aborted = TRUE] \in DuckQuery
    BY <1>3 DEF DuckQuery
  <1>5. DuckTypeOK
    <2>1. {NewQuery, [NewQuery EXCEPT !.aborted = TRUE]} \subseteq DuckQuery
      BY <1>3, <1>6, Zenon
    <2>2. query \in [Queries -> DuckQuery]
      BY <1>1, <2>1, Zenon
    <2>3. queue \in Seq(Queries)
      BY <1>1
    <2> QED BY <2>2, <2>3, Zenon DEF DuckTypeOK
  <1>4. ArmedInv /\ OrderInv
    BY <1>2 DEF ArmedInv, OrderInv, Sent, Taken, NewQuery
  <1> QED BY <1>1, <1>4, <1>5 DEF DuckSafe, InterruptHitsOwn

(* Two queued queries stand in one order.                                  *)
LEMMA QueueTotal ==
  ASSUME queue \in Seq(Queries), NEW q \in Queries, NEW d \in Queries, q # d, InQueue(q), InQueue(d)
  PROVE  q \in Earlier(d) \/ d \in Earlier(q)
  <1>1. PICK i \in 1..Len(queue) : queue[i] = q
    BY DEF InQueue
  <1>2. PICK j \in 1..Len(queue) : queue[j] = d
    BY DEF InQueue
  <1>3. CASE i < j
    <2>1. j \in (i + 1)..Len(queue)
      BY <1>3
    <2> QED BY <1>1, <1>2, <2>1 DEF Earlier
  <1>4. CASE j < i
    <2>1. i \in (j + 1)..Len(queue)
      BY <1>4
    <2> QED BY <1>1, <1>2, <2>1 DEF Earlier
  <1>5. i # j
    BY <1>1, <1>2
  <1> QED BY <1>3, <1>4, <1>5

(* A query that joins the queue leaves the order of the others alone.      *)
LEMMA QueueAppend ==
  ASSUME queue \in Seq(Queries), NEW p \in Queries, queue' = Append(queue, p)
  PROVE  /\ InQueue(p)'
         /\ \A q \in Queries : InQueue(q) => InQueue(q)'
         /\ \A q \in Queries : q # p => Earlier(q)' = Earlier(q)
  <1>1. /\ Len(queue') = Len(queue) + 1 /\ Len(queue) \in Nat
        /\ queue'[Len(queue) + 1] = p
        /\ \A i \in 1..Len(queue) : queue'[i] = queue[i]
    OBVIOUS
  <1>2. InQueue(p)' /\ \A q \in Queries : InQueue(q) => InQueue(q)'
    BY <1>1 DEF InQueue
  <1>3. ASSUME NEW q \in Queries, q # p PROVE Earlier(q)' = Earlier(q)
    <2>1. ASSUME NEW i \in 1..Len(queue'), NEW k \in (i + 1)..Len(queue'), queue'[k] = q
          PROVE  i \in 1..Len(queue) /\ k \in (i + 1)..Len(queue) /\ queue[k] = q /\ queue'[i] = queue[i]
      BY <1>1, <1>3, <2>1
    <2>2. ASSUME NEW i \in 1..Len(queue), NEW k \in (i + 1)..Len(queue), queue[k] = q
          PROVE  i \in 1..Len(queue') /\ k \in (i + 1)..Len(queue') /\ queue'[k] = q /\ queue'[i] = queue[i]
      BY <1>1, <2>2
    <2>3. \A d : d \in Earlier(q)' => d \in Earlier(q)
      BY <2>1 DEF Earlier
    <2>4. \A d : d \in Earlier(q) => d \in Earlier(q)'
      BY <2>2 DEF Earlier
    <2> QED BY <2>3, <2>4
  <1> QED BY <1>2, <1>3

(* The queries ahead of another are queries.                               *)
LEMMA EarlierQueries ==
  ASSUME queue \in Seq(Queries), NEW q
  PROVE  Earlier(q) \subseteq Queries
  BY DEF Earlier

(* A step that gives one query another record.                             *)
LEMMA QueryTyped ==
  ASSUME DuckTypeOK, NEW q \in Queries, NEW r \in DuckQuery, query' = [query EXCEPT ![q] = r],
         queue' \in Seq(Queries)
  PROVE  DuckTypeOK' /\ query'[q] = r /\ \A d \in Queries : d # q => query'[d] = query[d]
  BY Zenon DEF DuckTypeOK

(* The record of a query that settles.                                     *)
LEMMA EndsTyped ==
  ASSUME DuckTypeOK, NEW q \in Queries,
         NEW o \in {"rows", "CANCELLED", "DB_UNREACHABLE", "DB_QUERY_ERROR", "DB_TIMEOUT"}
  PROVE  \E r \in DuckQuery : /\ Ends(q, o) = [query EXCEPT ![q] = r]
                              /\ r.pc = "done" /\ r.listening = FALSE
                              /\ r.timer = query[q].timer /\ r.stmt = query[q].stmt
  <1> DEFINE r == [query[q] EXCEPT !.pc = "done", !.out = o, !.listening = FALSE]
  <1>1. query[q] \in DuckQuery
    BY DEF DuckTypeOK
  <1>2. /\ r \in DuckQuery /\ r.pc = "done" /\ r.listening = FALSE
        /\ r.timer = query[q].timer /\ r.stmt = query[q].stmt
    BY <1>1 DEF DuckQuery
  <1>3. Ends(q, o) = [query EXCEPT ![q] = r]
    BY DEF Ends, DuckTypeOK
  <1> QED BY <1>2, <1>3, Zenon

(* What a step that changes one query has to keep.                         *)
OneQuery(q) ==
  /\ UNCHANGED queue /\ \A d \in Queries : d # q => query'[d] = query[d]
  /\ query[q].pc = "done" => query'[q].pc = "done"
  /\ query'[q].timer \/ query'[q].listening => Taken(q)' \/ query'[q].stmt = "sent"
  /\ query'[q].pc \in {"start", "queued", "prepare"} => ~Sent(q)'
  /\ query'[q].pc \in {"queued", "prepare"} \/ Sent(q)' => InQueue(q)
  /\ query'[q].pc = "prepare" \/ Sent(q)' => \A d \in Earlier(q) : query[d].pc = "done"
  /\ query'[q].stmt = "sent" => query[q].stmt = "sent" \/ query[q].pc = "prepare"
  /\ Taken(q)' => \/ Taken(q)
                  \/ /\ \A d \in Earlier(q) : query[d].stmt # "sent"
                     /\ \A d \in Queries : ~Taken(d)

(* A step that changes one query like that keeps the invariant.            *)
LEMMA QueryStep ==
  ASSUME DuckTypeOK, ArmedInv, OrderInv, NEW q \in Queries, OneQuery(q)
  PROVE  ArmedInv' /\ OrderInv'
  <1> USE DEF OneQuery
  <1>1. \A r \in Queries : Earlier(r)' = Earlier(r) /\ (InQueue(r)' <=> InQueue(r)) /\ Earlier(r) \subseteq Queries
    BY EarlierQueries DEF Earlier, InQueue, DuckTypeOK
  <1>2. \A d \in Queries : d # q => (Sent(d)' <=> Sent(d)) /\ (Taken(d)' <=> Taken(d))
    BY DEF Sent, Taken
  <1>3. ArmedInv'
    BY <1>1, <1>2 DEF ArmedInv
  <1>4. ASSUME NEW r \in Queries, query'[r].pc = "prepare" \/ Sent(r)', NEW d \in Earlier(r)
        PROVE  query'[d].pc = "done"
    BY <1>1, <1>2, <1>4 DEF OrderInv
  <1>5. ASSUME NEW r \in Queries, Taken(r)', NEW d \in Queries, Taken(d)' PROVE d = r
    BY <1>2, <1>5 DEF OrderInv
  <1>6. ASSUME NEW r \in Queries, Taken(r)', NEW d \in Earlier(r) PROVE query'[d].stmt # "sent"
    <2>1. Taken(r)' => Sent(r)'
      BY DEF Taken, Sent
    <2>2. query[d].pc = "done"
      BY <1>1, <1>2, <1>6, <2>1 DEF OrderInv
    <2>3. d \in Queries
      BY <1>1, <1>6
    <2>4. CASE d # q /\ r # q
      BY <1>2, <1>6, <2>3, <2>4 DEF OrderInv
    <2>5. CASE d # q /\ r = q
      BY <1>2, <1>6, <2>3, <2>5 DEF OrderInv
    <2>6. CASE d = q
      BY <1>2, <1>6, <2>2, <2>6 DEF OrderInv
    <2> QED BY <2>4, <2>5, <2>6
  <1> QED BY <1>1, <1>3, <1>4, <1>5, <1>6 DEF OrderInv

(* Whoever may interrupt owns what is running, if that is still awaited.   *)
LEMMA InterrupterRuns ==
  ASSUME DuckTypeOK, ArmedInv, OrderInv, NEW q \in Queries, query[q].timer \/ query[q].listening,
         NEW d \in Queries, query[d].stmt = "running", query[d].pc # "done"
  PROVE  d = q
  <1> SUFFICES ASSUME d # q PROVE FALSE
    OBVIOUS
  <1>1. Sent(q) /\ Sent(d) /\ Taken(d)
    BY DEF ArmedInv, Sent, Taken
  <1>2. InQueue(q) /\ InQueue(d)
    BY <1>1 DEF ArmedInv
  <1>3. CASE q \in Earlier(d)
    BY <1>1, <1>3 DEF ArmedInv, OrderInv, Taken
  <1>4. CASE d \in Earlier(q)
    BY <1>1, <1>4 DEF OrderInv
  <1> QED BY <1>2, <1>3, <1>4, QueueTotal DEF DuckTypeOK

(* What an interrupt leaves of a query.                                    *)
Stopped(r) == IF r.stmt = "running" THEN [r EXCEPT !.stmt = "interrupted"] ELSE r

(* It is still a query, changed in its statement alone.                    *)
LEMMA StoppedTyped ==
  ASSUME NEW r \in DuckQuery
  PROVE  /\ Stopped(r) \in DuckQuery
         /\ Stopped(r).pc = r.pc /\ Stopped(r).timer = r.timer /\ Stopped(r).listening = r.listening
         /\ r.stmt = "running" => Stopped(r).stmt = "interrupted"
         /\ r.stmt # "running" => Stopped(r).stmt = r.stmt
  BY DEF Stopped, DuckQuery

(* An interrupt of DuckDbConnector keeps the invariant.                    *)
LEMMA InterruptKeeps ==
  ASSUME store = "duckdb", DuckTypeOK, ArmedInv, OrderInv, InterruptHitsOwn, NEW q \in Queries,
         query[q].timer \/ query[q].listening,
         NEW after \in DuckQuery, after.pc = query[q].pc, after.stmt = query[q].stmt,
         after.timer \in {FALSE, query[q].timer}, after.listening \in {FALSE, query[q].listening},
         NEW o \in {"CANCELLED", "DB_TIMEOUT"}, Interrupt(q, after, o), UNCHANGED queue
  PROVE  DuckSafe'
  <1>1. PICK self \in DuckQuery :
          /\ self.pc = "done" /\ self.stmt = query[q].stmt
          /\ self.timer \in {FALSE, query[q].timer} /\ self.listening \in {FALSE, query[q].listening}
          /\ self = IF query[q].pc = "done" THEN after ELSE [after EXCEPT !.pc = "done", !.out = o]
    <2> DEFINE settled == [after EXCEPT !.pc = "done", !.out = o]
    <2>1. /\ settled \in DuckQuery /\ settled.pc = "done" /\ settled.stmt = after.stmt
          /\ settled.timer = after.timer /\ settled.listening = after.listening
      BY DEF DuckQuery
    <2> HIDE DEF settled
    <2>2. CASE query[q].pc = "done"
      BY <2>2, Zenon
    <2>3. CASE query[q].pc # "done"
      <3>1. /\ settled.stmt = query[q].stmt
            /\ settled.timer \in {FALSE, query[q].timer} /\ settled.listening \in {FALSE, query[q].listening}
        BY <2>1
      <3> QED BY <2>1, <2>3, <3>1, Zenon DEF settled
    <2> QED BY <2>2, <2>3
  <1>2. query' = [d \in Queries |-> IF query[d].stmt = "running"
                    THEN [(IF d # q THEN query[d] ELSE self) EXCEPT !.stmt = "interrupted"]
                    ELSE IF d # q THEN query[d] ELSE self]
    BY <1>1, Zenon DEF Interrupt
  <1>a. /\ self \in DuckQuery /\ self.pc = "done" /\ self.stmt = query[q].stmt
        /\ self.timer \in {FALSE, query[q].timer} /\ self.listening \in {FALSE, query[q].listening}
    BY <1>1, Zenon
  <1>3. query'[q] = Stopped(self) /\ \A d \in Queries : d # q => query'[d] = Stopped(query[d])
    BY <1>a, <1>2, Zenon DEF Stopped
  <1>4. \A d \in Queries : query[d] \in DuckQuery
    BY DEF DuckTypeOK
  <1>5. DuckTypeOK'
    <2>1. \A d \in Queries : query'[d] \in DuckQuery
      <3>1. query'[q] \in DuckQuery
        BY <1>a, <1>3, StoppedTyped, Zenon
      <3>2. ASSUME NEW d \in Queries, d # q PROVE query'[d] \in DuckQuery
        BY <1>3, <1>4, <3>2, StoppedTyped, Zenon
      <3> QED BY <3>1, <3>2, Zenon
    <2>2. query' = [d \in Queries |-> query'[d]]
      BY <1>2, Zenon
    <2>3. query' \in [Queries -> DuckQuery]
      BY <2>1, <2>2, Zenon
    <2> QED BY <2>3 DEF DuckTypeOK
  <1>6. \A d \in Queries :
          /\ d # q => query'[d].pc = query[d].pc
          /\ d # q => query'[d].timer = query[d].timer /\ query'[d].listening = query[d].listening
          /\ query[d].stmt = "running" => query'[d].stmt = "interrupted"
          /\ query[d].stmt # "running" => query'[d].stmt = query[d].stmt
    <2> SUFFICES ASSUME NEW d \in Queries
                 PROVE  /\ d # q => query'[d].pc = query[d].pc
                        /\ d # q => query'[d].timer = query[d].timer /\ query'[d].listening = query[d].listening
                        /\ query[d].stmt = "running" => query'[d].stmt = "interrupted"
                        /\ query[d].stmt # "running" => query'[d].stmt = query[d].stmt
      OBVIOUS
    <2>1. CASE d # q
      BY <1>3, <1>4, <2>1, StoppedTyped
    <2>2. CASE d = q
      BY <1>a, <1>3, <2>2, StoppedTyped
    <2> QED BY <2>1, <2>2
  <1>7. /\ query'[q].pc = "done" /\ query'[q].timer \in {FALSE, query[q].timer}
        /\ query'[q].listening \in {FALSE, query[q].listening}
    <2>1. /\ query'[q].pc = self.pc /\ query'[q].timer = self.timer
          /\ query'[q].listening = self.listening
      BY <1>a, <1>3, StoppedTyped, Zenon
    <2> QED BY <1>a, <2>1
  <1>8. \A d \in Queries : (Taken(d)' <=> Taken(d)) /\ (Sent(d)' <=> Sent(d))
    BY <1>6 DEF Taken, Sent
  <1>9. \A d \in Queries : Earlier(d)' = Earlier(d) /\ Earlier(d) \subseteq Queries /\ (InQueue(d)' <=> InQueue(d))
    BY EarlierQueries DEF Earlier, InQueue, DuckTypeOK
  <1>10. ArmedInv'
    BY <1>6, <1>7, <1>8, <1>9 DEF ArmedInv
  <1>11. OrderInv'
    BY <1>6, <1>7, <1>8, <1>9 DEF OrderInv
  <1>12. InterruptHitsOwn'
    <2>1. \A d \in Running : query[d].pc # "done" => d = q
      BY InterrupterRuns DEF Running
    <2>2. hits' = hits \cup {<<q, d>> : d \in {e \in Running : query[e].pc # "done"}}
      BY DEF Interrupt
    <2> QED BY <2>1, <2>2 DEF InterruptHitsOwn
  <1> QED BY <1>5, <1>10, <1>11, <1>12 DEF DuckSafe

(* Every step of the DuckDB connector keeps the invariant.                 *)
LEMMA DuckPreserved == DuckInv /\ [EmbeddedNext]_embeddedVars => DuckInv'
  <1> SUFFICES ASSUME DuckInv, [EmbeddedNext]_embeddedVars, store' = "duckdb"
               PROVE  DuckSafe'
    BY DEF DuckInv
  <1>0. store = "duckdb" /\ UNCHANGED store
    BY DEF EmbeddedNext, embeddedVars, CloseStore, Steps, ExecuteDuck, RunQuery, Prepared,
           StatementStarts, QueryTimeout, ExecuteMongo, HasDb, OpenCursor, FetchFails, StatementOver,
           AbortQuery, FetchDoc, FetchEnds
  <1>a. DuckTypeOK /\ ArmedInv /\ OrderInv /\ InterruptHitsOwn
    BY <1>0 DEF DuckInv, DuckSafe
  <1> USE <1>0, <1>a
  <1>b. ASSUME NEW q \in Queries, UNCHANGED hits, DuckTypeOK', OneQuery(q) PROVE DuckSafe'
    BY <1>b, QueryStep DEF DuckSafe, InterruptHitsOwn
  <1>1. CASE UNCHANGED <<queue, query, hits>>
    BY <1>1 DEF DuckSafe, DuckTypeOK, ArmedInv, OrderInv, InterruptHitsOwn, Sent, Taken, InQueue, Earlier
  <1>2. ASSUME NEW q \in Queries, ExecuteDuck(q) PROVE DuckSafe'
    <2>1. CASE query[q].aborted /\ query' = Ends(q, "CANCELLED") /\ UNCHANGED queue
      <3>1. PICK r \in DuckQuery : /\ query' = [query EXCEPT ![q] = r]
                                   /\ r.pc = "done" /\ r.listening = FALSE
                                   /\ r.timer = query[q].timer /\ r.stmt = query[q].stmt
        BY <2>1, EndsTyped, Zenon
      <3>2. DuckTypeOK' /\ query'[q] = r /\ \A d \in Queries : d # q => query'[d] = query[d]
        BY <2>1, <3>1, QueryTyped DEF DuckTypeOK
      <3>3. OneQuery(q)
        BY <2>1, <3>1, <3>2 DEF OneQuery, ArmedInv, OrderInv, Sent, Taken
      <3> QED BY <1>2, <1>b, <3>2, <3>3 DEF ExecuteDuck
    <2>2. CASE Enqueue(q)
      <3> DEFINE r == [query[q] EXCEPT !.pc = "queued"]
      <3>1. /\ query[q].pc = "start" /\ queue' = Append(queue, q) /\ hits' = hits
            /\ query' = [query EXCEPT ![q] = r]
        BY <1>2, <2>2 DEF ExecuteDuck, Enqueue, DuckTypeOK
      <3>a. /\ r \in DuckQuery /\ r.pc = "queued" /\ r.listening = query[q].listening
            /\ r.timer = query[q].timer /\ r.stmt = query[q].stmt
        <4>1. query[q] \in DuckQuery
          BY DEF DuckTypeOK
        <4> QED BY <4>1 DEF DuckQuery
      <3>b. queue' \in Seq(Queries)
        BY <3>1 DEF DuckTypeOK
      <3> HIDE DEF r
      <3>2. DuckTypeOK' /\ query'[q] = r /\ \A d \in Queries : d # q => query'[d] = query[d]
        BY <3>1, <3>a, <3>b, QueryTyped
      <3>3. ArmedInv'
        <4>2. InQueue(q)' /\ \A d \in Queries : InQueue(d) => InQueue(d)'
          BY <3>1, QueueAppend DEF DuckTypeOK
        <4> QED BY <3>1, <3>a, <3>2, <4>2 DEF ArmedInv, Taken, Sent
      <3>4. OrderInv'
        <4>1. ~Sent(q) /\ ~Sent(q)' /\ ~Taken(q)' /\ query'[q].pc = "queued" /\ query'[q].stmt # "sent"
          BY <3>1, <3>a, <3>2 DEF ArmedInv, Taken, Sent
        <4>2. \A d \in Queries : d # q => query'[d] = query[d] /\ (Sent(d)' <=> Sent(d)) /\ (Taken(d)' <=> Taken(d))
          BY <3>2 DEF Taken, Sent
        <4>3. \A d \in Queries : d # q => Earlier(d)' = Earlier(d) /\ Earlier(d) \subseteq Queries
          BY <3>1, QueueAppend, EarlierQueries DEF DuckTypeOK
        <4>4. ASSUME NEW n \in Queries, query'[n].pc = "prepare" \/ Sent(n)'
              PROVE  \A d \in Earlier(n)' : query'[d].pc = "done"
          <5>1. n # q /\ (query[n].pc = "prepare" \/ Sent(n))
            BY <4>1, <4>2, <4>4
          <5>2. \A d \in Earlier(n) : query[d].pc = "done" /\ d # q
            BY <3>1, <5>1 DEF OrderInv
          <5> QED BY <4>2, <4>3, <5>1, <5>2
        <4>5. ASSUME NEW n \in Queries, Taken(n)'
              PROVE  /\ \A d \in Earlier(n)' : query'[d].stmt # "sent"
                     /\ \A d \in Queries : Taken(d)' => d = n
          <5>1. n # q /\ Taken(n)
            BY <4>1, <4>2, <4>5
          <5> QED BY <4>1, <4>2, <4>3, <5>1 DEF OrderInv
        <4> QED BY <4>4, <4>5 DEF OrderInv
      <3> QED BY <3>1, <3>2, <3>3, <3>4 DEF DuckSafe, InterruptHitsOwn
    <2> QED BY <1>2, <2>1, <2>2 DEF ExecuteDuck
  <1>3. ASSUME NEW q \in Queries, RunQuery(q) PROVE DuckSafe'
    <2>1. /\ query[q].pc = "queued" /\ UNCHANGED <<queue, hits>>
          /\ \A d \in Earlier(q) : query[d].pc = "done"
      BY <1>3 DEF RunQuery
    <2>2. PICK r \in DuckQuery : /\ query' = [query EXCEPT ![q] = r]
                                 /\ r.pc \in {"prepare", "done"} /\ r.listening \in {FALSE, query[q].listening}
                                 /\ r.timer = query[q].timer /\ r.stmt = query[q].stmt
      <3> DEFINE p == [query[q] EXCEPT !.pc = "prepare"]
      <3>1. query[q] \in DuckQuery
        BY DEF DuckTypeOK
      <3>2. /\ p \in DuckQuery /\ p.pc = "prepare" /\ p.listening = query[q].listening
            /\ p.timer = query[q].timer /\ p.stmt = query[q].stmt
        BY <3>1 DEF DuckQuery
      <3>3. CASE query' = [query EXCEPT ![q].pc = "prepare"]
        <4>1. query' = [query EXCEPT ![q] = p]
          BY <3>3 DEF DuckTypeOK
        <4> QED BY <3>2, <4>1, Zenon
      <3>4. CASE query' = Ends(q, "CANCELLED") \/ query' = Ends(q, "DB_UNREACHABLE")
        <4>1. CASE query' = Ends(q, "CANCELLED")
          BY <4>1, EndsTyped, Zenon
        <4>2. CASE query' = Ends(q, "DB_UNREACHABLE")
          BY <4>2, EndsTyped, Zenon
        <4> QED BY <3>4, <4>1, <4>2
      <3> QED BY <1>3, <3>3, <3>4, Zenon DEF RunQuery
    <2>3. DuckTypeOK' /\ query'[q] = r /\ \A d \in Queries : d # q => query'[d] = query[d]
      BY <2>1, <2>2, QueryTyped DEF DuckTypeOK
    <2>4. OneQuery(q)
      BY <2>1, <2>2, <2>3 DEF OneQuery, ArmedInv, OrderInv, Sent, Taken
    <2> QED BY <1>b, <2>1, <2>3, <2>4
  <1>4. ASSUME NEW q \in Queries, Prepared(q) PROVE DuckSafe'
    <2>1. query[q].pc = "prepare" /\ UNCHANGED <<queue, hits>>
      BY <1>4 DEF Prepared
    <2>2. CASE query' = [query EXCEPT ![q].pc = "run", ![q].stmt = "sent", ![q].timer = TRUE,
                                      ![q].listening = ~query[q].aborted]
      <3> DEFINE r == [query[q] EXCEPT !.pc = "run", !.stmt = "sent", !.timer = TRUE,
                                       !.listening = ~query[q].aborted]
      <3>1. query[q] \in DuckQuery
        BY DEF DuckTypeOK
      <3>2. r \in DuckQuery /\ r.pc = "run" /\ r.stmt = "sent"
        BY <3>1 DEF DuckQuery
      <3>3. query' = [query EXCEPT ![q] = r]
        BY <2>2 DEF DuckTypeOK
      <3> HIDE DEF r
      <3>4. DuckTypeOK' /\ query'[q] = r /\ \A d \in Queries : d # q => query'[d] = query[d]
        BY <2>1, <3>2, <3>3, QueryTyped DEF DuckTypeOK
      <3>5. OneQuery(q)
        BY <2>1, <3>2, <3>4 DEF OneQuery, ArmedInv, OrderInv, Sent, Taken
      <3> QED BY <1>b, <2>1, <3>4, <3>5
    <2>3. CASE query' = Ends(q, "DB_QUERY_ERROR")
      <3>1. PICK r \in DuckQuery : /\ query' = [query EXCEPT ![q] = r]
                                   /\ r.pc = "done" /\ r.listening = FALSE
                                   /\ r.timer = query[q].timer /\ r.stmt = query[q].stmt
        BY <2>3, EndsTyped, Zenon
      <3>2. DuckTypeOK' /\ query'[q] = r /\ \A d \in Queries : d # q => query'[d] = query[d]
        BY <2>1, <3>1, QueryTyped DEF DuckTypeOK
      <3>3. OneQuery(q)
        BY <2>1, <3>1, <3>2 DEF OneQuery, ArmedInv, OrderInv, Sent, Taken
      <3> QED BY <1>b, <2>1, <3>2, <3>3
    <2> QED BY <1>4, <2>2, <2>3 DEF Prepared
  <1>5. ASSUME NEW q \in Queries, StatementStarts(q) PROVE DuckSafe'
    <2> DEFINE r == [query[q] EXCEPT !.stmt = "running"]
    <2>1. /\ query[q].stmt = "sent" /\ UNCHANGED <<queue, hits>>
          /\ \A d \in Queries : ~Taken(d)
          /\ \A d \in Earlier(q) : query[d].stmt # "sent"
      BY <1>5 DEF StatementStarts, Taken
    <2>2. query' = [query EXCEPT ![q] = r]
      BY <1>5 DEF StatementStarts, DuckTypeOK
    <2>3. r \in DuckQuery /\ r.pc = query[q].pc /\ r.stmt = "running"
      <3>1. query[q] \in DuckQuery
        BY DEF DuckTypeOK
      <3> QED BY <3>1 DEF DuckQuery
    <2> HIDE DEF r
    <2>4. DuckTypeOK' /\ query'[q] = r /\ \A d \in Queries : d # q => query'[d] = query[d]
      BY <2>1, <2>2, <2>3, QueryTyped DEF DuckTypeOK
    <2>5. OneQuery(q)
      BY <2>1, <2>3, <2>4 DEF OneQuery, ArmedInv, OrderInv, Sent, Taken
    <2> QED BY <1>b, <2>1, <2>4, <2>5
  <1>6. ASSUME NEW q \in Queries, StatementOver(q) PROVE DuckSafe'
    <2>1. Taken(q) /\ UNCHANGED <<queue, hits>>
      BY <1>6 DEF StatementOver, Taken
    <2> DEFINE over == [query[q] EXCEPT !.stmt = "over", !.listening = FALSE, !.timer = FALSE]
               done(o) == [over EXCEPT !.pc = "done", !.out = o]
    <2>2. PICK r \in DuckQuery : /\ query' = [query EXCEPT ![q] = r]
                                 /\ r.pc \in {query[q].pc, "done"} /\ r.stmt = "over"
                                 /\ r.listening = FALSE /\ r.timer = FALSE
      <3>1. query[q] \in DuckQuery
        BY DEF DuckTypeOK
      <3>2. over \in DuckQuery /\ over.pc = query[q].pc /\ over.stmt = "over" /\ over.listening = FALSE /\ over.timer = FALSE
        BY <3>1 DEF DuckQuery
      <3>3. ASSUME NEW o \in {"rows", "DB_QUERY_ERROR"}
            PROVE  done(o) \in DuckQuery /\ done(o).pc = "done" /\ done(o).stmt = "over" /\ done(o).listening = FALSE /\ done(o).timer = FALSE
        BY <3>1 DEF DuckQuery
      <3>4. CASE query' = [query EXCEPT ![q].stmt = "over", ![q].listening = FALSE, ![q].timer = FALSE]
        <4>1. query' = [query EXCEPT ![q] = over]
          BY <3>4 DEF DuckTypeOK
        <4> QED BY <3>2, <4>1, Zenon
      <3>5. ASSUME NEW o \in {"rows", "DB_QUERY_ERROR"},
                   query' = [[query EXCEPT ![q].stmt = "over", ![q].listening = FALSE, ![q].timer = FALSE]
                              EXCEPT ![q].pc = "done", ![q].out = o]
            PROVE  \E r \in DuckQuery : /\ query' = [query EXCEPT ![q] = r]
                                 /\ r.pc \in {query[q].pc, "done"} /\ r.stmt = "over"
                                 /\ r.listening = FALSE /\ r.timer = FALSE
        <4>1. query' = [query EXCEPT ![q] = done(o)]
          BY <3>5 DEF DuckTypeOK
        <4> QED BY <3>3, <4>1, Zenon
      <3> QED BY <1>6, <3>4, <3>5, Zenon DEF StatementOver
    <2>3. DuckTypeOK' /\ query'[q] = r /\ \A d \in Queries : d # q => query'[d] = query[d]
      BY <2>1, <2>2, QueryTyped DEF DuckTypeOK
    <2>4. OneQuery(q)
      BY <2>1, <2>2, <2>3 DEF OneQuery, ArmedInv, OrderInv, Sent, Taken
    <2> QED BY <1>b, <2>1, <2>3, <2>4
  <1>7. ASSUME NEW q \in Queries, QueryTimeout(q) PROVE DuckSafe'
    <2> DEFINE after == [query[q] EXCEPT !.timer = FALSE]
    <2>1. query[q].timer /\ Interrupt(q, after, "DB_TIMEOUT") /\ UNCHANGED queue
      BY <1>7 DEF QueryTimeout
    <2>2. /\ after \in DuckQuery /\ after.pc = query[q].pc /\ after.stmt = query[q].stmt
          /\ after.timer = FALSE /\ after.listening = query[q].listening
      <3>1. query[q] \in DuckQuery
        BY DEF DuckTypeOK
      <3> QED BY <3>1 DEF DuckQuery
    <2> HIDE DEF after
    <2> QED BY <2>1, <2>2, InterruptKeeps
  <1>8. ASSUME NEW q \in Queries, AbortQuery(q) PROVE DuckSafe'
    <2>1. UNCHANGED queue /\ query[q] \in DuckQuery
      BY <1>8 DEF AbortQuery, DuckTypeOK
    <2>2. CASE query[q].listening
      <3> DEFINE after == [query[q] EXCEPT !.aborted = TRUE, !.listening = FALSE]
      <3>1. Interrupt(q, after, "CANCELLED")
        BY <1>8, <2>2 DEF AbortQuery
      <3>2. /\ after \in DuckQuery /\ after.pc = query[q].pc /\ after.stmt = query[q].stmt
            /\ after.timer = query[q].timer /\ after.listening = FALSE
        BY <2>1 DEF DuckQuery
      <3> HIDE DEF after
      <3> QED BY <2>1, <2>2, <3>1, <3>2, InterruptKeeps
    <2>3. CASE ~query[q].listening
      <3> DEFINE r == [query[q] EXCEPT !.aborted = TRUE]
      <3>1. UNCHANGED hits /\ query' = [query EXCEPT ![q].aborted = TRUE, ![q].stmt = @]
        BY <1>8, <2>3 DEF AbortQuery
      <3>2. /\ r \in DuckQuery /\ r.pc = query[q].pc /\ r.stmt = query[q].stmt
            /\ r.timer = query[q].timer /\ r.listening = query[q].listening
        BY <2>1 DEF DuckQuery
      <3>3. query' = [query EXCEPT ![q] = r]
        BY <2>1, <3>1 DEF DuckTypeOK, DuckQuery
      <3> HIDE DEF r
      <3>4. DuckTypeOK' /\ query'[q] = r /\ \A d \in Queries : d # q => query'[d] = query[d]
        BY <2>1, <3>2, <3>3, QueryTyped DEF DuckTypeOK
      <3>5. OneQuery(q)
        BY <2>1, <3>2, <3>4 DEF OneQuery, ArmedInv, OrderInv, Sent, Taken
      <3> QED BY <1>b, <3>1, <3>4, <3>5
    <2> QED BY <2>2, <2>3
  <1>9. ASSUME NEW q \in Queries,
               ExecuteMongo(q) \/ HasDb(q) \/ OpenCursor(q) \/ FetchFails(q) \/ FetchDoc(q) \/ FetchEnds(q)
        PROVE  DuckSafe'
    <2>1. query[q] \in DuckQuery
      BY DEF DuckTypeOK
    <2>2. query[q].pc \notin {"db", "driver", "fetch"}
      BY <2>1 DEF DuckQuery
    <2> QED BY <1>9, <2>2 DEF ExecuteMongo, HasDb, OpenCursor, FetchFails, FetchDoc, FetchEnds
  <1>10. CASE CloseStore \/ UNCHANGED embeddedVars
    BY <1>1, <1>10 DEF CloseStore, embeddedVars
  <1>11. ASSUME NEW q \in Queries, Steps(q) PROVE DuckSafe'
    BY <1>2, <1>3, <1>4, <1>5, <1>7, <1>9, <1>11 DEF Steps
  <1>12. CASE EmbeddedNext
    BY <1>6, <1>8, <1>9, <1>10, <1>11, <1>12 DEF EmbeddedNext
  <1> QED BY <1>10, <1>12

(* An interrupt() of the shared DuckDB connection, from a signal or from a *)
(* deadline, stops a statement of the query it was meant for, whatever     *)
(* queries are queued.                                                     *)
THEOREM InterruptCorrect == EmbeddedSpec => []InterruptHitsOwn
  <1>1. DuckInv => InterruptHitsOwn
    BY DEF DuckInv, DuckSafe, InterruptHitsOwn
  <1> QED BY DuckInitial, DuckPreserved, <1>1, PTL DEF EmbeddedSpec

-----------------------------------------------------------------------------
(* SQLite.                                                                 *)

(* The SQLite connector before connect().                                  *)
LEMMA LiteInitial == FilesInit => LiteInv
  BY DEF FilesInit, LiteInv, LiteTypeOK, FlagInv, HandleAsGiven

(* connect(), close() and execute() keep the host's handle as remembered.  *)
LEMMA LitePreserved == LiteInv /\ [FilesNext]_filesVars => LiteInv'
  <1> SUFFICES ASSUME LiteInv, [FilesNext]_filesVars PROVE LiteInv'
    OBVIOUS
  <1> USE DEF LiteInv, LiteTypeOK, FlagInv, HandleAsGiven
  <1>1. CASE UNCHANGED liteVars
    BY <1>1 DEF liteVars
  <1>2. CASE ConnectLite
    <2>1. CASE UNCHANGED liteVars
      BY <2>1 DEF liteVars
    <2>2. CASE SetAndVerify /\ UNCHANGED <<supplied, original, offRefused, wrote>>
      BY <2>2 DEF SetAndVerify, Remember
    <2>3. CASE UNCHANGED <<supplied, queryOnly, original, restore, asserted, offRefused, wrote>>
      BY <2>3
    <2> QED BY <1>2, <2>1, <2>2, <2>3 DEF ConnectLite, AssertReadOnly
  <1>3. CASE CloseLite
    <2>1. CASE ~supplied
      <3>1. ~offRefused
        BY <2>1
      <3>2. asserted' = FALSE /\ queryOnly' = original /\ UNCHANGED <<restore, supplied, original, wrote>>
        BY <1>3, <2>1 DEF CloseLite
      <3>3. UNCHANGED offRefused
        BY <1>3, <2>1 DEF CloseLite
      <3> QED BY <2>1, <3>1, <3>2, <3>3
    <2>2. CASE supplied /\ restore = "OFF"
      <3>1. queryOnly' \in {"OFF", queryOnly} /\ offRefused' = (offRefused \/ queryOnly' = "ON")
        BY <1>3, <2>2 DEF CloseLite
      <3>2. restore' = "null" /\ asserted' = FALSE /\ UNCHANGED <<supplied, original, wrote>>
        BY <1>3, <2>2 DEF CloseLite
      <3> QED BY <2>2, <3>1, <3>2
    <2>3. CASE supplied /\ restore # "OFF"
      <3>1. queryOnly' = queryOnly /\ offRefused' = offRefused
        BY <1>3, <2>3 DEF CloseLite
      <3>2. restore' = "null" /\ asserted' = FALSE /\ UNCHANGED <<supplied, original, wrote>>
        BY <1>3, <2>3 DEF CloseLite
      <3> QED BY <2>3, <3>1, <3>2
    <2> QED BY <2>1, <2>2, <2>3
  <1>4. CASE ExecuteLite
    BY <1>4 DEF ExecuteLite, Handle
  <1>5. CASE ConnectDuck \/ ConnectEnds \/ CloseDuck \/ Unregistered \/ (\E n \in Names : UnregisterFile(n))
    BY <1>1, <1>5 DEF ConnectDuck, ConnectEnds, CloseDuck, Unregistered, UnregisterFile
  <1>6. ASSUME NEW j \in Registrations,
               \/ RegisterFile(j) \/ CreateViewEnds(j) \/ ReadNamesBefore(j) \/ RunScript(j)
               \/ ReadNamesAfter(j) \/ JobLosesConnection(j)
        PROVE  LiteInv'
    BY <1>1, <1>6 DEF RegisterFile, CreateViewEnds, ReadNamesBefore, RunScript, ReadNamesAfter, JobLosesConnection
  <1>7. CASE UNCHANGED filesVars
    BY <1>1, <1>7 DEF filesVars
  <1> QED BY <1>2, <1>3, <1>4, <1>5, <1>6, <1>7 DEF FilesNext

(* A database handle the host supplied has the flag it came with whenever  *)
(* SqliteConnector remembers none for it, unless its driver refused close()*)
(* to clear it, when it can only read; and no statement ever ran on a      *)
(* connection that could write.                                            *)
THEOREM HandleCorrect == FilesSpec => []HandleAsGiven
  <1>1. LiteInv => HandleAsGiven
    BY DEF LiteInv
  <1> QED BY LiteInitial, LitePreserved, <1>1, PTL DEF FilesSpec
=============================================================================
