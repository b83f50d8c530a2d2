---------------------------- MODULE Conversation ----------------------------
(***************************************************************************)
(* useAskSql (packages/react/src/useAskSql.ts) over the two transports of  *)
(* client.ts: the turns of a conversation, and the questions and runs that *)
(* change them.  A stopped operation goes on unwinding, behind the next    *)
(* one, until its transport settles, which it may do with an answer.       *)
(*                                                                         *)
(* An operation is one call of ask(), run() or editSql(); the turn of a    *)
(* question bears its number.  SQL is a version number, and a result the   *)
(* version that was run.  Tokens, plans and the trimming of old turns are  *)
(* left out.                                                               *)
(***************************************************************************)
EXTENDS Naturals, FiniteSets

CONSTANTS
  MaxOps,      \* bound on operations
  MaxVersions  \* bound on SQL versions

ASSUME ConversationAssumption == MaxOps \in Nat /\ MaxVersions \in Nat

Ops == 1 .. MaxOps
None == 0

VARIABLES
  opts,       \* requireApproval, answerSchemaQuestions and the transport
  inFlight,   \* inFlightRef: the operation whose token it is
  abortRef,   \* the operation whose present controller it is
  started,    \* operations so far
  pc,         \* where each is suspended
  turn,       \* the turn it works on
  aborted,    \* the operations whose present controller is aborted
  settled,    \* the questions whose `settled` is set
  code,       \* `askErrorCode`: "schema" is one the fallback answers
  generated,  \* `generatedSql`; the statement of a run
  versions,   \* SQL versions so far
  phase, sql, result,  \* the turns; phase "absent" when there is none
  stopped     \* the operations under way when Stop was last pressed for them

refs == <<inFlight, abortRef>>
locals == <<turn, aborted, settled, code, generated>>
turns == <<phase, sql, result>>
vars == <<opts, refs, started, pc, locals, versions, turns, stopped>>

Spinning == {"thinking", "running"}
Active == {"stream", "fallback", "execute"}
Present(t) == phase[t] # "absent"

Init ==
  /\ opts \in [approval : BOOLEAN, schema : BOOLEAN, local : BOOLEAN]
  /\ inFlight = None /\ abortRef = None /\ started = 0 /\ versions = 0
  /\ pc = [o \in Ops |-> "none"] /\ turn = [o \in Ops |-> o]
  /\ aborted = {} /\ settled = {}
  /\ code = [o \in Ops |-> "none"] /\ generated = [o \in Ops |-> None]
  /\ phase = [t \in Ops |-> "absent"] /\ sql = [t \in Ops |-> None]
  /\ result = [t \in Ops |-> None]
  /\ stopped = {}

(* patch(): a turn that is gone stays gone.                                *)
Patch(t, p) == phase' = [phase EXCEPT ![t] = IF Present(t) THEN p ELSE @]

(* A fresh version, for the statement of a reply or of an edit.            *)
NewSql(t) ==
  /\ versions < MaxVersions
  /\ versions' = versions + 1
  /\ sql' = [sql EXCEPT ![t] = IF Present(t) THEN versions' ELSE @]

-----------------------------------------------------------------------------
(* ask(): nothing while something is in flight.                            *)
Ask ==
  /\ inFlight = None /\ started < MaxOps
  /\ started' = started + 1
  /\ inFlight' = started' /\ abortRef' = started'
  /\ pc' = [pc EXCEPT ![started'] = "stream"]
  /\ turn' = [turn EXCEPT ![started'] = started']
  /\ phase' = [phase EXCEPT ![started'] = "thinking"]
  /\ UNCHANGED <<opts, aborted, settled, code, generated, versions, sql, result, stopped>>

(* The event of an answer.                                                 *)
StreamSql(o) ==
  /\ pc[o] = "stream" /\ o \notin settled
  /\ NewSql(turn[o])
  /\ generated' = [generated EXCEPT ![o] = versions']
  /\ settled' = settled \cup {o}
  /\ Patch(turn[o], "sql_ready")
  /\ UNCHANGED <<opts, refs, started, pc, turn, aborted, code, result, stopped>>

(* The event of a failure.  The local transport ends quietly after a stop. *)
StreamError(o, c) ==
  /\ pc[o] = "stream" /\ o \notin settled
  /\ ~(opts.local /\ o \in aborted)
  /\ code' = [code EXCEPT ![o] = c]
  /\ settled' = settled \cup {o}
  /\ Patch(turn[o], "error")
  /\ UNCHANGED <<opts, refs, started, pc, turn, aborted, generated, versions, sql, result, stopped>>

(* How HttpTransport's stream closes: at the end of the body, with an      *)
(* error of the network or the server, or with an AbortError.              *)
HttpCloses(o) == {"ends", "fails"} \cup (IF o \in aborted THEN {"aborts"} ELSE {})

(* LocalTransport never throws, and ends without an event only when the    *)
(* signal was aborted.                                                     *)
LocalCloses(o) == IF o \in settled \/ o \in aborted THEN {"ends"} ELSE {}

Closes(o) == IF opts.local THEN LocalCloses(o) ELSE HttpCloses(o)

(* The phase the closed stream leaves: an end with neither SQL nor an      *)
(* error is a failure, or a stop.                                          *)
ClosedPhase(o, how) ==
  IF how = "ends" /\ o \in settled THEN phase[turn[o]]
  ELSE IF o \in aborted THEN "stopped" ELSE "error"

(* Mutant: an operation that unwinds opens the gate, whoever owns it.      *)
ReleaseAlways(o) == inFlight' = None /\ abortRef' = IF abortRef = o THEN None ELSE abortRef

(* Only the owner releases the gate and the controller.                    *)
Release(o) ==
  /\ inFlight' = IF inFlight = o THEN None ELSE inFlight
  /\ abortRef' = IF abortRef = o THEN None ELSE abortRef

(* doRun() up to the request: a controller of its own, in the same step.   *)
DoRun(o) ==
  /\ pc' = [pc EXCEPT ![o] = "execute"]
  /\ aborted' = aborted \ {o}
  /\ abortRef' = o

(* Mutant: a query the user has just cancelled runs all the same.          *)
AutoRunsStopped(o) == generated[o] # None /\ ~opts.approval

AutoRuns(o) == generated[o] # None /\ ~opts.approval /\ o \notin aborted

(* A failure the schema fallback answers.                                  *)
FallsBack(o, how) ==
  /\ generated[o] = None /\ opts.schema
  /\ how = "ends" /\ code[o] = "schema"
  /\ o \notin aborted

(* ask() after its stream: the fallback, the automatic run, or the end.    *)
StreamCloses(o, how) ==
  /\ pc[o] = "stream" /\ how \in Closes(o)
  /\ \/ /\ FallsBack(o, how)
        /\ pc' = [pc EXCEPT ![o] = "fallback"] /\ Patch(turn[o], "thinking")
        /\ UNCHANGED <<refs, aborted>>
     \/ /\ AutoRuns(o)
        /\ DoRun(o) /\ Patch(turn[o], "running")
        /\ UNCHANGED inFlight
     \/ /\ ~FallsBack(o, how) /\ ~AutoRuns(o)
        /\ pc' = [pc EXCEPT ![o] = "done"] /\ Patch(turn[o], ClosedPhase(o, how))
        /\ Release(o) /\ UNCHANGED aborted
  /\ UNCHANGED <<opts, started, turn, settled, code, generated, versions, sql, result, stopped>>

(* explainSchema() answers, perhaps with a query for a follow-up.          *)
FallbackAnswers(o, proposes) ==
  /\ pc[o] = "fallback"
  /\ pc' = [pc EXCEPT ![o] = "done"] /\ Patch(turn[o], "done") /\ Release(o)
  /\ \/ proposes /\ NewSql(turn[o])
     \/ ~proposes /\ UNCHANGED <<sql, versions>>
  /\ UNCHANGED <<opts, started, locals, result, stopped>>

FallbackFails(o) ==
  /\ pc[o] = "fallback"
  /\ pc' = [pc EXCEPT ![o] = "done"] /\ Release(o)
  /\ Patch(turn[o], IF o \in aborted THEN "stopped" ELSE "error")
  /\ UNCHANGED <<opts, started, locals, versions, sql, result, stopped>>

-----------------------------------------------------------------------------
(* doRun()'s request settles: with rows, even if it was stopped, or not.   *)
ExecuteSucceeds(o) ==
  /\ pc[o] = "execute"
  /\ pc' = [pc EXCEPT ![o] = "done"] /\ Release(o)
  /\ Patch(turn[o], "done")
  /\ result' = [result EXCEPT ![turn[o]] = IF Present(turn[o]) THEN generated[o] ELSE @]
  /\ UNCHANGED <<opts, started, locals, versions, sql, stopped>>

ExecuteFails(o) ==
  /\ pc[o] = "execute"
  /\ pc' = [pc EXCEPT ![o] = "done"] /\ Release(o)
  /\ Patch(turn[o], IF o \in aborted THEN "stopped" ELSE "error")
  /\ UNCHANGED <<opts, started, locals, versions, sql, result, stopped>>

(* A new operation that runs statement v of turn t.                        *)
StartRun(t, v) ==
  /\ inFlight = None /\ started < MaxOps
  /\ started' = started + 1 /\ inFlight' = started'
  /\ turn' = [turn EXCEPT ![started'] = t]
  /\ generated' = [generated EXCEPT ![started'] = v]
  /\ DoRun(started') /\ Patch(t, "running")

Run(t) ==
  /\ Present(t) /\ sql[t] # None
  /\ StartRun(t, sql[t])
  /\ UNCHANGED <<opts, settled, code, versions, sql, result, stopped>>

(* editSql(): runs at once, unless it needs approval or cannot.            *)
EditSql(t) ==
  /\ Present(t)
  /\ NewSql(t) /\ result' = [result EXCEPT ![t] = None]
  /\ \/ ~opts.approval /\ StartRun(t, versions')
     \/ /\ opts.approval \/ inFlight # None
        /\ Patch(t, "sql_ready")
        /\ UNCHANGED <<refs, started, pc, turn, aborted, generated>>
  /\ UNCHANGED <<opts, settled, code, stopped>>

(* What cancel(), reset() and unmounting share.                            *)
Stop ==
  /\ aborted' = aborted \cup ({abortRef} \ {None})
  /\ inFlight' = None /\ abortRef' = None
  /\ stopped' = stopped \cup ({inFlight} \ {None})
  /\ UNCHANGED <<opts, started, pc, turn, settled, code, generated, versions>>

Cancel == inFlight # None /\ Stop /\ UNCHANGED turns

Reset ==
  /\ \E t \in Ops : Present(t)
  /\ Stop
  /\ phase' = [t \in Ops |-> "absent"]
  /\ sql' = [t \in Ops |-> None] /\ result' = [t \in Ops |-> None]

Done == started = MaxOps /\ (\A o \in Ops : pc[o] = "done") /\ UNCHANGED vars

Progress(o) ==
  \/ StreamSql(o)
  \/ \E c \in {"schema", "other"} : StreamError(o, c)
  \/ \E how \in {"ends", "fails", "aborts"} : StreamCloses(o, how)
  \/ \E proposes \in BOOLEAN : FallbackAnswers(o, proposes)
  \/ FallbackFails(o) \/ ExecuteSucceeds(o) \/ ExecuteFails(o)

Next ==
  \/ Ask
  \/ \E t \in Ops : Run(t) \/ EditSql(t)
  \/ Cancel \/ Reset
  \/ \E o \in Ops : Progress(o)
  \/ Done

Spec == Init /\ [][Next]_vars

-----------------------------------------------------------------------------
Live(o) == pc[o] \in Active /\ o \notin aborted

(* The gate belongs to the one operation that is not stopped, however many *)
(* stopped ones unwind behind it: nothing starts beside it, a late         *)
(* unwinding does not open the gate, and the gate does not stay shut.      *)
OneAtATime ==
  /\ \A o \in Ops : (inFlight = o) <=> Live(o)
  /\ abortRef = inFlight

(* Stop reaches the request under way, in the stream, the fallback and the *)
(* automatic run alike, and a stopped question sends no query afterwards.  *)
StopIsFinal == \A o \in stopped : pc[o] # "done" => o \in aborted

(* A turn shown as busy has an operation that will settle it: however the  *)
(* stream, the fallback and the runs of a turn end, it does not spin on.   *)
NoSpinner ==
  \A t \in Ops : phase[t] \in Spinning =>
    \E o \in Ops : turn[o] = t /\ pc[o] \in Active

(* "Back to a runnable state; auto-run mode runs it now": the rows of an   *)
(* edited turn are those of the statement it shows.                        *)
ResultMatchesSql ==
  \A t \in Ops : phase[t] = "done" /\ result[t] # None => result[t] = sql[t]

-----------------------------------------------------------------------------
TypeOK ==
  /\ inFlight \in Ops \cup {None} /\ abortRef \in Ops \cup {None}
  /\ started \in 0 .. MaxOps
  /\ pc \in [Ops -> Active \cup {"none", "done"}] /\ turn \in [Ops -> Ops]
  /\ aborted \subseteq Ops /\ settled \subseteq Ops
  /\ phase \in [Ops -> Spinning \cup {"absent", "sql_ready", "done", "error", "stopped"}]
  /\ stopped \subseteq Ops

(* What makes the three inductive: an operation not started yet has        *)
(* touched nothing, and the phase that a settled stream leaves as it is    *)
(* spins only for another operation on its turn.                           *)
StartedInv ==
  \A o \in Ops :
    /\ o > started <=> pc[o] = "none"
    /\ o > started => o \notin aborted /\ o \notin settled /\ o \notin stopped

StreamInv ==
  \A o \in Ops : pc[o] = "stream" =>
    /\ turn[o] = o
    /\ o \in settled /\ phase[o] \in Spinning =>
         \E p \in Ops \ {o} : turn[p] = o /\ pc[p] \in Active

ConversationInv ==
  TypeOK /\ OneAtATime /\ StopIsFinal /\ NoSpinner /\ StartedInv /\ StreamInv
=============================================================================
