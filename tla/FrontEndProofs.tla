--------------------------- MODULE FrontEndProofs ---------------------------
(***************************************************************************)
(* The front ends, for any number of questions, connections, builds and    *)
(* turns: the gate, Stop and the spinner of useAskSql (Conversation), the  *)
(* engines, files and catalogs of a VS Code window (EngineManager) and its *)
(* chat panel (ChatTurns).                                                 *)
(***************************************************************************)
EXTENDS Conversation, EngineManager, ChatTurns, TLAPS

-----------------------------------------------------------------------------
(* useAskSql                                                               *)

(* An empty conversation.                                                  *)
LEMMA ConversationInitial == Init => ConversationInv
  BY ConversationAssumption
  DEF ConversationAssumption, Init, ConversationInv, TypeOK, OneAtATime, Live, StopIsFinal,
      NoSpinner, StartedInv, StreamInv, Ops, None, Active, Spinning

(* The number of the next operation.                                       *)
LEMMA NextOp ==
  ASSUME started \in 0 .. MaxOps, started < MaxOps
  PROVE  /\ started + 1 \in Ops /\ started + 1 \in 0 .. MaxOps
         /\ started + 1 > started /\ ~(started + 1 > started + 1)
         /\ \A o \in Ops : o > started + 1 <=> o > started /\ o # started + 1
  BY ConversationAssumption DEF ConversationAssumption, Ops

(* No operation.                                                           *)
LEMMA NoneIsNoOp == None \notin Ops
  BY DEF None, Ops

(* Types.                                                                  *)
LEMMA TypePreserved == ConversationInv /\ [Next]_vars => TypeOK'
<1> SUFFICES ASSUME ConversationInv, [Next]_vars PROVE TypeOK'
  OBVIOUS
<1> USE DEF ConversationInv, TypeOK, Active, Spinning, Patch, Present
<1>1. CASE Ask
  BY <1>1, NextOp DEF Ask
<1>2. ASSUME NEW t \in Ops, Run(t) PROVE TypeOK'
  BY <1>2, NextOp DEF Run, StartRun, DoRun
<1>3. ASSUME NEW t \in Ops, EditSql(t) PROVE TypeOK'
  BY <1>3, NextOp DEF EditSql, StartRun, DoRun, refs
<1>4. CASE Cancel \/ Reset
  BY <1>4 DEF Cancel, Reset, Stop, turns
<1>5. ASSUME NEW o \in Ops, Progress(o) PROVE TypeOK'
  <2>1. CASE StreamSql(o)
    BY <2>1 DEF StreamSql, refs
  <2>2. CASE \E c \in {"schema", "other"} : StreamError(o, c)
    BY <2>2 DEF StreamError, refs
  <2>3. CASE \E how \in {"ends", "fails", "aborts"} : StreamCloses(o, how)
    BY <2>3 DEF StreamCloses, DoRun, Release, ClosedPhase, refs
  <2>4. CASE \E proposes \in BOOLEAN : FallbackAnswers(o, proposes)
    BY <2>4 DEF FallbackAnswers, Release, locals
  <2>5. CASE FallbackFails(o) \/ ExecuteSucceeds(o) \/ ExecuteFails(o)
    BY <2>5 DEF FallbackFails, ExecuteSucceeds, ExecuteFails, Release, locals
  <2> QED BY <1>5, <2>1, <2>2, <2>3, <2>4, <2>5 DEF Progress
<1>6. CASE UNCHANGED vars \/ Done
  BY <1>6 DEF vars, refs, locals, turns, Done
<1> QED
  BY <1>1, <1>2, <1>3, <1>4, <1>5, <1>6 DEF Next

(* The gate and Stop: an operation that starts takes a gate nobody holds,  *)
(* one that ends gives back only what is its own.                          *)
LEMMA GatePreserved ==
  ConversationInv /\ [Next]_vars => OneAtATime' /\ StopIsFinal' /\ StartedInv'
<1> SUFFICES ASSUME ConversationInv, [Next]_vars
             PROVE  OneAtATime' /\ StopIsFinal' /\ StartedInv'
  OBVIOUS
<1> DEFINE Goal == OneAtATime' /\ StopIsFinal' /\ StartedInv'
<1> USE NoneIsNoOp DEF ConversationInv, TypeOK, OneAtATime, Live, StopIsFinal, StartedInv, Active
<1>1. CASE Ask
  BY <1>1, NextOp DEF Ask
<1>2. ASSUME NEW t \in Ops, Run(t) PROVE Goal
  BY <1>2, NextOp DEF Run, StartRun, DoRun
<1>3. ASSUME NEW t \in Ops, EditSql(t) PROVE Goal
  BY <1>3, NextOp DEF EditSql, StartRun, DoRun, refs
<1>4. CASE Cancel \/ Reset
  BY <1>4 DEF Cancel, Reset, Stop
<1>5. ASSUME NEW o \in Ops, Progress(o) PROVE Goal
  <2>1. CASE StreamSql(o)
    BY <2>1 DEF StreamSql, refs
  <2>2. CASE \E c \in {"schema", "other"} : StreamError(o, c)
    BY <2>2 DEF StreamError, refs
  <2>3. ASSUME NEW how \in {"ends", "fails", "aborts"}, StreamCloses(o, how) PROVE Goal
    <3>1. CASE FallsBack(o, how)
      BY <2>3, <3>1 DEF StreamCloses, FallsBack, AutoRuns, refs
    <3>2. CASE AutoRuns(o)
      BY <2>3, <3>2 DEF StreamCloses, FallsBack, AutoRuns, DoRun
    <3>3. CASE ~FallsBack(o, how) /\ ~AutoRuns(o)
      BY <2>3, <3>3 DEF StreamCloses, Release
    <3> QED BY <3>1, <3>2, <3>3
  <2>4. CASE \E proposes \in BOOLEAN : FallbackAnswers(o, proposes)
    BY <2>4 DEF FallbackAnswers, Release, locals
  <2>5. CASE FallbackFails(o) \/ ExecuteSucceeds(o) \/ ExecuteFails(o)
    BY <2>5 DEF FallbackFails, ExecuteSucceeds, ExecuteFails, Release, locals
  <2> QED BY <1>5, <2>1, <2>2, <2>3, <2>4, <2>5 DEF Progress
<1>6. CASE UNCHANGED vars \/ Done
  BY <1>6 DEF vars, refs, locals, Done
<1> QED
  BY <1>1, <1>2, <1>3, <1>4, <1>5, <1>6 DEF Next

(* The end of an operation: its turn stops spinning, unless it spins for   *)
(* another.                                                                *)
LEMMA EndKeepsSpin ==
  ASSUME ConversationInv, NEW o \in Ops, NEW q,
         pc' = [pc EXCEPT ![o] = "done"], Patch(turn[o], q),
         UNCHANGED <<turn, settled>>,
         pc[o] \in Active,
         q \in Spinning => /\ pc[o] = "stream"
                           /\ \E p \in Ops \ {o} : turn[p] = turn[o] /\ pc[p] \in Active
  PROVE  NoSpinner' /\ StreamInv'
<1> USE DEF ConversationInv, TypeOK, Patch, Present
<1>1. ASSUME NEW t \in Ops, phase'[t] \in Spinning
      PROVE  \E p \in Ops \ {o} : turn'[p] = t /\ pc'[p] \in Active
  <2>1. CASE t # turn[o]
    BY <1>1, <2>1 DEF NoSpinner
  <2>2. CASE t = turn[o] /\ ~Present(t)
    BY <1>1, <2>2 DEF Spinning
  <2>3. CASE t = turn[o] /\ Present(t)
    BY <1>1, <2>3
  <2> QED BY <2>1, <2>2, <2>3
<1>2. NoSpinner'
  BY <1>1 DEF NoSpinner
<1>3. ASSUME NEW s \in Ops, pc'[s] = "stream", s \in settled', phase'[s] \in Spinning
      PROVE  \E p \in Ops \ {s} : turn'[p] = s /\ pc'[p] \in Active
  <2>1. s # o /\ pc[s] = "stream" /\ turn[s] = s
    BY <1>3 DEF StreamInv
  <2>2. PICK p \in Ops \ {s} : turn[p] = s /\ pc[p] \in Active
    BY <1>3, <2>1 DEF StreamInv, Spinning
  <2>3. CASE p # o
    BY <2>2, <2>3
  <2>4. CASE p = o
    <3>1. pc[o] # "stream"
      BY <2>1, <2>2, <2>4 DEF StreamInv
    <3>2. phase'[s] \notin Spinning
      BY <2>1, <2>2, <2>4, <3>1 DEF Spinning
    <3> QED BY <1>3, <3>2
  <2> QED BY <2>3, <2>4
<1> QED
  BY <1>2, <1>3 DEF StreamInv

(* The turns: what starts to spin has an operation, what ends stops.       *)
LEMMA SpinPreserved ==
  ConversationInv /\ [Next]_vars => NoSpinner' /\ StreamInv'
<1> SUFFICES ASSUME ConversationInv, [Next]_vars PROVE NoSpinner' /\ StreamInv'
  OBVIOUS
<1> DEFINE Goal == NoSpinner' /\ StreamInv'
<1> USE DEF ConversationInv, TypeOK, StartedInv
<1>1. CASE Ask
  BY <1>1, NextOp DEF Ask, NoSpinner, StreamInv, Active
<1>2. ASSUME NEW t \in Ops, Run(t) PROVE Goal
  BY <1>2, NextOp DEF Run, StartRun, DoRun, Patch, Present, NoSpinner, StreamInv, Active, Spinning
<1>3. ASSUME NEW t \in Ops, EditSql(t) PROVE Goal
  <2>1. CASE StartRun(t, versions')
    BY <1>3, <2>1, NextOp DEF EditSql, StartRun, DoRun, Patch, Present, NoSpinner, StreamInv, Active, Spinning
  <2>2. CASE Patch(t, "sql_ready") /\ UNCHANGED <<refs, started, pc, turn, aborted, generated>>
    BY <1>3, <2>2 DEF EditSql, Patch, Present, NoSpinner, StreamInv, Spinning
  <2> QED BY <1>3, <2>1, <2>2 DEF EditSql
<1>4. CASE Cancel \/ Reset
  BY <1>4 DEF Cancel, Reset, Stop, turns, NoSpinner, StreamInv, Spinning
<1>5. ASSUME NEW o \in Ops, Progress(o) PROVE Goal
  <2>1. CASE StreamSql(o)
    BY <2>1 DEF StreamSql, Patch, Present, NoSpinner, StreamInv, Spinning
  <2>2. CASE \E c \in {"schema", "other"} : StreamError(o, c)
    BY <2>2 DEF StreamError, Patch, Present, NoSpinner, StreamInv, Spinning
  <2>3. ASSUME NEW how \in {"ends", "fails", "aborts"}, StreamCloses(o, how) PROVE Goal
    <3>1. CASE FallsBack(o, how) \/ AutoRuns(o)
      BY <2>3, <3>1
      DEF StreamCloses, FallsBack, AutoRuns, DoRun, Patch, Present, NoSpinner, StreamInv, Active, Spinning
    <3>2. CASE ~FallsBack(o, how) /\ ~AutoRuns(o)
      <4> DEFINE q == ClosedPhase(o, how)
      <4>1. q \in Spinning => \E p \in Ops \ {o} : turn[p] = turn[o] /\ pc[p] \in Active
        BY <2>3 DEF StreamCloses, ClosedPhase, StreamInv, Spinning
      <4>2. pc' = [pc EXCEPT ![o] = "done"] /\ Patch(turn[o], q) /\ UNCHANGED <<turn, settled>>
        BY <2>3, <3>2 DEF StreamCloses
      <4> QED BY <2>3, <4>1, <4>2, EndKeepsSpin DEF StreamCloses, Active
    <3> QED BY <3>1, <3>2
  <2>4. CASE \E proposes \in BOOLEAN : FallbackAnswers(o, proposes)
    BY <2>4, EndKeepsSpin DEF FallbackAnswers, locals, Active, Spinning
  <2>5. CASE FallbackFails(o)
    BY <2>5, EndKeepsSpin DEF FallbackFails, locals, Active, Spinning
  <2>6. CASE ExecuteSucceeds(o)
    BY <2>6, EndKeepsSpin DEF ExecuteSucceeds, locals, Active, Spinning
  <2>7. CASE ExecuteFails(o)
    BY <2>7, EndKeepsSpin DEF ExecuteFails, locals, Active, Spinning
  <2> QED BY <1>5, <2>1, <2>2, <2>3, <2>4, <2>5, <2>6, <2>7 DEF Progress
<1>6. CASE UNCHANGED vars \/ Done
  BY <1>6 DEF vars, refs, locals, turns, Done, NoSpinner, StreamInv
<1> QED
  BY <1>1, <1>2, <1>3, <1>4, <1>5, <1>6 DEF Next

(* Every step.                                                             *)
LEMMA ConversationPreserved == ConversationInv /\ [Next]_vars => ConversationInv'
  BY TypePreserved, GatePreserved, SpinPreserved DEF ConversationInv

(* The inductive invariant holds throughout.                               *)
THEOREM ConversationInvCorrect == Spec => []ConversationInv
  BY ConversationInitial, ConversationPreserved, PTL DEF Spec

(* The gate has one owner however many stopped operations unwind.          *)
THEOREM OneAtATimeCorrect == Spec => []OneAtATime
<1>1. ConversationInv => OneAtATime
  BY DEF ConversationInv
<1> QED
  BY <1>1, ConversationInvCorrect, PTL

(* A stopped question has been told to abort and sends no query.           *)
THEOREM StopCorrect == Spec => []StopIsFinal
<1>1. ConversationInv => StopIsFinal
  BY DEF ConversationInv
<1> QED
  BY <1>1, ConversationInvCorrect, PTL

(* No turn is left spinning with nothing under way.                        *)
THEOREM NoSpinnerCorrect == Spec => []NoSpinner
<1>1. ConversationInv => NoSpinner
  BY DEF ConversationInv
<1> QED
  BY <1>1, ConversationInvCorrect, PTL

-----------------------------------------------------------------------------
(* The engine manager                                                      *)

(* Builds are numbered from one; none is zero.                             *)
LEMMA BuildNumbers ==
  /\ MaxBuilds \in Nat /\ NoBuild \notin Builds /\ NoBuild = 0
  /\ \A b : b \in Builds <=> b \in Nat /\ 1 <= b /\ b <= MaxBuilds
  BY EngineManagerAssumption DEF EngineManagerAssumption, Builds, NoBuild

(* The locals of a call that has not begun.                                *)
LEMMA NewCallTyped ==
  /\ NewCall \in ManagerCall /\ NewCall.pc = "idle" /\ NewCall.op = "catalog" /\ NewCall.gen = 0
  /\ NewCall.build = NoBuild /\ NewCall.read = Never /\ NewCall.since = 0 /\ NewCall.attempt = 0
  BY DEF NewCall, ManagerCall, NoBuild, Never

(* The locals of a call that has returned.                                 *)
LEMMA EndedTyped ==
  ASSUME ManagerTypeOK, NEW t \in Calls, NEW got \in Nat \cup {Never}
  PROVE  /\ Ended(t, got) \in ManagerCall /\ Ended(t, got).pc = "done" /\ Ended(t, got).op = "catalog"
         /\ Ended(t, got).gen = 0 /\ Ended(t, got).build = NoBuild /\ Ended(t, got).read = got
         /\ got # Never => Ended(t, got).since = call[t].since
  <1> DEFINE s == IF got = Never THEN 0 ELSE call[t].since
  <1>1. s \in Nat /\ (got # Never => s = call[t].since)
    BY DEF ManagerTypeOK, ManagerCall
  <1>2. Ended(t, got) = [NewCall EXCEPT !.pc = "done", !.read = got, !.since = s]
    BY DEF Ended
  <1> HIDE DEF s
  <1> QED BY <1>1, <1>2, NewCallTyped DEF NewCall, ManagerCall

(* One call changes.                                                       *)
LEMMA CallPut ==
  ASSUME ManagerTypeOK, NEW t \in Calls, NEW r \in ManagerCall, call' = [call EXCEPT ![t] = r]
  PROVE  /\ call' \in [Calls -> ManagerCall] /\ call'[t] = r
         /\ \A u \in Calls : u # t => call'[u] = call[u]
  BY Zenon DEF ManagerTypeOK

(* One build changes.                                                      *)
LEMMA BuildPut ==
  ASSUME ManagerTypeOK, NEW b \in Builds, NEW r \in ManagerBuild, build' = [build EXCEPT ![b] = r]
  PROVE  /\ build' \in [Builds -> ManagerBuild] /\ build'[b] = r
         /\ \A a \in Builds : a # b => build'[a] = build[a]
  BY Zenon DEF ManagerTypeOK

(* What sharedConnectors() may have done when b is what it returned.       *)
Extended(p, b) ==
  /\ nbuilds' \in 0 .. MaxBuilds /\ nbuilds <= nbuilds'
  /\ promise' \in [Paths -> Builds \cup {NoBuild}] /\ build' \in [Builds -> ManagerBuild]
  /\ promise'[p] = b /\ b <= nbuilds' /\ build'[b].path = p
  /\ \A q \in Paths : q # p => promise'[q] = promise[q]
  /\ promise[p] = b \/ (promise[p] = NoBuild /\ b > nbuilds)
  /\ \A a \in Builds : a <= nbuilds => build'[a] = build[a]
  /\ \A a \in Builds : build'[a].opening # {} => a <= nbuilds'

(* sharedConnectors() and buildMongoConnectors() extend the builds.        *)
LEMMA SharedExtends ==
  ASSUME ManagerTypeOK, BuildInv, NEW p \in Paths, NEW b \in Builds, Shared(p, b)
  PROVE  Extended(p, b)
  <1>0. nbuilds \in Nat /\ MaxBuilds \in Nat /\ b \in Nat
    BY BuildNumbers DEF ManagerTypeOK
  <1>1. CASE promise[p] # NoBuild /\ b = promise[p] /\ UNCHANGED <<promise, build, nbuilds>>
    BY <1>0, <1>1 DEF Extended, ManagerTypeOK, BuildInv
  <1>2. CASE /\ promise[p] = NoBuild /\ nbuilds < MaxBuilds /\ b = nbuilds + 1
             /\ nbuilds' = b /\ promise' = [promise EXCEPT ![p] = b]
             /\ build' = [build EXCEPT ![b] = [path |-> p, gen |-> generation, at |-> endpoint,
                                               opening |-> OfPath(p), ok |-> {}]]
    <2> DEFINE r == [path |-> p, gen |-> generation, at |-> endpoint, opening |-> OfPath(p), ok |-> {}]
    <2>1. r \in ManagerBuild /\ r.path = p
      BY DEF ManagerTypeOK, ManagerBuild, OfPath
    <2> HIDE DEF r
    <2>2. /\ build' \in [Builds -> ManagerBuild] /\ build'[b] = r
          /\ \A a \in Builds : a # b => build'[a] = build[a]
      BY <1>2, <2>1, BuildPut DEF r
    <2>3. promise' \in [Paths -> Builds \cup {NoBuild}] /\ promise'[p] = b
          /\ \A q \in Paths : q # p => promise'[q] = promise[q]
      BY <1>2 DEF ManagerTypeOK
    <2>4. \A a \in Builds : a \in Nat
      BY BuildNumbers
    <2>5. \A a \in Builds : a <= nbuilds => a # b
      BY <1>0, <1>2, <2>4
    <2>6. \A a \in Builds : build'[a].opening # {} => a <= nbuilds'
      <3> SUFFICES ASSUME NEW a \in Builds, build'[a].opening # {}, a # b PROVE a <= nbuilds'
        BY <1>0, <1>2
      <3>1. a <= nbuilds
        BY <2>2 DEF BuildInv
      <3> QED BY <1>0, <1>2, <2>4, <3>1
    <2>7. nbuilds' \in 0 .. MaxBuilds /\ nbuilds <= nbuilds' /\ b <= nbuilds' /\ b > nbuilds
      BY <1>0, <1>2
    <2> QED BY <1>2, <2>1, <2>2, <2>3, <2>5, <2>6, <2>7 DEF Extended
  <1> QED BY <1>1, <1>2 DEF Shared

(* What AttemptInv says of one call.                                       *)
Attempt(t) ==
  /\ call[t].gen <= generation /\ call[t].build <= nbuilds
  /\ call[t].pc \in {"model", "retry"} => call[t].op = "engine"
  /\ call[t].op = "engine" /\ call[t].pc \in {"connectors", "model"} =>
       /\ call[t].build # NoBuild /\ build[call[t].build].path = PathOf(conn[t])
       /\ call[t].pc = "model" => build[call[t].build].opening = {}
       /\ call[t].gen = generation =>
            \/ promise[PathOf(conn[t])] = call[t].build
            \/ /\ call[t].pc = "connectors"
               /\ build[call[t].build].opening = {} /\ Rejected(call[t].build)

(* Every call is such an attempt.                                          *)
LEMMA AttemptOfAll ==
  ASSUME ManagerInv PROVE \A t \in Calls : Attempt(t)
  BY DEF ManagerInv, BuildInv, AttemptInv, Attempt

(* A window that has just opened.                                          *)
LEMMA ManagerInitial == ManagerInit => ManagerInv
  <1> SUFFICES ASSUME ManagerInit PROVE ManagerInv
    OBVIOUS
  <1> USE BuildNumbers, NewCallTyped
  <1> DEFINE b0 == [path |-> "sql", gen |-> 0, at |-> [c \in Servers |-> "home"],
                    opening |-> {}, ok |-> {}]
  <1>0. {} \in FileSets
    BY DEF FileSets
  <1>1. NoHeld \in ManagerHeld /\ NoHeld.files = {} /\ NoHeld.sql = NoBuild /\ NoHeld.mongo = NoBuild
    BY <1>0 DEF NoHeld, ManagerHeld
  <1>2. b0 \in ManagerBuild /\ b0.opening = {}
    BY DEF ManagerBuild, Paths
  <1>3. /\ call = [t \in Calls |-> NewCall] /\ held = [r \in Resets |-> NoHeld]
        /\ build = [b \in Builds |-> b0]
    BY DEF ManagerInit
  <1> HIDE DEF b0
  <1>4. /\ call \in [Calls -> ManagerCall] /\ held \in [Resets -> ManagerHeld]
        /\ build \in [Builds -> ManagerBuild]
    BY <1>1, <1>2, <1>3, Zenon
  <1>5. ManagerTypeOK
    <2>1. /\ generation \in Nat /\ catalogGeneration \in Nat /\ nbuilds \in 0 .. MaxBuilds
          /\ closed \subseteq Builds
      BY DEF ManagerInit
    <2>2. /\ promise \in [Paths -> Builds \cup {NoBuild}] /\ engines \in [Keys -> Builds \cup {NoBuild}]
          /\ endpoint \in [Servers -> {"home", "elsewhere"}] /\ inflight \in [Conns -> Calls \cup {NoCall}]
      BY ONLY ManagerInit DEF ManagerInit
    <2>3. /\ catalogs \in [Conns -> Nat \cup {Never}] /\ lastDrop \in [Conns -> Nat]
          /\ rpc \in [Resets -> {"idle", "sql", "mongo", "files", "done"}] /\ conn \in [Calls -> Conns]
      BY ONLY ManagerInit DEF ManagerInit
    <2>4. handles \in FileSets /\ openFiles \in FileSets
      BY ONLY ManagerInit, <1>0 DEF ManagerInit
    <2> QED BY <1>4, <2>1, <2>2, <2>3, <2>4 DEF ManagerTypeOK
  <1>6. \A r \in Resets, q \in Paths : held[r][q] = NoBuild
    BY <1>1, <1>3 DEF Paths
  <1>7. BuildInv
    <2>1. \A b \in Builds : build[b].opening = {}
      BY <1>2, <1>3
    <2>2. promise = [p \in Paths |-> NoBuild] /\ nbuilds = 0 /\ closed = {}
      BY DEF ManagerInit
    <2>3. \A t \in Calls : call[t].build = NoBuild
      BY <1>3
    <2> QED BY <1>6, <2>1, <2>2, <2>3 DEF BuildInv
  <1>8. EngineInv /\ AttemptInv
    <2>1. \A t \in Calls : call[t].gen = 0 /\ call[t].pc = "idle"
      BY <1>3
    <2> QED BY <2>1 DEF ManagerInit, EngineInv, AttemptInv
  <1>9. FileInv
    BY <1>1, <1>3 DEF ManagerInit, FileInv, FilesOwned
  <1>10. CatalogInv
    <2>1. \A t \in Calls : call[t].pc = "idle"
      BY <1>3
    <2> QED BY <2>1 DEF ManagerInit, CatalogInv, Reader
  <1> QED BY <1>5, <1>7, <1>8, <1>9, <1>10 DEF ManagerInv

(* The builds are as before, or one was added.                             *)
Grown ==
  \/ UNCHANGED <<promise, build, nbuilds>>
  \/ \E p \in Paths, b \in Builds : Extended(p, b)

(* The parts of the strengthening that are about builds.                   *)
BuildSide == BuildInv /\ EngineInv /\ AttemptInv /\ FileInv

(* What stays true of the builds when one is added.                        *)
LEMMA GrownKeeps ==
  ASSUME ManagerInv, Grown
  PROVE  /\ nbuilds \in Nat /\ nbuilds' \in Nat /\ nbuilds <= nbuilds'
         /\ \A a \in Builds : a <= nbuilds => build'[a] = build[a]
         /\ \A p \in Paths : promise[p] # NoBuild => promise'[p] = promise[p]
         /\ \A p \in Paths : promise'[p] # promise[p] => promise'[p] > nbuilds
         /\ \A p \in Paths : promise'[p] # NoBuild => promise'[p] <= nbuilds' /\ build'[promise'[p]].path = p
         /\ \A a \in Builds : build'[a].opening # {} => a <= nbuilds'
  <1>1. nbuilds \in Nat /\ promise \in [Paths -> Builds \cup {NoBuild}]
    BY BuildNumbers DEF ManagerInv, ManagerTypeOK
  <1>2. CASE UNCHANGED <<promise, build, nbuilds>>
    BY <1>1, <1>2 DEF ManagerInv, BuildInv
  <1>3. ASSUME NEW p \in Paths, NEW b \in Builds, Extended(p, b)
        PROVE  /\ nbuilds' \in Nat /\ nbuilds <= nbuilds'
               /\ \A a \in Builds : a <= nbuilds => build'[a] = build[a]
               /\ \A q \in Paths : promise[q] # NoBuild => promise'[q] = promise[q]
               /\ \A q \in Paths : promise'[q] # promise[q] => promise'[q] > nbuilds
               /\ \A q \in Paths : promise'[q] # NoBuild => promise'[q] <= nbuilds' /\ build'[promise'[q]].path = q
               /\ \A a \in Builds : build'[a].opening # {} => a <= nbuilds'
    <2>1. nbuilds' \in Nat /\ nbuilds <= nbuilds'
      BY <1>3, BuildNumbers DEF Extended
    <2>2. \A q \in Paths : promise[q] # NoBuild => promise'[q] = promise[q]
      BY <1>3 DEF Extended
    <2>3. \A q \in Paths : promise'[q] # promise[q] => promise'[q] > nbuilds
      BY <1>3 DEF Extended
    <2>4. ASSUME NEW q \in Paths, promise'[q] # NoBuild
          PROVE  promise'[q] <= nbuilds' /\ build'[promise'[q]].path = q
      <3>1. CASE q = p
        BY <1>3, <3>1 DEF Extended
      <3>2. CASE q # p
        <4>1. promise'[q] = promise[q] /\ promise[q] \in Builds /\ promise[q] \in Nat
          BY <1>1, <1>3, <2>4, <3>2, BuildNumbers DEF Extended
        <4>2. promise[q] <= nbuilds /\ build[promise[q]].path = q
          BY <2>4, <4>1 DEF ManagerInv, BuildInv
        <4> QED BY <1>1, <1>3, <2>1, <4>1, <4>2 DEF Extended
      <3> QED BY <3>1, <3>2
    <2> QED BY <1>3, <2>1, <2>2, <2>3, <2>4 DEF Extended
  <1> QED BY <1>1, <1>2, <1>3 DEF Grown

(* A step of a call that leaves files, resets and engines alone keeps what *)
(* is said of builds, if it does so for the calls it changes.              *)
LEMMA CallsKeep ==
  ASSUME ManagerInv, ManagerTypeOK', Grown,
         UNCHANGED <<generation, closed, held, rpc, handles, openFiles, engines, conn>>,
         \A t \in Calls : call'[t] = call[t] \/ Attempt(t)'
  PROVE  BuildSide'
  <1>1. /\ nbuilds \in Nat /\ nbuilds' \in Nat /\ nbuilds <= nbuilds'
        /\ \A a \in Builds : a <= nbuilds => build'[a] = build[a]
        /\ \A p \in Paths : promise[p] # NoBuild => promise'[p] = promise[p]
        /\ \A p \in Paths : promise'[p] # promise[p] => promise'[p] > nbuilds
        /\ \A p \in Paths : promise'[p] # NoBuild => promise'[p] <= nbuilds' /\ build'[promise'[p]].path = p
        /\ \A a \in Builds : build'[a].opening # {} => a <= nbuilds'
    BY GrownKeeps
  <1>2. /\ \A p \in Paths : promise'[p] \in Nat /\ promise[p] \in Builds \cup {NoBuild}
        /\ \A t \in Calls : call[t].build \in Builds \cup {NoBuild} /\ call[t].build \in Nat
        /\ \A r \in Resets, q \in Paths : held[r][q] \in Nat
        /\ \A b \in closed : b \in Nat
    <2>1. \A t \in Calls : call[t].build \in Builds \cup {NoBuild}
      BY DEF ManagerInv, ManagerTypeOK, ManagerCall
    <2>2. \A r \in Resets, q \in Paths : held[r][q] \in Builds \cup {NoBuild}
      BY DEF ManagerInv, ManagerTypeOK, ManagerHeld, Paths
    <2>3. \A p \in Paths : promise[p] \in Builds \cup {NoBuild} /\ promise'[p] \in Builds \cup {NoBuild}
      BY DEF ManagerInv, ManagerTypeOK
    <2> QED BY <2>1, <2>2, <2>3, BuildNumbers DEF ManagerInv, ManagerTypeOK
  <1>3. ASSUME NEW t \in Calls PROVE Attempt(t)'
    <2> SUFFICES ASSUME call'[t] = call[t] PROVE Attempt(t)'
      OBVIOUS
    <2>1. Attempt(t) /\ PathOf(conn[t]) \in Paths
      BY AttemptOfAll DEF PathOf, Paths
    <2>2. call[t].build # NoBuild => build'[call[t].build] = build[call[t].build]
      BY <1>1, <1>2, <2>1 DEF Attempt
    <2>3. call'[t].build <= nbuilds'
      BY <1>1, <1>2, <2>1 DEF Attempt
    <2>4. ASSUME call[t].op = "engine", call[t].pc \in {"connectors", "model"}, call[t].gen = generation
          PROVE  \/ promise'[PathOf(conn[t])] = call[t].build
                 \/ /\ call[t].pc = "connectors"
                    /\ build'[call[t].build].opening = {} /\ Rejected(call[t].build)'
      BY <1>1, <2>1, <2>2, <2>4 DEF Attempt, Rejected, OfPath
    <2> QED BY <2>1, <2>2, <2>3, <2>4 DEF Attempt
  <1>4. AttemptInv'
    BY <1>3 DEF AttemptInv, Attempt
  <1>5. BuildInv'
    <2>1. ASSUME NEW p \in Paths, promise'[p] # NoBuild
          PROVE  promise'[p] \notin closed /\ \A r \in Resets, q \in Paths : held[r][q] # promise'[p]
      <3>1. CASE promise'[p] = promise[p]
        BY <2>1, <3>1 DEF ManagerInv, BuildInv
      <3>2. CASE promise'[p] > nbuilds
        BY <1>1, <1>2, <3>2 DEF ManagerInv, BuildInv
      <3> QED BY <1>1, <3>1, <3>2
    <2>2. \A b \in closed : b <= nbuilds'
      BY <1>1, <1>2 DEF ManagerInv, BuildInv
    <2>3. \A r \in Resets, q \in Paths : held[r][q] <= nbuilds'
      BY <1>1, <1>2 DEF ManagerInv, BuildInv
    <2>4. \A t \in Calls : call'[t].build <= nbuilds'
      BY <1>3 DEF Attempt
    <2> QED BY <1>1, <2>1, <2>2, <2>3, <2>4 DEF BuildInv
  <1>6. EngineInv'
    <2> SUFFICES ASSUME NEW k \in Keys, engines[k] # NoBuild
                 PROVE  /\ engines[k] = promise'[build'[engines[k]].path]
                        /\ build'[engines[k]].opening = {}
      BY DEF EngineInv
    <2>1. engines[k] \in Builds /\ build[engines[k]].path \in Paths
      BY DEF ManagerInv, ManagerTypeOK, ManagerBuild
    <2>2. engines[k] = promise[build[engines[k]].path] /\ build[engines[k]].opening = {}
      BY DEF ManagerInv, EngineInv
    <2>3. engines[k] <= nbuilds
      BY <2>1, <2>2 DEF ManagerInv, BuildInv
    <2> QED BY <1>1, <2>1, <2>2, <2>3
  <1>7. FileInv'
    <2>1. \A f \in openFiles : f[1] \in Builds /\ f[1] \in Nat /\ f[1] <= nbuilds
      BY BuildNumbers DEF ManagerInv, ManagerTypeOK, FileSets, FileInv
    <2>2. \A f \in openFiles : build'[f[1]] = build[f[1]] /\ f[1] <= nbuilds'
      BY <1>1, <2>1
    <2> QED BY <2>2 DEF ManagerInv, FileInv, FilesOwned
  <1> QED BY <1>4, <1>5, <1>6, <1>7 DEF BuildSide

(* One connection of a build settles; a file it opened is on the list.     *)
LEMMA SettleKeeps ==
  ASSUME ManagerInv, NEW b \in Builds, NEW c \in build[b].opening, NEW opened \in BOOLEAN,
         Settle(b, c, opened),
         UNCHANGED <<generation, nbuilds, closed, held, rpc, engines, call, conn, endpoint, catalogVars>>,
         \/ UNCHANGED <<handles, openFiles>>
         \/ /\ build[b].gen = generation
            /\ handles' = handles \cup {<<b, c>>} /\ openFiles' = openFiles \cup {<<b, c>>}
  PROVE  ManagerTypeOK' /\ BuildSide'
  <1> DEFINE left == build[b].opening \ {c}
             got == IF opened THEN build[b].ok \cup {c} ELSE build[b].ok
             r == [build[b] EXCEPT !.opening = left, !.ok = got]
  <1>1. build[b] \in ManagerBuild
    BY DEF ManagerInv, ManagerTypeOK
  <1>2. /\ c \in Conns /\ left \in SUBSET Conns /\ got \in SUBSET Conns
        /\ build[b].opening # {} /\ b <= nbuilds
    BY <1>1 DEF ManagerBuild, ManagerInv, BuildInv
  <1>3. build' = [build EXCEPT ![b].opening = left, ![b].ok = got]
    BY DEF Settle
  <1> HIDE DEF left, got
  <1>4. /\ r \in ManagerBuild /\ r.path = build[b].path /\ r.gen = build[b].gen
        /\ r.opening = left /\ r.ok = got
    BY <1>1, <1>2 DEF ManagerBuild
  <1>5. build' = [build EXCEPT ![b] = r]
    BY <1>3 DEF ManagerInv, ManagerTypeOK
  <1> HIDE DEF r
  <1>6. /\ build' \in [Builds -> ManagerBuild] /\ build'[b] = r
        /\ \A a \in Builds : a # b => build'[a] = build[a]
    BY <1>4, <1>5, BuildPut DEF ManagerInv
  <1>7. promise' \in [Paths -> Builds \cup {NoBuild}]
    BY DEF Settle, ManagerInv, ManagerTypeOK
  <1>8. \A p \in Paths : \/ promise'[p] = promise[p]
                         \/ /\ promise[p] = b /\ promise'[p] = NoBuild
                            /\ build'[b].opening = {} /\ Rejected(b)'
    BY DEF Settle
  <1>9. ManagerTypeOK'
    <2>1. handles' \in FileSets /\ openFiles' \in FileSets
      BY <1>2 DEF ManagerInv, ManagerTypeOK, FileSets
    <2> QED BY <1>6, <1>7, <2>1 DEF ManagerInv, ManagerTypeOK, catalogVars
  <1>10. BuildInv'
    <2>1. ASSUME NEW p \in Paths, promise'[p] # NoBuild
          PROVE  /\ promise'[p] <= nbuilds /\ build'[promise'[p]].path = p
                 /\ promise'[p] \notin closed /\ \A e \in Resets, q \in Paths : held[e][q] # promise'[p]
      <3>1. promise'[p] = promise[p] /\ promise[p] \in Builds
        BY <1>8, <2>1 DEF ManagerInv, ManagerTypeOK
      <3>2. /\ promise[p] <= nbuilds /\ build[promise[p]].path = p
            /\ promise[p] \notin closed /\ \A e \in Resets, q \in Paths : held[e][q] # promise[p]
        BY <2>1, <3>1 DEF ManagerInv, BuildInv
      <3>3. build'[promise[p]].path = build[promise[p]].path
        BY <1>4, <1>6, <3>1
      <3> QED BY <3>1, <3>2, <3>3
    <2>2. \A a \in Builds : build'[a].opening # {} => a <= nbuilds
      BY <1>2, <1>6 DEF ManagerInv, BuildInv
    <2> QED BY <2>1, <2>2 DEF ManagerInv, BuildInv
  <1>11. EngineInv'
    <2> SUFFICES ASSUME NEW k \in Keys, engines[k] # NoBuild
                 PROVE  /\ engines[k] = promise'[build'[engines[k]].path]
                        /\ build'[engines[k]].opening = {}
      BY DEF EngineInv
    <2>1. engines[k] \in Builds /\ build[engines[k]].path \in Paths
      BY DEF ManagerInv, ManagerTypeOK, ManagerBuild
    <2>2. engines[k] = promise[build[engines[k]].path] /\ build[engines[k]].opening = {}
      BY DEF ManagerInv, EngineInv
    <2>3. engines[k] # b
      BY <1>2, <2>2
    <2> QED BY <1>6, <1>8, <2>1, <2>2, <2>3
  <1>12. ASSUME NEW t \in Calls PROVE Attempt(t)'
    <2>1. Attempt(t) /\ PathOf(conn[t]) \in Paths /\ call[t].build \in Builds \cup {NoBuild}
      BY AttemptOfAll DEF PathOf, Paths, ManagerInv, ManagerTypeOK, ManagerCall
    <2>2. CASE call[t].build # b
      <3>1. call[t].build # NoBuild => build'[call[t].build] = build[call[t].build]
        BY <1>6, <2>1, <2>2
      <3> QED BY <1>8, <2>1, <2>2, <3>1 DEF Attempt, Rejected
    <2>3. CASE call[t].build = b
      <3>1. build'[b].path = build[b].path
        BY <1>4, <1>6
      <3>2. call[t].op = "engine" /\ call[t].pc \in {"connectors", "model"} => call[t].pc = "connectors"
        BY <1>2, <2>1, <2>3 DEF Attempt
      <3> QED BY <1>2, <1>8, <2>1, <2>3, <3>1, <3>2 DEF Attempt
    <2> QED BY <2>2, <2>3
  <1>13. AttemptInv'
    BY <1>12 DEF AttemptInv, Attempt
  <1>14. FileInv'
    <2>1. \A f \in openFiles : f[1] \in Builds
      BY DEF ManagerInv, ManagerTypeOK, FileSets
    <2>2. \A a \in Builds : build'[a].gen = build[a].gen
      BY <1>4, <1>6
    <2>3. \A f \in openFiles' : f[1] <= nbuilds
      BY <1>2 DEF ManagerInv, FileInv
    <2>4. FilesOwned'
      BY <2>1, <2>2 DEF ManagerInv, FileInv, FilesOwned
    <2> QED BY <2>3, <2>4 DEF ManagerInv, FileInv
  <1> QED BY <1>9, <1>10, <1>11, <1>13, <1>14 DEF BuildSide

(* What nobody's call or catalog changes says nothing new of catalogs.     *)
LEMMA CatalogsRest ==
  ASSUME CatalogInv, UNCHANGED <<catalogVars, call, conn>> PROVE CatalogInv'
  BY DEF CatalogInv, catalogVars, Reader

(* A connection of a build opens or fails.                                 *)
LEMMA BuildStepKeeps ==
  ASSUME ManagerInv, NEW b \in Builds, NEW c \in Conns, BuildStep(b, c) PROVE ManagerInv'
  <1>1. /\ UNCHANGED <<generation, nbuilds, closed, held, rpc, engines, call, conn, endpoint, catalogVars>>
        /\ c \in build[b].opening
    BY DEF BuildStep, BuildFails, OpensFile, BuildsServer, engineVars, settings, callVars, resetVars
  <1>2. \/ UNCHANGED <<handles, openFiles>>
        \/ /\ build[b].gen = generation
           /\ handles' = handles \cup {<<b, c>>} /\ openFiles' = openFiles \cup {<<b, c>>}
    BY DEF BuildStep, BuildFails, OpensFile, BuildsServer, KeepsFile
  <1>3. \E opened \in BOOLEAN : Settle(b, c, opened)
    BY DEF BuildStep, BuildFails, OpensFile, BuildsServer
  <1>4. ManagerTypeOK' /\ BuildSide'
    BY <1>1, <1>2, <1>3, SettleKeeps
  <1>5. CatalogInv'
    BY <1>1, CatalogsRest DEF ManagerInv
  <1> QED BY <1>4, <1>5 DEF ManagerInv, BuildSide

(* A call that has returned awaits nothing.                                *)
LEMMA EndedAttempt ==
  ASSUME ManagerInv, NEW t \in Calls, NEW got \in Nat \cup {Never}, call'[t] = Ended(t, got),
         generation' = generation, nbuilds' \in Nat
  PROVE  Attempt(t)'
  <1>1. Ended(t, got).pc = "done" /\ Ended(t, got).gen = 0 /\ Ended(t, got).build = NoBuild
    BY ManagerInv, EndedTyped, Zenon DEF ManagerInv
  <1>2. generation \in Nat
    BY DEF ManagerInv, ManagerTypeOK
  <1> QED BY <1>1, <1>2, BuildNumbers DEF Attempt

(* A read ends, and all who joined it with it.                             *)
LEMMA EndReadKeeps ==
  ASSUME ManagerInv, NEW t \in Calls, Reader(t), NEW got \in Nat \cup {Never},
         got # Never => got >= call[t].catalogGen, EndRead(t, got),
         UNCHANGED <<generation, buildVars, catalogGeneration, lastDrop, engineVars, settings, conn,
                     resetVars>>,
         catalogs' \in [Conns -> Nat \cup {Never}],
         \A c \in Conns : catalogs'[c] = catalogs[c] \/ catalogs'[c] >= lastDrop[c]
  PROVE  ManagerInv'
  <1> DEFINE Over(u) == u = t \/ (call[u].pc = "joined" /\ call[u].on = t)
  <1>1. \A u \in Calls : call'[u] = IF Over(u) THEN Ended(u, got) ELSE call[u]
    BY DEF EndRead
  <1>2. call' \in [Calls -> ManagerCall]
    <2>1. \A u \in Calls : Ended(u, got) \in ManagerCall /\ call[u] \in ManagerCall
      BY EndedTyped DEF ManagerInv, ManagerTypeOK
    <2>2. call' = [u \in Calls |-> call'[u]]
      BY DEF EndRead
    <2>3. \A u \in Calls : call'[u] \in ManagerCall
      BY <1>1, <2>1
    <2> QED BY <2>2, <2>3, Zenon
  <1>3. inflight' \in [Conns -> Calls \cup {NoCall}]
        /\ \A c \in Conns : inflight'[c] = IF c = conn[t] /\ inflight[c] = t THEN NoCall ELSE inflight[c]
    BY DEF EndRead, ManagerInv, ManagerTypeOK
  <1>4. ManagerTypeOK'
    BY <1>2, <1>3 DEF ManagerInv, ManagerTypeOK, buildVars, engineVars, settings, resetVars
  <1>5. \A u \in Calls : call'[u] = call[u] \/ Attempt(u)'
    <2>1. nbuilds' \in Nat /\ generation' = generation
      BY BuildNumbers DEF buildVars, ManagerInv, ManagerTypeOK
    <2> QED BY <1>1, <2>1, EndedAttempt
  <1>6. BuildSide'
    <2>1. Grown /\ UNCHANGED <<generation, closed, held, rpc, handles, openFiles, engines, conn>>
      BY DEF Grown, buildVars, engineVars, resetVars
    <2> QED BY <1>4, <1>5, <2>1, CallsKeep
  <1>7. ASSUME NEW u \in Calls, Over(u)
        PROVE  /\ call'[u].pc = "done" /\ call'[u].op = "catalog"
               /\ call'[u].read # Never => call'[u].read >= call'[u].since
    <2>1. /\ call'[u].pc = "done" /\ call'[u].op = "catalog" /\ call'[u].read = got
          /\ got # Never => call'[u].since = call[u].since
      <3>1. call'[u] = Ended(u, got)
        BY <1>1, <1>7
      <3>2. /\ Ended(u, got).pc = "done" /\ Ended(u, got).op = "catalog" /\ Ended(u, got).read = got
            /\ got # Never => Ended(u, got).since = call[u].since
        BY EndedTyped, Zenon DEF ManagerInv
      <3> QED BY <3>1, <3>2
    <2>2. call[t].catalogGen >= call[u].since
      BY <1>7 DEF ManagerInv, CatalogInv
    <2>3. call[t].catalogGen \in Nat /\ call[u].since \in Nat
      BY DEF ManagerInv, ManagerTypeOK, ManagerCall
    <2> QED BY <2>1, <2>2, <2>3
  <1>8. ASSUME NEW u \in Calls, Reader(u), u # t PROVE call'[u] = call[u] /\ Reader(u)'
    <2>1. ~Over(u)
      BY <1>8 DEF Reader
    <2> QED BY <1>1, <1>8, <2>1 DEF Reader
  <1>9. ASSUME NEW c \in Conns, inflight'[c] # NoCall
        PROVE  Reader(inflight[c])' /\ conn[inflight'[c]] = c /\ call'[inflight'[c]].catalogGen >= lastDrop[c]
    <2>1. PICK i \in Calls : inflight'[c] = i /\ inflight[c] = i /\ i # NoCall
      BY <1>3, <1>9 DEF ManagerInv, ManagerTypeOK
    <2>2. Reader(i) /\ conn[i] = c /\ call[i].catalogGen >= lastDrop[c]
      BY <1>9, <2>1 DEF ManagerInv, CatalogInv
    <2>3. i # t
      BY <1>3, <1>9, <2>1, <2>2
    <2>4. call'[i] = call[i] /\ Reader(i)'
      BY <1>8, <2>2, <2>3
    <2> QED BY <2>1, <2>2, <2>4 DEF Reader
  <1>10. ASSUME NEW u \in Calls, ~Over(u), call[u].pc = "joined"
         PROVE  Reader(call[u].on)' /\ call'[call'[u].on].catalogGen >= call'[u].since /\ call'[u].on \in Calls
    <2>1. call'[u] = call[u] /\ call[u].on # t
      BY <1>1, <1>10
    <2>2. PICK o \in Calls : o = call[u].on /\ Reader(o) /\ call[o].catalogGen >= call[u].since
      BY <1>10 DEF ManagerInv, CatalogInv
    <2>3. call'[o] = call[o] /\ Reader(o)'
      BY <1>8, <2>1, <2>2
    <2> QED BY <2>1, <2>2, <2>3 DEF Reader
  <1>11. CatalogInv'
    <2>1. \A c \in Conns : /\ lastDrop[c] <= catalogGeneration
                           /\ catalogs'[c] # Never => catalogs'[c] >= lastDrop[c]
      BY DEF ManagerInv, CatalogInv
    <2>2. ASSUME NEW u \in Calls
          PROVE  /\ Reader(u)' => call'[u].since <= call'[u].catalogGen /\ call'[u].catalogGen <= catalogGeneration
                 /\ call'[u].pc = "reading" =>
                      Reader(u)' /\ call'[u].read # Never /\ call'[u].read >= call'[u].catalogGen
                 /\ call'[u].pc = "joined" =>
                      /\ call'[u].on \in Calls /\ Reader(call[u].on)'
                      /\ call'[call'[u].on].catalogGen >= call'[u].since
                 /\ call'[u].pc = "done" /\ call'[u].read # Never => call'[u].read >= call'[u].since
      <3>1. CASE Over(u)
        BY <1>7, <3>1 DEF Reader
      <3>2. CASE ~Over(u)
        <4>1. call'[u] = call[u]
          BY <1>1, <3>2
        <4>2. /\ Reader(u) => call[u].since <= call[u].catalogGen /\ call[u].catalogGen <= catalogGeneration
              /\ call[u].pc = "reading" => Reader(u) /\ call[u].read # Never /\ call[u].read >= call[u].catalogGen
              /\ call[u].pc = "done" /\ call[u].read # Never => call[u].read >= call[u].since
          BY DEF ManagerInv, CatalogInv
        <4> QED BY <1>10, <3>2, <4>1, <4>2 DEF Reader
      <3> QED BY <3>1, <3>2
    <2> QED BY <1>9, <2>1, <2>2 DEF CatalogInv
  <1> QED BY <1>4, <1>6, <1>11 DEF ManagerInv, BuildSide

(* The await of the connectors and of the catalog in a read.               *)
LEMMA ReadKeeps ==
  ASSUME ManagerInv, NEW t \in Calls, ReadConnectors(t) \/ ReadSucceeds(t) \/ ReadFails(t)
  PROVE  ManagerInv'
  <1>1. Reader(t)
    BY DEF ReadConnectors, ReadSucceeds, ReadFails, ManagerInv, CatalogInv, Reader
  <1>2. /\ call[t] \in ManagerCall /\ catalogs \in [Conns -> Nat \cup {Never}] /\ conn[t] \in Conns
        /\ catalogGeneration \in Nat /\ lastDrop[conn[t]] \in Nat
    BY DEF ManagerInv, ManagerTypeOK
  <1>3. UNCHANGED <<generation, buildVars, catalogGeneration, lastDrop, engineVars, settings, conn, resetVars>>
    BY DEF ReadConnectors, ReadSucceeds, ReadFails
  <1>4. CASE EndRead(t, Never) /\ UNCHANGED catalogs
    BY <1>1, <1>2, <1>3, <1>4, EndReadKeeps
  <1>5. CASE ReadSucceeds(t)
    <2>1. call[t].pc = "reading" /\ EndRead(t, call[t].read)
      BY <1>5 DEF ReadSucceeds
    <2>2. call[t].read \in Nat /\ call[t].read >= call[t].catalogGen
      <3>1. call[t].read # Never /\ call[t].read >= call[t].catalogGen
        BY <2>1 DEF ManagerInv, CatalogInv
      <3> QED BY <1>2, <3>1 DEF ManagerCall
    <2>3. catalogs' \in [Conns -> Nat \cup {Never}]
      BY <1>2, <1>5, <2>2 DEF ReadSucceeds
    <2>4. \A c \in Conns : catalogs'[c] = catalogs[c] \/ catalogs'[c] >= lastDrop[c]
      <3>1. CASE UNCHANGED catalogs
        BY <3>1
      <3>2. CASE MayCache(t) /\ catalogs' = [catalogs EXCEPT ![conn[t]] = call[t].read]
        <4>1. call[t].read >= lastDrop[conn[t]]
          BY <1>2, <2>2, <3>2 DEF MayCache, ManagerInv, CatalogInv
        <4> QED BY <1>2, <3>2, <4>1
      <3> QED BY <1>5, <3>1, <3>2 DEF ReadSucceeds
    <2> QED BY <1>1, <1>3, <2>1, <2>2, <2>3, <2>4, EndReadKeeps
  <1>6. CASE /\ call' = [call EXCEPT ![t].pc = "reading", ![t].read = catalogGeneration]
             /\ UNCHANGED <<inflight, catalogs>>
    <2> DEFINE r == [call[t] EXCEPT !.pc = "reading", !.read = catalogGeneration]
    <2>1. /\ r \in ManagerCall /\ r.pc = "reading" /\ r.op = call[t].op /\ r.gen = call[t].gen
          /\ r.catalogGen = call[t].catalogGen /\ r.since = call[t].since
          /\ r.read = catalogGeneration /\ r.build = call[t].build
      BY <1>2 DEF ManagerCall
    <2>2. call' = [call EXCEPT ![t] = r]
      BY <1>6 DEF ManagerInv, ManagerTypeOK
    <2> HIDE DEF r
    <2>3. /\ call' \in [Calls -> ManagerCall] /\ call'[t] = r
          /\ \A u \in Calls : u # t => call'[u] = call[u]
      BY <2>1, <2>2, CallPut DEF ManagerInv
    <2>4. ManagerTypeOK'
      BY <1>3, <1>6, <2>3 DEF ManagerInv, ManagerTypeOK, buildVars, engineVars, settings, resetVars
    <2>5. Attempt(t)'
      <3>1. Attempt(t)
        BY AttemptOfAll
      <3> QED BY <1>1, <1>3, <2>1, <2>3, <3>1 DEF Attempt, Reader, buildVars
    <2>6. BuildSide'
      <3>1. Grown /\ UNCHANGED <<generation, closed, held, rpc, handles, openFiles, engines, conn>>
        BY <1>3 DEF Grown, buildVars, engineVars, resetVars
      <3> QED BY <2>3, <2>4, <2>5, <3>1, CallsKeep
    <2>7. \A u \in Calls : Reader(u)' <=> Reader(u)
      BY <1>1, <2>1, <2>3 DEF Reader
    <2>8. \A u \in Calls : call'[u].catalogGen = call[u].catalogGen /\ call'[u].since = call[u].since
      BY <2>1, <2>3
    <2>9. CatalogInv'
      <3>1. ASSUME NEW c \in Conns, inflight'[c] # NoCall
            PROVE  Reader(inflight[c])' /\ conn'[inflight'[c]] = c /\ call'[inflight'[c]].catalogGen >= lastDrop'[c]
        <4>1. PICK i \in Calls : inflight'[c] = i /\ inflight[c] = i /\ i # NoCall
          BY <1>6, <3>1 DEF ManagerInv, ManagerTypeOK
        <4>2. Reader(i) /\ conn[i] = c /\ call[i].catalogGen >= lastDrop[c]
          BY <4>1 DEF ManagerInv, CatalogInv
        <4>3. Reader(i)'
          BY <2>7, <4>2
        <4> QED BY <1>3, <2>8, <4>1, <4>2, <4>3 DEF Reader
      <3>2. ASSUME NEW u \in Calls, u # t, call[u].pc = "joined"
            PROVE  /\ call'[u].on \in Calls /\ Reader(call[u].on)'
                   /\ call'[call'[u].on].catalogGen >= call'[u].since
        <4>1. PICK o \in Calls : o = call[u].on /\ Reader(o) /\ call[o].catalogGen >= call[u].since
          BY <3>2 DEF ManagerInv, CatalogInv
        <4>2. call'[u] = call[u] /\ Reader(o)'
          BY <2>3, <2>7, <3>2, <4>1
        <4> QED BY <2>8, <4>1, <4>2 DEF Reader
      <3>3. ASSUME NEW u \in Calls
            PROVE  /\ Reader(u) => call[u].since <= call[u].catalogGen /\ call[u].catalogGen <= catalogGeneration
                   /\ call[u].pc = "reading" => Reader(u) /\ call[u].read # Never /\ call[u].read >= call[u].catalogGen
                   /\ call[u].pc = "done" /\ call[u].read # Never => call[u].read >= call[u].since
        BY DEF ManagerInv, CatalogInv
      <3>4. ASSUME NEW u \in Calls
            PROVE  /\ Reader(u)' => call'[u].since <= call'[u].catalogGen /\ call'[u].catalogGen <= catalogGeneration'
                   /\ call'[u].pc = "reading" =>
                        Reader(u)' /\ call'[u].read # Never /\ call'[u].read >= call'[u].catalogGen
                   /\ call'[u].pc = "joined" =>
                        /\ call'[u].on \in Calls /\ Reader(call[u].on)'
                        /\ call'[call'[u].on].catalogGen >= call'[u].since
                   /\ call'[u].pc = "done" /\ call'[u].read # Never => call'[u].read >= call'[u].since
        <4>1. CASE u = t
          <5>1. call[t].since <= call[t].catalogGen /\ call[t].catalogGen <= catalogGeneration
            BY <1>1, <3>3
          <5>2. catalogGeneration # Never /\ catalogGeneration' = catalogGeneration
            BY <1>2, <1>3 DEF Never
          <5>3. call[t].catalogGen \in Nat
            BY <1>2 DEF ManagerCall
          <5> QED BY <1>1, <1>2, <2>1, <2>3, <2>7, <4>1, <5>1, <5>2, <5>3
        <4>2. CASE u # t
          BY <1>3, <2>3, <2>7, <3>2, <3>3, <4>2
        <4> QED BY <4>1, <4>2
      <3> QED BY <1>3, <1>6, <3>1, <3>4 DEF ManagerInv, CatalogInv
    <2> QED BY <2>4, <2>6, <2>9 DEF ManagerInv, BuildSide
  <1> QED BY <1>4, <1>5, <1>6 DEF ReadConnectors, ReadFails

(* A call that reads no catalog, before and after.                         *)
LEMMA CatalogsAside ==
  ASSUME ManagerInv, UNCHANGED <<catalogVars, conn>>, NEW t \in Calls, ~Reader(t), ~Reader(t)',
         call'[t].pc \notin {"reading", "joined"}, call'[t].pc = "done" => call'[t].read = Never,
         \A u \in Calls : u # t => call'[u] = call[u]
  PROVE  CatalogInv'
  <1>1. \A u \in Calls : Reader(u) => call'[u] = call[u] /\ Reader(u)'
    BY DEF Reader
  <1>2. ASSUME NEW c \in Conns, inflight'[c] # NoCall
        PROVE  Reader(inflight[c])' /\ conn'[inflight'[c]] = c /\ call'[inflight'[c]].catalogGen >= lastDrop'[c]
    <2>1. PICK i \in Calls : inflight'[c] = i /\ inflight[c] = i /\ i # NoCall
      BY <1>2 DEF ManagerInv, ManagerTypeOK, catalogVars
    <2>2. Reader(i) /\ conn[i] = c /\ call[i].catalogGen >= lastDrop[c]
      BY <2>1 DEF ManagerInv, CatalogInv
    <2> QED BY <1>1, <2>1, <2>2 DEF Reader, catalogVars
  <1>3. ASSUME NEW u \in Calls
        PROVE  /\ Reader(u)' => call'[u].since <= call'[u].catalogGen /\ call'[u].catalogGen <= catalogGeneration'
               /\ call'[u].pc = "reading" =>
                    Reader(u)' /\ call'[u].read # Never /\ call'[u].read >= call'[u].catalogGen
               /\ call'[u].pc = "joined" =>
                    /\ call'[u].on \in Calls /\ Reader(call[u].on)'
                    /\ call'[call'[u].on].catalogGen >= call'[u].since
               /\ call'[u].pc = "done" /\ call'[u].read # Never => call'[u].read >= call'[u].since
    <2>1. CASE u = t
      BY <2>1
    <2>2. CASE u # t
      <3>1. call'[u] = call[u]
        BY <2>2
      <3>2. /\ Reader(u) => call[u].since <= call[u].catalogGen /\ call[u].catalogGen <= catalogGeneration
            /\ call[u].pc = "reading" => Reader(u) /\ call[u].read # Never /\ call[u].read >= call[u].catalogGen
            /\ call[u].pc = "done" /\ call[u].read # Never => call[u].read >= call[u].since
        BY DEF ManagerInv, CatalogInv
      <3>3. ASSUME call[u].pc = "joined"
            PROVE  /\ call'[u].on \in Calls /\ Reader(call[u].on)'
                   /\ call'[call'[u].on].catalogGen >= call'[u].since
        <4>1. PICK o \in Calls : o = call[u].on /\ Reader(o) /\ call[o].catalogGen >= call[u].since
          BY <3>3 DEF ManagerInv, CatalogInv
        <4> QED BY <1>1, <3>1, <4>1 DEF Reader
      <3> QED BY <3>1, <3>2, <3>3 DEF Reader, catalogVars
    <2> QED BY <2>1, <2>2
  <1>4. \A c \in Conns : /\ lastDrop'[c] <= catalogGeneration'
                         /\ catalogs'[c] # Never => catalogs'[c] >= lastDrop'[c]
    BY DEF ManagerInv, CatalogInv, catalogVars
  <1> QED BY <1>2, <1>3, <1>4 DEF CatalogInv

(* A call that reads no catalog gets the record r.                         *)
LEMMA EngineStep ==
  ASSUME ManagerInv, NEW t \in Calls, NEW r \in ManagerCall, call' = [call EXCEPT ![t] = r],
         ~Reader(t), r.pc \in {"connectors", "model", "retry", "done"},
         r.op = "engine" \/ r.op = "explain" \/ (r.pc = "done" /\ r.op = "catalog"),
         r.pc = "done" => r.read = Never,
         Grown, nbuilds' \in 0 .. MaxBuilds, promise' \in [Paths -> Builds \cup {NoBuild}],
         build' \in [Builds -> ManagerBuild], Attempt(t)',
         UNCHANGED <<generation, handles, openFiles, catalogVars, engines, endpoint, conn, resetVars>>
  PROVE  ManagerInv'
  <1>1. /\ call' \in [Calls -> ManagerCall] /\ call'[t] = r
        /\ \A u \in Calls : u # t => call'[u] = call[u]
    BY CallPut DEF ManagerInv
  <1>2. ManagerTypeOK'
    BY <1>1 DEF ManagerInv, ManagerTypeOK, catalogVars, resetVars
  <1>3. BuildSide'
    BY <1>1, <1>2, CallsKeep DEF resetVars
  <1>4. ~Reader(t)'
    BY <1>1 DEF Reader
  <1>5. CatalogInv'
    BY <1>1, <1>4, CatalogsAside
  <1> QED BY <1>2, <1>3, <1>5 DEF ManagerInv, BuildSide

(* What a call of sharedConnectors() leaves well typed.                    *)
LEMMA SharedGrows ==
  ASSUME ManagerInv, NEW p \in Paths, NEW b \in Builds, Shared(p, b)
  PROVE  /\ Grown /\ nbuilds' \in 0 .. MaxBuilds /\ promise' \in [Paths -> Builds \cup {NoBuild}]
         /\ build' \in [Builds -> ManagerBuild] /\ promise'[p] = b /\ b <= nbuilds'
         /\ build'[b].path = p /\ b # NoBuild
  <1>1. Extended(p, b)
    BY SharedExtends DEF ManagerInv
  <1>2. b # NoBuild
    BY BuildNumbers
  <1> QED BY <1>1, <1>2 DEF Extended, Grown

(* A call that returns without having read a catalog.                      *)
LEMMA EndsEngine ==
  ASSUME ManagerInv, NEW t \in Calls, ~Reader(t), call' = [call EXCEPT ![t] = Ended(t, Never)],
         UNCHANGED <<generation, promise, build, nbuilds, handles, openFiles, catalogVars, engines, endpoint,
                     conn, resetVars>>
  PROVE  ManagerInv'
  <1>1. /\ Ended(t, Never) \in ManagerCall /\ Ended(t, Never).pc = "done" /\ Ended(t, Never).op = "catalog"
        /\ Ended(t, Never).read = Never
    <2>1. Never \in Nat \cup {Never} /\ ManagerTypeOK
      BY DEF ManagerInv
    <2> QED BY <2>1, EndedTyped
  <1>2. /\ nbuilds' \in 0 .. MaxBuilds /\ promise' \in [Paths -> Builds \cup {NoBuild}]
        /\ build' \in [Builds -> ManagerBuild] /\ Grown /\ nbuilds' \in Nat
    BY BuildNumbers DEF ManagerInv, ManagerTypeOK, Grown
  <1>3. call'[t] = Ended(t, Never)
    BY DEF ManagerInv, ManagerTypeOK
  <1>4. Attempt(t)'
    BY <1>2, <1>3, EndedAttempt
  <1> QED BY <1>1, <1>2, <1>4, EngineStep

(* A call that begins to await the connectors, for an engine or a plan.    *)
LEMMA AwaitsKeep ==
  ASSUME ManagerInv, NEW t \in Calls, ~Reader(t), NEW p \in Paths, NEW b \in Builds, Shared(p, b),
         NEW r \in ManagerCall, call' = [call EXCEPT ![t] = r], r.pc = "connectors", r.build = b,
         (r.op = "engine" /\ p = PathOf(conn[t])) \/ r.op = "explain", r.gen <= generation,
         UNCHANGED <<generation, handles, openFiles, catalogVars, engines, endpoint, conn, resetVars>>
  PROVE  ManagerInv'
  <1>1. /\ Grown /\ nbuilds' \in 0 .. MaxBuilds /\ promise' \in [Paths -> Builds \cup {NoBuild}]
        /\ build' \in [Builds -> ManagerBuild] /\ promise'[p] = b /\ b <= nbuilds'
        /\ build'[b].path = p /\ b # NoBuild
    BY SharedGrows
  <1>2. call'[t] = r
    BY DEF ManagerInv, ManagerTypeOK
  <1>3. Attempt(t)'
    BY <1>1, <1>2 DEF Attempt
  <1> QED BY <1>1, <1>3, EngineStep

(* engineFor() or mongoEngineFor() begins, or tries again.                 *)
LEMMA EngineForKeeps ==
  ASSUME ManagerInv, NEW t \in Calls, EngineFor(t) PROVE ManagerInv'
  <1>1. /\ call[t].pc \in {"idle", "retry"} /\ ~Reader(t) /\ PathOf(conn[t]) \in Paths
        /\ UNCHANGED <<generation, handles, openFiles, catalogVars, engines, endpoint, conn, resetVars>>
    BY DEF EngineFor, Reader, engineVars, settings, PathOf, Paths
  <1>2. CASE call' = [call EXCEPT ![t] = Ended(t, Never)] /\ UNCHANGED <<promise, build, nbuilds>>
    BY <1>1, <1>2, EndsEngine
  <1>3. ASSUME NEW l \in ManagerCall, l.op = "engine", NEW b \in Builds, Shared(PathOf(conn[t]), b),
               call' = [call EXCEPT ![t] = [l EXCEPT !.pc = "connectors", !.gen = generation, !.build = b]]
        PROVE  ManagerInv'
    <2> DEFINE r == [l EXCEPT !.pc = "connectors", !.gen = generation, !.build = b]
    <2>1. generation \in Nat
      BY DEF ManagerInv, ManagerTypeOK
    <2>2. r \in ManagerCall /\ r.pc = "connectors" /\ r.gen = generation /\ r.build = b /\ r.op = "engine"
      BY <1>3, <2>1 DEF ManagerCall
    <2> HIDE DEF r
    <2>3. call' = [call EXCEPT ![t] = r] /\ r.gen <= generation
      BY <1>3, <2>1, <2>2 DEF r
    <2> QED BY <1>1, <1>3, <2>2, <2>3, AwaitsKeep
  <1>4. [NewCall EXCEPT !.op = "engine"] \in ManagerCall /\ [NewCall EXCEPT !.op = "engine"].op = "engine"
    BY NewCallTyped DEF NewCall, ManagerCall
  <1>5. call[t] \in ManagerCall /\ (call[t].pc = "retry" => call[t].op = "engine")
    BY DEF ManagerInv, ManagerTypeOK, AttemptInv
  <1> DEFINE l == IF call[t].pc = "idle" THEN [NewCall EXCEPT !.op = "engine"] ELSE call[t]
  <1>6. l \in ManagerCall /\ l.op = "engine"
    BY <1>1, <1>4, <1>5
  <1>7. \/ call' = [call EXCEPT ![t] = Ended(t, Never)] /\ UNCHANGED <<promise, build, nbuilds>>
        \/ \E b \in Builds :
             /\ Shared(PathOf(conn[t]), b)
             /\ call' = [call EXCEPT ![t] = [l EXCEPT !.pc = "connectors", !.gen = generation, !.build = b]]
    BY DEF EngineFor
  <1> HIDE DEF l
  <1> QED BY <1>2, <1>3, <1>6, <1>7

(* explain() begins.                                                       *)
LEMMA ExplainKeeps ==
  ASSUME ManagerInv, NEW t \in Calls, Explain(t) PROVE ManagerInv'
  <1>1. /\ ~Reader(t) /\ "sql" \in Paths
        /\ UNCHANGED <<generation, handles, openFiles, catalogVars, engines, endpoint, conn, resetVars>>
    BY DEF Explain, Reader, engineVars, settings, Paths
  <1>2. PICK b \in Builds :
          /\ Shared("sql", b)
          /\ call' = [call EXCEPT ![t] = [NewCall EXCEPT !.pc = "connectors", !.op = "explain", !.build = b]]
    BY DEF Explain
  <1> DEFINE r == [NewCall EXCEPT !.pc = "connectors", !.op = "explain", !.build = b]
  <1>3. r \in ManagerCall /\ r.pc = "connectors" /\ r.gen = 0 /\ r.build = b /\ r.op = "explain"
    BY NewCallTyped DEF NewCall, ManagerCall
  <1> HIDE DEF r
  <1>4. call' = [call EXCEPT ![t] = r] /\ r.gen <= generation
    BY <1>2, <1>3 DEF r, ManagerInv, ManagerTypeOK
  <1> QED BY <1>1, <1>2, <1>3, <1>4, AwaitsKeep

(* The connectors are there, and the model is wanted.                      *)
LEMMA EngineConnectorsKeep ==
  ASSUME ManagerInv, NEW t \in Calls, EngineConnectors(t) PROVE ManagerInv'
  <1>1. /\ ~Reader(t) /\ call[t].pc = "connectors" /\ call[t].op \in {"engine", "explain"}
        /\ Settled(call[t].build) /\ call[t] \in ManagerCall
        /\ UNCHANGED <<generation, promise, build, nbuilds, handles, openFiles, catalogVars, engines, endpoint,
                       conn, resetVars>>
    BY DEF EngineConnectors, Reader, engineVars, settings, buildVars, ManagerInv, ManagerTypeOK
  <1>2. CASE call' = [call EXCEPT ![t] = Ended(t, Never)]
    BY <1>1, <1>2, EndsEngine
  <1>3. CASE /\ call[t].op = "engine"
             /\ conn[t] \notin Mongo => ~Rejected(call[t].build)
             /\ call' = [call EXCEPT ![t] = [call[t] EXCEPT !.pc = "model"]]
    <2> DEFINE r == [call[t] EXCEPT !.pc = "model"]
    <2>1. r \in ManagerCall /\ r.pc = "model" /\ r.op = "engine" /\ r.gen = call[t].gen /\ r.build = call[t].build
      BY <1>1, <1>3 DEF ManagerCall
    <2>2. call' = [call EXCEPT ![t] = r]
      BY <1>3
    <2> HIDE DEF r
    <2>3. call'[t] = r
      BY <2>2 DEF ManagerInv, ManagerTypeOK
    <2>4. Attempt(t)
      BY AttemptOfAll
    <2>5. ~Rejected(call[t].build)
      BY <1>1, <1>3, <2>4 DEF Attempt, PathOf, Rejected
    <2>6. Attempt(t)'
      BY <1>1, <1>3, <2>1, <2>3, <2>4, <2>5 DEF Attempt, Settled
    <2>7. /\ Grown /\ nbuilds' \in 0 .. MaxBuilds /\ promise' \in [Paths -> Builds \cup {NoBuild}]
          /\ build' \in [Builds -> ManagerBuild]
      BY <1>1 DEF Grown, ManagerInv, ManagerTypeOK
    <2> QED BY <1>1, <2>1, <2>2, <2>6, <2>7, EngineStep
  <1> QED BY <1>1, <1>2, <1>3 DEF EngineConnectors

(* The model is resolved: the engine is kept, or everything tried again.   *)
LEMMA ModelKeeps ==
  ASSUME ManagerInv, NEW t \in Calls, ModelResolves(t) \/ ModelFails(t) PROVE ManagerInv'
  <1>1. /\ ~Reader(t) /\ call[t].pc = "model" /\ call[t] \in ManagerCall /\ Attempt(t)
        /\ UNCHANGED <<generation, promise, build, nbuilds, handles, openFiles, catalogVars, endpoint,
                       conn, resetVars>>
    BY AttemptOfAll DEF ModelResolves, ModelFails, Reader, settings, buildVars, ManagerInv, ManagerTypeOK
  <1>2. CASE call' = [call EXCEPT ![t] = Ended(t, Never)] /\ UNCHANGED engines
    BY <1>1, <1>2, EndsEngine
  <1>3. CASE call' = [call EXCEPT ![t].pc = "retry", ![t].attempt = @ + 1] /\ UNCHANGED engines
    <2> DEFINE r == [call[t] EXCEPT !.pc = "retry", !.attempt = call[t].attempt + 1]
    <2>1. call[t].attempt + 1 \in Nat
      BY <1>1 DEF ManagerCall
    <2>2. r \in ManagerCall /\ r.pc = "retry" /\ r.op = call[t].op /\ r.gen = call[t].gen /\ r.build = call[t].build
      BY <1>1, <2>1 DEF ManagerCall
    <2>3. call' = [call EXCEPT ![t] = r]
      BY <1>3 DEF ManagerInv, ManagerTypeOK
    <2> HIDE DEF r
    <2>4. call'[t] = r
      BY <2>3 DEF ManagerInv, ManagerTypeOK
    <2>5. Attempt(t)' /\ call[t].op = "engine"
      BY <1>1, <2>2, <2>4 DEF Attempt
    <2>6. /\ Grown /\ nbuilds' \in 0 .. MaxBuilds /\ promise' \in [Paths -> Builds \cup {NoBuild}]
          /\ build' \in [Builds -> ManagerBuild]
      BY <1>1 DEF Grown, ManagerInv, ManagerTypeOK
    <2> QED BY <1>1, <1>3, <2>2, <2>3, <2>5, <2>6, EngineStep
  <1>4. CASE /\ StillCurrent(t) /\ engines' = [engines EXCEPT ![KeyOf(conn[t])] = call[t].build]
             /\ call' = [call EXCEPT ![t] = Ended(t, Never)]
    <2>1. /\ call[t].build # NoBuild /\ build[call[t].build].path = PathOf(conn[t])
          /\ build[call[t].build].opening = {} /\ promise[PathOf(conn[t])] = call[t].build
          /\ call[t].build \in Builds \cup {NoBuild}
      BY <1>1, <1>4 DEF Attempt, StillCurrent, ManagerCall
    <2>2. /\ engines' \in [Keys -> Builds \cup {NoBuild}]
          /\ \A k \in Keys : engines'[k] \in {engines[k], call[t].build}
      BY <1>4, <2>1 DEF ManagerInv, ManagerTypeOK
    <2>3. /\ Ended(t, Never) \in ManagerCall /\ Ended(t, Never).pc = "done" /\ Ended(t, Never).op = "catalog"
          /\ Ended(t, Never).read = Never
      BY EndedTyped DEF ManagerInv
    <2>4. /\ call' \in [Calls -> ManagerCall] /\ call'[t] = Ended(t, Never)
          /\ \A u \in Calls : u # t => call'[u] = call[u]
      BY <1>4, <2>3, CallPut DEF ManagerInv
    <2>5. ManagerTypeOK'
      BY <1>1, <2>2, <2>4 DEF ManagerInv, ManagerTypeOK, catalogVars, resetVars
    <2>6. Attempt(t)'
      <3>1. nbuilds' \in Nat
        BY <1>1, BuildNumbers DEF ManagerInv, ManagerTypeOK
      <3> QED BY <1>1, <2>4, <3>1, EndedAttempt
    <2>7. CatalogInv'
      <3>1. ~Reader(t)'
        BY <2>3, <2>4 DEF Reader
      <3> QED BY <1>1, <2>3, <2>4, <3>1, CatalogsAside
    <2>8. EngineInv'
      BY <1>1, <2>1, <2>2 DEF ManagerInv, EngineInv
    <2>9. AttemptInv' /\ BuildInv'
      <3>1. \A u \in Calls : Attempt(u)'
        <4>1. \A u \in Calls : Attempt(u)
          BY AttemptOfAll
        <4>2. ASSUME NEW u \in Calls, u # t PROVE Attempt(u)'
          <5>1. call'[u] = call[u] /\ Attempt(u)
            BY <2>4, <4>1, <4>2
          <5> QED BY <1>1, <5>1 DEF Attempt, Rejected
        <4> QED BY <2>6, <4>2
      <3>2. AttemptInv'
        BY <3>1 DEF AttemptInv, Attempt
      <3>3. \A u \in Calls : call'[u].build <= nbuilds'
        BY <3>1 DEF Attempt
      <3> QED BY <1>1, <3>2, <3>3 DEF ManagerInv, BuildInv, resetVars
    <2>10. FileInv'
      BY <1>1 DEF ManagerInv, FileInv, FilesOwned, resetVars
    <2> QED BY <2>5, <2>7, <2>8, <2>9, <2>10 DEF ManagerInv
  <1> QED BY <1>2, <1>3, <1>4 DEF ModelResolves, ModelFails, engineVars

(* A call begins to ask for a catalog: r is what becomes of it.            *)
LEMMA StartKeeps ==
  ASSUME ManagerInv, NEW t \in Calls, call[t].pc = "idle",
         NEW r \in ManagerCall, call' = [call EXCEPT ![t] = r], r.op \in {"catalog", "test"},
         r.gen <= generation, r.build <= nbuilds', r.pc \in {"done", "joined", "connectors"},
         Grown, nbuilds' \in 0 .. MaxBuilds, promise' \in [Paths -> Builds \cup {NoBuild}],
         build' \in [Builds -> ManagerBuild],
         UNCHANGED <<generation, handles, openFiles, engines, endpoint, conn, resetVars>>,
         catalogGeneration' \in Nat, catalogGeneration <= catalogGeneration',
         catalogs' \in [Conns -> Nat \cup {Never}], lastDrop' \in [Conns -> Nat],
         \A c \in Conns : /\ lastDrop'[c] <= catalogGeneration'
                          /\ catalogs'[c] # Never => catalogs'[c] >= lastDrop'[c],
         inflight' \in [Conns -> Calls \cup {NoCall}],
         \A c \in Conns : \/ inflight'[c] = inflight[c] /\ lastDrop'[c] = lastDrop[c]
                          \/ c = conn[t] /\ inflight'[c] = t /\ r.pc = "connectors" /\ r.catalogGen >= lastDrop'[c],
         r.pc = "connectors" => r.since <= r.catalogGen /\ r.catalogGen <= catalogGeneration',
         r.pc = "joined" => r.on \in Calls /\ Reader(r.on) /\ call[r.on].catalogGen >= r.since,
         r.pc = "done" /\ r.read # Never => r.read >= r.since
  PROVE  ManagerInv'
  <1>1. /\ call' \in [Calls -> ManagerCall] /\ call'[t] = r
        /\ \A u \in Calls : u # t => call'[u] = call[u]
    BY CallPut DEF ManagerInv
  <1>2. ManagerTypeOK'
    BY <1>1 DEF ManagerInv, ManagerTypeOK, resetVars
  <1>3. Attempt(t)'
    BY <1>1 DEF Attempt
  <1>4. BuildSide'
    BY <1>1, <1>2, <1>3, CallsKeep DEF resetVars
  <1>5. \A u \in Calls : Reader(u) => u # t /\ call'[u] = call[u] /\ Reader(u)'
    BY <1>1 DEF Reader
  <1>6. ASSUME NEW c \in Conns, inflight'[c] # NoCall
        PROVE  Reader(inflight[c])' /\ conn'[inflight'[c]] = c /\ call'[inflight'[c]].catalogGen >= lastDrop'[c]
    <2>1. CASE inflight'[c] = inflight[c] /\ lastDrop'[c] = lastDrop[c]
      <3>1. PICK i \in Calls : inflight'[c] = i /\ inflight[c] = i /\ i # NoCall
        BY <1>6, <2>1 DEF ManagerInv, ManagerTypeOK
      <3>2. Reader(i) /\ conn[i] = c /\ call[i].catalogGen >= lastDrop[c]
        BY <3>1 DEF ManagerInv, CatalogInv
      <3> QED BY <1>5, <2>1, <3>1, <3>2 DEF Reader
    <2>2. CASE c = conn[t] /\ inflight'[c] = t /\ r.pc = "connectors" /\ r.catalogGen >= lastDrop'[c]
      BY <1>1, <2>2 DEF Reader
    <2> QED BY <2>1, <2>2
  <1>7. ASSUME NEW u \in Calls
        PROVE  /\ Reader(u)' => call'[u].since <= call'[u].catalogGen /\ call'[u].catalogGen <= catalogGeneration'
               /\ call'[u].pc = "reading" =>
                    Reader(u)' /\ call'[u].read # Never /\ call'[u].read >= call'[u].catalogGen
               /\ call'[u].pc = "joined" =>
                    /\ call'[u].on \in Calls /\ Reader(call[u].on)'
                    /\ call'[call'[u].on].catalogGen >= call'[u].since
               /\ call'[u].pc = "done" /\ call'[u].read # Never => call'[u].read >= call'[u].since
    <2>1. CASE u = t
      <3>1. /\ Reader(u)' => call'[u].since <= call'[u].catalogGen /\ call'[u].catalogGen <= catalogGeneration'
            /\ call'[u].pc # "reading"
            /\ call'[u].pc = "done" /\ call'[u].read # Never => call'[u].read >= call'[u].since
        BY <1>1, <2>1 DEF Reader
      <3>2. ASSUME call'[u].pc = "joined"
            PROVE  /\ call'[u].on \in Calls /\ Reader(call[u].on)'
                   /\ call'[call'[u].on].catalogGen >= call'[u].since
        <4>1. PICK o \in Calls : o = r.on /\ Reader(o) /\ call[o].catalogGen >= r.since
          BY <1>1, <2>1, <3>2
        <4>2. call'[o] = call[o] /\ Reader(o)' /\ call'[u].on = o /\ call'[u].since = r.since
          BY <1>1, <1>5, <2>1, <4>1
        <4> QED BY <4>1, <4>2 DEF Reader
      <3> QED BY <3>1, <3>2
    <2>2. CASE u # t
      <3>1. call'[u] = call[u]
        BY <1>1, <2>2
      <3>2. /\ Reader(u) => call[u].since <= call[u].catalogGen /\ call[u].catalogGen <= catalogGeneration
            /\ call[u].pc = "reading" => Reader(u) /\ call[u].read # Never /\ call[u].read >= call[u].catalogGen
            /\ call[u].pc = "done" /\ call[u].read # Never => call[u].read >= call[u].since
        BY DEF ManagerInv, CatalogInv
      <3>3. ASSUME call[u].pc = "joined"
            PROVE  /\ call'[u].on \in Calls /\ Reader(call[u].on)'
                   /\ call'[call'[u].on].catalogGen >= call'[u].since
        <4>1. PICK o \in Calls : o = call[u].on /\ Reader(o) /\ call[o].catalogGen >= call[u].since
          BY <3>3 DEF ManagerInv, CatalogInv
        <4> QED BY <1>5, <3>1, <4>1 DEF Reader
      <3>4. call[u].catalogGen \in Nat /\ catalogGeneration \in Nat
        BY DEF ManagerInv, ManagerTypeOK, ManagerCall
      <3>5. Reader(u)' => call'[u].since <= call'[u].catalogGen /\ call'[u].catalogGen <= catalogGeneration'
        BY <3>1, <3>2, <3>4 DEF Reader
      <3>6. call'[u].pc = "reading" => Reader(u)' /\ call'[u].read # Never /\ call'[u].read >= call'[u].catalogGen
        BY <3>1, <3>2 DEF Reader
      <3> QED BY <3>1, <3>2, <3>3, <3>5, <3>6
    <2> QED BY <2>1, <2>2
  <1>8. CatalogInv'
    BY <1>6, <1>7 DEF CatalogInv
  <1> QED BY <1>2, <1>4, <1>8 DEF ManagerInv, BuildSide

(* catalogFor: from the cache, from another's read or by one of its own.   *)
LEMMA CatalogForKeeps ==
  ASSUME ManagerInv, NEW t \in Calls, call[t].pc = "idle",
         NEW l \in ManagerCall, l.op \in {"catalog", "test"}, l.gen = 0, l.build = NoBuild,
         l.since = lastDrop'[conn[t]],
         UNCHANGED <<generation, handles, openFiles, engines, endpoint, conn, resetVars>>,
         catalogGeneration' \in Nat, catalogGeneration <= catalogGeneration',
         catalogs' \in [Conns -> Nat \cup {Never}], lastDrop' \in [Conns -> Nat],
         \A c \in Conns : /\ lastDrop'[c] <= catalogGeneration'
                          /\ catalogs'[c] # Never => catalogs'[c] >= lastDrop'[c]
                          /\ c # conn[t] => lastDrop'[c] = lastDrop[c],
         l.op = "test" => catalogs'[conn[t]] = Never,
         l.op # "test" => lastDrop' = lastDrop,
         CatalogFor(t, l)
  PROVE  ManagerInv'
  <1>1. /\ conn[t] \in Conns /\ generation \in Nat /\ nbuilds \in Nat /\ 0 = NoBuild
        /\ inflight \in [Conns -> Calls \cup {NoCall}] /\ lastDrop'[conn[t]] \in Nat
        /\ catalogs'[conn[t]] \in Nat \cup {Never} /\ PathOf(conn[t]) \in Paths
    BY BuildNumbers DEF ManagerInv, ManagerTypeOK, PathOf, Paths
  <1>2. /\ Grown => nbuilds' \in Nat
        /\ UNCHANGED <<promise, build, nbuilds>> =>
             /\ Grown /\ nbuilds' \in 0 .. MaxBuilds /\ promise' \in [Paths -> Builds \cup {NoBuild}]
             /\ build' \in [Builds -> ManagerBuild] /\ nbuilds' \in Nat
    BY <1>1, GrownKeeps DEF Grown, ManagerInv, ManagerTypeOK
  <1>3. CASE /\ catalogs'[conn[t]] # Never /\ UNCHANGED <<promise, build, nbuilds>>
             /\ call' = [call EXCEPT ![t] = [l EXCEPT !.pc = "done", !.read = catalogs'[conn[t]]]]
             /\ inflight' = [inflight EXCEPT ![conn[t]] = IF l.op = "test" THEN NoCall ELSE @]
    <2> DEFINE r == [l EXCEPT !.pc = "done", !.read = catalogs'[conn[t]]]
    <2>1. /\ r \in ManagerCall /\ r.pc = "done" /\ r.op = l.op /\ r.gen = l.gen /\ r.build = l.build
          /\ r.read = catalogs'[conn[t]] /\ r.since = l.since
      BY <1>1 DEF ManagerCall
    <2>2. call' = [call EXCEPT ![t] = r]
      BY <1>3
    <2> HIDE DEF r
    <2>3. l.op # "test" /\ inflight' = inflight /\ lastDrop' = lastDrop
      BY <1>1, <1>3
    <2>4. r.read >= r.since /\ r.gen <= generation /\ r.build <= nbuilds'
      BY <1>1, <1>2, <1>3, <2>1
    <2>5. \A c \in Conns : inflight'[c] = inflight[c] /\ lastDrop'[c] = lastDrop[c]
      BY <2>3
    <2> QED BY <1>1, <1>2, <1>3, <2>1, <2>2, <2>3, <2>4, <2>5, StartKeeps
  <1>4. CASE /\ inflight[conn[t]] # NoCall /\ l.op # "test" /\ UNCHANGED <<inflight, promise, build, nbuilds>>
             /\ call' = [call EXCEPT ![t] = [l EXCEPT !.pc = "joined", !.on = inflight[conn[t]]]]
    <2> DEFINE r == [l EXCEPT !.pc = "joined", !.on = inflight[conn[t]]]
    <2>1. inflight[conn[t]] \in Calls \cup {NoCall}
      BY <1>1
    <2>2. /\ r \in ManagerCall /\ r.pc = "joined" /\ r.op = l.op /\ r.gen = l.gen /\ r.build = l.build
          /\ r.on = inflight[conn[t]] /\ r.since = l.since
      BY <2>1 DEF ManagerCall
    <2>3. call' = [call EXCEPT ![t] = r]
      BY <1>4
    <2> HIDE DEF r
    <2>4. /\ Reader(inflight[conn[t]]) /\ call[inflight[conn[t]]].catalogGen >= lastDrop[conn[t]]
          /\ inflight[conn[t]] \in Calls
      BY <1>1, <1>4, <2>1 DEF ManagerInv, CatalogInv
    <2>5. r.on \in Calls /\ Reader(r.on) /\ call[r.on].catalogGen >= r.since
      BY <1>4, <2>2, <2>4 DEF Reader
    <2>6. r.gen <= generation /\ r.build <= nbuilds'
      BY <1>1, <1>2, <1>4, <2>2
    <2>7. /\ \A c \in Conns : inflight'[c] = inflight[c] /\ lastDrop'[c] = lastDrop[c]
          /\ inflight' \in [Conns -> Calls \cup {NoCall}]
      BY <1>1, <1>4
    <2> QED BY <1>2, <1>4, <2>2, <2>3, <2>5, <2>6, <2>7, StartKeeps
  <1>5. ASSUME NEW b \in Builds, Shared(PathOf(conn[t]), b),
               inflight' = [inflight EXCEPT ![conn[t]] = t],
               call' = [call EXCEPT ![t] = [l EXCEPT
                 !.pc = "connectors", !.gen = generation, !.catalogGen = catalogGeneration', !.build = b]]
        PROVE  ManagerInv'
    <2> DEFINE r == [l EXCEPT !.pc = "connectors", !.gen = generation, !.catalogGen = catalogGeneration',
                              !.build = b]
    <2>1. /\ r \in ManagerCall /\ r.pc = "connectors" /\ r.op = l.op /\ r.gen = generation /\ r.build = b
          /\ r.catalogGen = catalogGeneration' /\ r.since = l.since
      BY <1>1 DEF ManagerCall
    <2>2. call' = [call EXCEPT ![t] = r]
      BY <1>5
    <2> HIDE DEF r
    <2>3. /\ Grown /\ nbuilds' \in 0 .. MaxBuilds /\ promise' \in [Paths -> Builds \cup {NoBuild}]
          /\ build' \in [Builds -> ManagerBuild] /\ b <= nbuilds'
      BY <1>1, <1>5, SharedGrows
    <2>4. /\ r.gen <= generation /\ r.build <= nbuilds' /\ r.since <= r.catalogGen
          /\ r.catalogGen <= catalogGeneration' /\ r.catalogGen >= lastDrop'[conn[t]]
      BY <1>1, <2>1, <2>3
    <2>5. /\ inflight' \in [Conns -> Calls \cup {NoCall}] /\ inflight'[conn[t]] = t
          /\ \A c \in Conns : c # conn[t] => inflight'[c] = inflight[c] /\ lastDrop'[c] = lastDrop[c]
      BY <1>1, <1>5
    <2> QED BY <2>1, <2>2, <2>3, <2>4, <2>5, StartKeeps
  <1> QED BY <1>3, <1>4, <1>5 DEF CatalogFor

(* catalogFor() and testConnection() begin.                                *)
LEMMA AsksKeep ==
  ASSUME ManagerInv, NEW t \in Calls, StartCatalog(t) \/ TestConnection(t) PROVE ManagerInv'
  <1>1. /\ conn[t] \in Conns /\ catalogGeneration \in Nat /\ catalogs \in [Conns -> Nat \cup {Never}]
        /\ lastDrop \in [Conns -> Nat]
        /\ \A c \in Conns : /\ lastDrop[c] <= catalogGeneration
                            /\ catalogs[c] # Never => catalogs[c] >= lastDrop[c]
    BY DEF ManagerInv, ManagerTypeOK, CatalogInv
  <1>2. /\ call[t].pc = "idle"
        /\ UNCHANGED <<generation, handles, openFiles, engines, endpoint, conn, resetVars>>
    BY DEF StartCatalog, TestConnection, engineVars, settings
  <1>3. CASE StartCatalog(t)
    <2> DEFINE l == [NewCall EXCEPT !.since = lastDrop[conn[t]]]
    <2>1. lastDrop[conn[t]] \in Nat
      BY <1>1
    <2>2. l \in ManagerCall /\ l.op = "catalog" /\ l.gen = 0 /\ l.build = NoBuild /\ l.since = lastDrop[conn[t]]
      BY <2>1, NewCallTyped DEF NewCall, ManagerCall
    <2>3. CatalogFor(t, l) /\ UNCHANGED <<catalogGeneration, catalogs, lastDrop>>
      BY <1>3 DEF StartCatalog
    <2> HIDE DEF l
    <2> QED BY <1>1, <1>2, <2>2, <2>3, CatalogForKeeps
  <1>4. CASE TestConnection(t)
    <2> DEFINE l == [NewCall EXCEPT !.op = "test", !.since = catalogGeneration + 1]
    <2>1. catalogGeneration + 1 \in Nat
      BY <1>1
    <2>2. l \in ManagerCall /\ l.op = "test" /\ l.gen = 0 /\ l.build = NoBuild /\ l.since = catalogGeneration + 1
      BY <2>1, NewCallTyped DEF NewCall, ManagerCall
    <2>3. /\ CatalogFor(t, l) /\ catalogGeneration' = catalogGeneration + 1
          /\ catalogs' = [catalogs EXCEPT ![conn[t]] = Never]
          /\ lastDrop' = [lastDrop EXCEPT ![conn[t]] = catalogGeneration + 1]
      BY <1>4 DEF TestConnection
    <2> HIDE DEF l
    <2>4. /\ catalogs' \in [Conns -> Nat \cup {Never}] /\ lastDrop' \in [Conns -> Nat]
          /\ catalogs'[conn[t]] = Never /\ lastDrop'[conn[t]] = catalogGeneration + 1
          /\ \A c \in Conns : c # conn[t] => lastDrop'[c] = lastDrop[c] /\ catalogs'[c] = catalogs[c]
      BY <1>1, <2>1, <2>3
    <2>5. \A c \in Conns : /\ lastDrop'[c] <= catalogGeneration'
                           /\ catalogs'[c] # Never => catalogs'[c] >= lastDrop'[c]
                           /\ c # conn[t] => lastDrop'[c] = lastDrop[c]
      BY <1>1, <2>3, <2>4
    <2> QED BY <1>1, <1>2, <2>1, <2>2, <2>3, <2>4, <2>5, CatalogForKeeps
  <1> QED BY <1>3, <1>4

(* What dropping the catalogs of cs does to them.                          *)
LEMMA DropsCatalogs ==
  ASSUME ManagerInv, NEW cs \in SUBSET Conns, UNCHANGED <<call, conn>>,
         catalogGeneration' = catalogGeneration + 1,
         catalogs' = [c \in Conns |-> IF c \in cs THEN Never ELSE catalogs[c]],
         inflight' = [c \in Conns |-> IF c \in cs THEN NoCall ELSE inflight[c]],
         lastDrop' = [c \in Conns |-> IF c \in cs THEN catalogGeneration + 1 ELSE lastDrop[c]]
  PROVE  /\ catalogGeneration' \in Nat /\ catalogs' \in [Conns -> Nat \cup {Never}]
         /\ inflight' \in [Conns -> Calls \cup {NoCall}] /\ lastDrop' \in [Conns -> Nat]
         /\ CatalogInv'
  <1>1. /\ catalogGeneration \in Nat /\ catalogs \in [Conns -> Nat \cup {Never}]
        /\ inflight \in [Conns -> Calls \cup {NoCall}] /\ lastDrop \in [Conns -> Nat]
        /\ \A t \in Calls : call[t].catalogGen \in Nat
    BY DEF ManagerInv, ManagerTypeOK, ManagerCall
  <1>2. /\ catalogGeneration' \in Nat /\ catalogs' \in [Conns -> Nat \cup {Never}]
        /\ inflight' \in [Conns -> Calls \cup {NoCall}] /\ lastDrop' \in [Conns -> Nat]
    BY <1>1
  <1>3. ASSUME NEW c \in Conns
        PROVE  /\ lastDrop'[c] <= catalogGeneration'
               /\ catalogs'[c] # Never => catalogs'[c] >= lastDrop'[c]
               /\ inflight'[c] # NoCall =>
                    /\ Reader(inflight[c])' /\ conn'[inflight'[c]] = c
                    /\ call'[inflight'[c]].catalogGen >= lastDrop'[c]
    <2>1. CASE c \in cs
      BY <1>1, <2>1
    <2>2. CASE c \notin cs
      <3>1. inflight'[c] = inflight[c] /\ lastDrop'[c] = lastDrop[c] /\ catalogs'[c] = catalogs[c]
        BY <2>2
      <3>2. lastDrop'[c] <= catalogGeneration' /\ (catalogs'[c] # Never => catalogs'[c] >= lastDrop'[c])
        BY <1>1, <3>1 DEF ManagerInv, CatalogInv
      <3>3. inflight[c] # NoCall =>
              Reader(inflight[c]) /\ conn[inflight[c]] = c /\ call[inflight[c]].catalogGen >= lastDrop[c]
        BY DEF ManagerInv, CatalogInv
      <3> QED BY <3>1, <3>2, <3>3 DEF Reader
    <2> QED BY <2>1, <2>2
  <1>4. ASSUME NEW t \in Calls
        PROVE  /\ Reader(t)' => call'[t].since <= call'[t].catalogGen /\ call'[t].catalogGen <= catalogGeneration'
               /\ call'[t].pc = "reading" =>
                    Reader(t)' /\ call'[t].read # Never /\ call'[t].read >= call'[t].catalogGen
               /\ call'[t].pc = "joined" =>
                    /\ call'[t].on \in Calls /\ Reader(call[t].on)'
                    /\ call'[call'[t].on].catalogGen >= call'[t].since
               /\ call'[t].pc = "done" /\ call'[t].read # Never => call'[t].read >= call'[t].since
    <2>1. Reader(t)' => call'[t].since <= call'[t].catalogGen /\ call'[t].catalogGen <= catalogGeneration'
      BY <1>1 DEF ManagerInv, CatalogInv, Reader
    <2>2. call'[t].pc = "joined" =>
            /\ call'[t].on \in Calls /\ Reader(call[t].on)'
            /\ call'[call'[t].on].catalogGen >= call'[t].since
      BY DEF ManagerInv, CatalogInv, Reader
    <2>3. call'[t].pc = "reading" =>
            Reader(t)' /\ call'[t].read # Never /\ call'[t].read >= call'[t].catalogGen
      BY DEF ManagerInv, CatalogInv, Reader
    <2>4. call'[t].pc = "done" /\ call'[t].read # Never => call'[t].read >= call'[t].since
      BY DEF ManagerInv, CatalogInv
    <2> QED BY <2>1, <2>2, <2>3, <2>4
  <1>5. CatalogInv'
    BY <1>3, <1>4 DEF CatalogInv
  <1> QED BY <1>2, <1>5

(* invalidateCatalogs(): fewer engines, and the builds as they were.       *)
LEMMA FewerEngines ==
  ASSUME ManagerInv, UNCHANGED <<promise, build>>,
         engines' \in [Keys -> Builds \cup {NoBuild}],
         \A k \in Keys : engines'[k] = engines[k] \/ engines'[k] = NoBuild
  PROVE  EngineInv'
  BY DEF ManagerInv, EngineInv

(* invalidateCatalogs() only drops engines.                                *)
LEMMA InvalidateTyped ==
  ASSUME ManagerInv, NEW cs, Invalidate(cs)
  PROVE  /\ engines' \in [Keys -> Builds \cup {NoBuild}]
         /\ \A k \in Keys : engines'[k] = engines[k] \/ engines'[k] = NoBuild
  BY DEF ManagerInv, ManagerTypeOK, Invalidate

(* A refresh, of one connection or of all.                                 *)
LEMMA RefreshKeeps ==
  ASSUME ManagerInv, NEW cs \in SUBSET Conns, Refresh(cs) PROVE ManagerInv'
  <1>1. Invalidate(cs) /\ UNCHANGED <<generation, buildVars, settings, callVars, resetVars>>
    BY DEF Refresh
  <1>2. /\ catalogGeneration' \in Nat /\ catalogs' \in [Conns -> Nat \cup {Never}]
        /\ inflight' \in [Conns -> Calls \cup {NoCall}] /\ lastDrop' \in [Conns -> Nat] /\ CatalogInv'
    BY <1>1, DropsCatalogs DEF Invalidate, callVars
  <1>3. engines' \in [Keys -> Builds \cup {NoBuild}] /\ EngineInv'
    BY <1>1, InvalidateTyped, FewerEngines DEF buildVars
  <1>4. ManagerTypeOK'
    BY <1>1, <1>2, <1>3 DEF ManagerInv, ManagerTypeOK, buildVars, settings, callVars, resetVars
  <1>5. BuildInv'
    BY <1>1 DEF ManagerInv, BuildInv, buildVars, callVars, resetVars
  <1>6. AttemptInv'
    BY <1>1 DEF ManagerInv, AttemptInv, Rejected, buildVars, callVars
  <1>7. FileInv'
    BY <1>1 DEF ManagerInv, FileInv, FilesOwned, buildVars, resetVars
  <1> QED BY <1>2, <1>3, <1>4, <1>5, <1>6, <1>7 DEF ManagerInv

(* The synchronous part of reset(), whatever became of the settings.       *)
LEMMA StartResetKeeps ==
  ASSUME ManagerInv, NEW r \in Resets, StartReset(r), endpoint' \in [Servers -> {"home", "elsewhere"}]
  PROVE  ManagerInv'
  <1> DEFINE h == [sql |-> promise["sql"], mongo |-> promise["mongo"], files |-> handles]
  <1>1. /\ rpc[r] = "idle" /\ generation' = generation + 1 /\ held' = [held EXCEPT ![r] = h]
        /\ promise' = [p \in Paths |-> NoBuild] /\ engines' = [k \in Keys |-> NoBuild] /\ handles' = {}
        /\ rpc' = [rpc EXCEPT ![r] = "sql"]
        /\ UNCHANGED <<build, nbuilds, openFiles, call, conn, closed>>
    BY DEF StartReset, callVars
  <1>2. /\ generation \in Nat /\ nbuilds \in Nat /\ promise \in [Paths -> Builds \cup {NoBuild}]
        /\ handles \in FileSets /\ {} \in FileSets
    BY BuildNumbers DEF ManagerInv, ManagerTypeOK, FileSets
  <1>3. h \in ManagerHeld /\ h.files = handles /\ \A q \in Paths : h[q] = promise[q]
    BY <1>2 DEF ManagerHeld, Paths
  <1> HIDE DEF h
  <1>4. /\ held' \in [Resets -> ManagerHeld] /\ held'[r] = h /\ \A s \in Resets : s # r => held'[s] = held[s]
    BY <1>1, <1>3 DEF ManagerInv, ManagerTypeOK
  <1>5. /\ rpc' \in [Resets -> {"idle", "sql", "mongo", "files", "done"}] /\ rpc'[r] = "sql"
        /\ \A s \in Resets : s # r => rpc'[s] = rpc[s]
    BY <1>1 DEF ManagerInv, ManagerTypeOK
  <1>6. /\ catalogGeneration' \in Nat /\ catalogs' \in [Conns -> Nat \cup {Never}]
        /\ inflight' \in [Conns -> Calls \cup {NoCall}] /\ lastDrop' \in [Conns -> Nat] /\ CatalogInv'
    <2>1. /\ catalogs' = [c \in Conns |-> IF c \in Conns THEN Never ELSE catalogs[c]]
          /\ inflight' = [c \in Conns |-> IF c \in Conns THEN NoCall ELSE inflight[c]]
          /\ lastDrop' = [c \in Conns |-> IF c \in Conns THEN catalogGeneration + 1 ELSE lastDrop[c]]
          /\ catalogGeneration' = catalogGeneration + 1
      BY DEF StartReset
    <2> QED BY <1>1, <2>1, DropsCatalogs
  <1>7. /\ promise' \in [Paths -> Builds \cup {NoBuild}] /\ engines' \in [Keys -> Builds \cup {NoBuild}]
        /\ generation' \in Nat
    BY <1>1, <1>2
  <1>8. ManagerTypeOK'
    BY <1>1, <1>2, <1>4, <1>5, <1>6, <1>7 DEF ManagerInv, ManagerTypeOK
  <1>9. EngineInv'
    BY <1>1 DEF EngineInv
  <1>10. BuildInv'
    <2>1. \A p \in Paths : promise'[p] = NoBuild
      BY <1>1
    <2>2. ASSUME NEW s \in Resets, NEW q \in Paths PROVE held'[s][q] <= nbuilds'
      <3>1. promise[q] = NoBuild \/ promise[q] <= nbuilds
        BY DEF ManagerInv, BuildInv
      <3>2. promise[q] <= nbuilds
        BY <1>2, <3>1, BuildNumbers
      <3>3. held[s][q] <= nbuilds
        BY DEF ManagerInv, BuildInv
      <3> QED BY <1>1, <1>3, <1>4, <3>2, <3>3
    <2> QED BY <1>1, <2>1, <2>2 DEF ManagerInv, BuildInv
  <1>11. AttemptInv'
    <2>1. ASSUME NEW t \in Calls PROVE call'[t].gen <= generation' /\ call'[t].gen # generation'
      BY <1>1, <1>2 DEF ManagerInv, AttemptInv, ManagerTypeOK, ManagerCall
    <2> QED BY <1>1, <2>1 DEF ManagerInv, AttemptInv
  <1>12. FileInv'
    <2>1. \A s \in Resets : rpc'[s] = "idle" => held'[s].files = {}
      BY <1>4, <1>5 DEF ManagerInv, FileInv
    <2>2. ASSUME NEW f \in openFiles PROVE \E s \in Resets : f \in held'[s].files
      <3>1. CASE f \in handles
        BY <1>3, <1>4, <3>1
      <3>2. CASE \E s \in Resets : f \in held[s].files
        <4>1. PICK s \in Resets : f \in held[s].files
          BY <3>2
        <4>2. s # r
          BY <1>1, <4>1 DEF ManagerInv, FileInv
        <4> QED BY <1>4, <4>1, <4>2
      <3> QED BY <3>1, <3>2 DEF ManagerInv, FileInv, FilesOwned
    <2> QED BY <1>1, <2>1, <2>2 DEF ManagerInv, FileInv, FilesOwned
  <1> QED BY <1>6, <1>8, <1>9, <1>10, <1>11, <1>12 DEF ManagerInv

(* A connection or its secret changes.                                     *)
LEMMA ResetsKeep ==
  ASSUME ManagerInv, NEW r \in Resets, NEW c \in Servers, NEW e \in {"home", "elsewhere"},
         HeavySettingChanges(r) \/ SecretChanges(r, c) \/ EditConnection(r, c, e)
  PROVE  ManagerInv'
  <1>1. StartReset(r) /\ endpoint' \in [Servers -> {"home", "elsewhere"}]
    BY DEF HeavySettingChanges, SecretChanges, EditConnection, settings, ManagerInv, ManagerTypeOK
  <1> QED BY <1>1, StartResetKeeps

(* A setting the engines are built from changes.                           *)
LEMMA HeavyKeeps ==
  ASSUME ManagerInv, NEW r \in Resets, HeavySettingChanges(r) PROVE ManagerInv'
  <1>1. StartReset(r) /\ endpoint' \in [Servers -> {"home", "elsewhere"}]
    BY DEF HeavySettingChanges, settings, ManagerInv, ManagerTypeOK
  <1> QED BY <1>1, StartResetKeeps

(* reset() closes the connectors of a path once they are built.            *)
LEMMA CloseHeldKeeps ==
  ASSUME ManagerInv, NEW r \in Resets, NEW p \in Paths, CloseHeld(r, p) PROVE ManagerInv'
  <1>1. /\ rpc[r] = p /\ closed' = closed \cup ({held[r][p]} \ {NoBuild})
        /\ rpc' = [rpc EXCEPT ![r] = IF p = "sql" THEN "mongo" ELSE "files"]
        /\ UNCHANGED <<generation, buildVars, catalogVars, engineVars, settings, callVars, held>>
    BY DEF CloseHeld
  <1>2. held[r][p] \in Builds \cup {NoBuild}
    BY DEF ManagerInv, ManagerTypeOK, ManagerHeld, Paths
  <1>3. closed' \subseteq Builds
    BY <1>1, <1>2 DEF ManagerInv, ManagerTypeOK
  <1>4. /\ rpc' \in [Resets -> {"idle", "sql", "mongo", "files", "done"}]
        /\ \A s \in Resets : rpc'[s] = "idle" => rpc[s] = "idle"
    BY <1>1 DEF ManagerInv, ManagerTypeOK
  <1>5. ManagerTypeOK'
    BY <1>1, <1>3, <1>4
    DEF ManagerInv, ManagerTypeOK, buildVars, catalogVars, engineVars, settings, callVars
  <1>6. BuildInv'
    <2>1. \A q \in Paths : promise[q] # NoBuild => promise[q] \notin closed'
      BY <1>1 DEF ManagerInv, BuildInv
    <2>2. \A b \in closed' : b <= nbuilds
      BY <1>1 DEF ManagerInv, BuildInv
    <2> QED BY <1>1, <2>1, <2>2 DEF ManagerInv, BuildInv, buildVars, callVars
  <1>7. EngineInv' /\ AttemptInv'
    BY <1>1 DEF ManagerInv, EngineInv, AttemptInv, Rejected, buildVars, engineVars, callVars
  <1>8. FileInv'
    BY <1>1, <1>4 DEF ManagerInv, FileInv, FilesOwned, buildVars
  <1>9. CatalogInv'
    BY <1>1 DEF ManagerInv, CatalogInv, Reader, catalogVars, callVars
  <1> QED BY <1>5, <1>6, <1>7, <1>8, <1>9 DEF ManagerInv

(* reset() closes its files.                                               *)
LEMMA CloseFilesKeeps ==
  ASSUME ManagerInv, NEW r \in Resets, CloseFiles(r) PROVE ManagerInv'
  <1>1. /\ rpc[r] = "files" /\ openFiles' = openFiles \ held[r].files /\ held' = [held EXCEPT ![r] = NoHeld]
        /\ rpc' = [rpc EXCEPT ![r] = "done"] /\ Invalidate(Conns)
        /\ UNCHANGED <<generation, promise, build, nbuilds, handles, endpoint, call, conn, closed>>
    BY DEF CloseFiles, settings, callVars
  <1>2. {} \in FileSets /\ openFiles' \in FileSets
    BY <1>1 DEF FileSets, ManagerInv, ManagerTypeOK
  <1>3. NoHeld \in ManagerHeld /\ NoHeld.files = {} /\ \A q \in Paths : NoHeld[q] = NoBuild
    BY <1>2 DEF NoHeld, ManagerHeld, Paths
  <1>4. /\ held' \in [Resets -> ManagerHeld] /\ held'[r] = NoHeld
        /\ \A s \in Resets : s # r => held'[s] = held[s]
    BY <1>1, <1>3 DEF ManagerInv, ManagerTypeOK
  <1>5. /\ rpc' \in [Resets -> {"idle", "sql", "mongo", "files", "done"}]
        /\ \A s \in Resets : rpc'[s] = "idle" => rpc[s] = "idle" /\ s # r
    BY <1>1 DEF ManagerInv, ManagerTypeOK
  <1>6. /\ catalogGeneration' \in Nat /\ catalogs' \in [Conns -> Nat \cup {Never}]
        /\ inflight' \in [Conns -> Calls \cup {NoCall}] /\ lastDrop' \in [Conns -> Nat] /\ CatalogInv'
    BY <1>1, DropsCatalogs DEF Invalidate
  <1>7. engines' \in [Keys -> Builds \cup {NoBuild}] /\ EngineInv'
    BY <1>1, InvalidateTyped, FewerEngines
  <1>8. ManagerTypeOK'
    BY <1>1, <1>2, <1>4, <1>5, <1>6, <1>7 DEF ManagerInv, ManagerTypeOK
  <1>9. BuildInv'
    <2>1. ASSUME NEW s \in Resets, NEW q \in Paths PROVE held'[s][q] \in {held[s][q], NoBuild}
      BY <1>3, <1>4
    <2>2. nbuilds \in Nat
      BY BuildNumbers DEF ManagerInv, ManagerTypeOK
    <2>3. \A s \in Resets, q \in Paths : held'[s][q] <= nbuilds
      BY <2>1, <2>2, BuildNumbers DEF ManagerInv, BuildInv
    <2>4. \A p \in Paths : promise[p] # NoBuild =>
            \A s \in Resets, q \in Paths : held'[s][q] # promise[p]
      BY <2>1 DEF ManagerInv, BuildInv
    <2> QED BY <1>1, <2>3, <2>4 DEF ManagerInv, BuildInv
  <1>10. AttemptInv'
    BY <1>1 DEF ManagerInv, AttemptInv, Rejected
  <1>11. FileInv'
    <2>1. \A s \in Resets : rpc'[s] = "idle" => held'[s].files = {}
      BY <1>4, <1>5 DEF ManagerInv, FileInv
    <2>2. ASSUME NEW f \in openFiles'
          PROVE  \/ f \in handles /\ build[f[1]].gen = generation
                 \/ \E s \in Resets : f \in held'[s].files
      <3>1. f \in openFiles /\ f \notin held[r].files
        BY <1>1
      <3>2. CASE \E s \in Resets : f \in held[s].files
        BY <1>4, <3>1, <3>2
      <3> QED BY <3>1, <3>2 DEF ManagerInv, FileInv, FilesOwned
    <2>3. \A f \in openFiles' : f[1] <= nbuilds
      BY <1>1 DEF ManagerInv, FileInv
    <2> QED BY <1>1, <2>1, <2>2, <2>3 DEF FileInv, FilesOwned
  <1> QED BY <1>6, <1>7, <1>8, <1>9, <1>10, <1>11 DEF ManagerInv

(* Nothing happens.                                                        *)
LEMMA ManagerRests == ASSUME ManagerInv, UNCHANGED managerVars PROVE ManagerInv'
  <1>1. UNCHANGED <<generation, buildVars, catalogVars, engines, settings, callVars, resetVars>>
    BY DEF managerVars, engineVars
  <1>2. ManagerTypeOK'
    BY <1>1 DEF ManagerInv, ManagerTypeOK, buildVars, catalogVars, settings, callVars, resetVars
  <1>3. BuildInv' /\ EngineInv'
    BY <1>1 DEF ManagerInv, BuildInv, EngineInv, buildVars, callVars, resetVars
  <1>4. AttemptInv'
    BY <1>1 DEF ManagerInv, AttemptInv, Rejected, buildVars, callVars
  <1>5. FileInv'
    BY <1>1 DEF ManagerInv, FileInv, FilesOwned, buildVars, resetVars
  <1>6. CatalogInv'
    BY <1>1, CatalogsRest DEF ManagerInv, callVars
  <1> QED BY <1>2, <1>3, <1>4, <1>5, <1>6 DEF ManagerInv

(* Every step of the window keeps the strengthening.                       *)
LEMMA ManagerPreserved == ManagerInv /\ [ManagerNext]_managerVars => ManagerInv'
  <1> SUFFICES ASSUME ManagerInv, [ManagerNext]_managerVars PROVE ManagerInv'
    OBVIOUS
  <1>1. ASSUME NEW b \in Builds, NEW c \in Conns, BuildStep(b, c) PROVE ManagerInv'
    BY <1>1, BuildStepKeeps
  <1>2. ASSUME NEW t \in Calls, StartCatalog(t) \/ TestConnection(t) PROVE ManagerInv'
    BY <1>2, AsksKeep
  <1>3. ASSUME NEW t \in Calls, EngineFor(t) \/ Explain(t) PROVE ManagerInv'
    BY <1>3, EngineForKeeps, ExplainKeeps
  <1>4. ASSUME NEW t \in Calls, CallStep(t) PROVE ManagerInv'
    BY <1>4, ReadKeeps, EngineForKeeps, EngineConnectorsKeep, ModelKeeps DEF CallStep
  <1>5. ASSUME NEW cs \in SUBSET Conns, Refresh(cs) PROVE ManagerInv'
    BY <1>5, RefreshKeeps
  <1>6. ASSUME NEW r \in Resets, HeavySettingChanges(r) \/ ResetStep(r) PROVE ManagerInv'
    BY <1>6, HeavyKeeps, CloseHeldKeeps, CloseFilesKeeps DEF ResetStep
  <1>7. ASSUME NEW r \in Resets, NEW c \in Servers,
               SecretChanges(r, c) \/ \E e \in {"home", "elsewhere"} : EditConnection(r, c, e)
        PROVE  ManagerInv'
    BY <1>7, ResetsKeep
  <1>8. CASE UNCHANGED managerVars
    BY <1>8, ManagerRests
  <1>9. \A c \in Conns : {c} \in SUBSET Conns
    OBVIOUS
  <1> QED BY <1>1, <1>2, <1>3, <1>4, <1>5, <1>6, <1>7, <1>8, <1>9 DEF ManagerNext

(* Nothing made for old settings or before a refresh is kept or served, in *)
(* a window with any number of connections, calls, builds and resets: the  *)
(* generation tests of engineFor, introspectFresh and openSqlite suffice.  *)
THEOREM NothingStaleCorrect == ManagerSpec => []NothingStale
  <1>1. ManagerInv => NothingStale
    <2> SUFFICES ASSUME ManagerInv PROVE NothingStale
      OBVIOUS
    <2>1. EnginesLive
      <3> SUFFICES ASSUME NEW k \in Keys, engines[k] # NoBuild
                   PROVE  /\ engines[k] = promise[build[engines[k]].path]
                          /\ engines[k] \notin closed
                          /\ \A r \in Resets, p \in Paths : held[r][p] # engines[k]
        BY DEF EnginesLive
      <3>1. engines[k] \in Builds /\ build[engines[k]].path \in Paths
        BY DEF ManagerInv, ManagerTypeOK, ManagerBuild
      <3> QED BY <3>1 DEF ManagerInv, EngineInv, BuildInv
    <2>2. FilesOwned /\ FreshCatalog
      BY DEF ManagerInv, FileInv, CatalogInv, FreshCatalog
    <2> QED BY <2>1, <2>2 DEF NothingStale
  <1> QED BY <1>1, ManagerInitial, ManagerPreserved, PTL DEF ManagerSpec

(* What a build logs in with was saved for where it dials.                 *)
LEMMA SecretPreserved == SecretStaysHome /\ [ManagerNext]_managerVars => SecretStaysHome'
  <1> SUFFICES ASSUME SecretStaysHome, [ManagerNext]_managerVars PROVE SecretStaysHome'
    OBVIOUS
  <1>1. ASSUME NEW b \in Builds, NEW c \in Conns, BuildsServer(b, c) PROVE SecretStaysHome'
    BY <1>1 DEF BuildsServer, ReadSecret, SecretStaysHome
  <1>2. ASSUME NEW b \in Builds, NEW c \in Conns, BuildFails(b, c) \/ OpensFile(b, c) PROVE UNCHANGED logins
    BY <1>2 DEF BuildFails, OpensFile
  <1>3. ASSUME NEW t \in Calls, StartCatalog(t) \/ TestConnection(t) \/ EngineFor(t) \/ Explain(t)
        PROVE  UNCHANGED logins
    BY <1>3 DEF StartCatalog, TestConnection, EngineFor, Explain
  <1>4. ASSUME NEW t \in Calls, CallStep(t) PROVE UNCHANGED logins
    BY <1>3, <1>4 DEF CallStep, ReadConnectors, ReadSucceeds, ReadFails, EngineConnectors, ModelResolves,
                      ModelFails, buildVars
  <1>5. ASSUME NEW cs, Refresh(cs) PROVE UNCHANGED logins
    BY <1>5 DEF Refresh, buildVars
  <1>6. ASSUME NEW r \in Resets, StartReset(r) \/ ResetStep(r) PROVE UNCHANGED logins
    BY <1>6 DEF StartReset, ResetStep, CloseHeld, CloseFiles, buildVars
  <1>7. CASE UNCHANGED managerVars
    BY <1>7 DEF managerVars, buildVars, SecretStaysHome
  <1> QED
    BY <1>1, <1>2, <1>3, <1>4, <1>5, <1>6, <1>7
    DEF ManagerNext, BuildStep, HeavySettingChanges, SecretChanges, EditConnection, SecretStaysHome

(* A password goes only to the endpoint it was saved for, and a connection *)
(* string only to its scope (readPassword, readConnectionString).          *)
THEOREM SecretCorrect == ManagerSpec => []SecretStaysHome
  <1>1. ManagerInit => SecretStaysHome
    BY DEF ManagerInit, SecretStaysHome
  <1> QED BY <1>1, SecretPreserved, PTL DEF ManagerSpec

-----------------------------------------------------------------------------
(* The chat panel                                                          *)

(* Turns are numbered from one; none is zero.                              *)
LEMMA TurnNumbers ==
  /\ MaxTurns \in Nat /\ NoTurn \notin TurnIds /\ \A t \in TurnIds : t \in Nat /\ t <= MaxTurns
  BY ChatTurnsAssumption DEF ChatTurnsAssumption, TurnIds, NoTurn

(* A message to the page.                                                  *)
LEMMA MsgTyped ==
  ASSUME NEW ty \in AnswerTypes \cup UnlockTypes \cup {"turnStart", "sqlBefore", "sqlAfter"},
         NEW t \in TurnIds \cup {NoTurn}
  PROVE  Msg(ty, t) \in ViewMsgs /\ Msg(ty, t).type = ty /\ Msg(ty, t).turn = t
  BY DEF Msg, ViewMsgs

(* What post() does to what is under way to the page.                      *)
Posted(ms) ==
  /\ ms \in Seq(ViewMsgs) /\ toView' \in Seq(ViewMsgs) /\ toView \in Seq(ViewMsgs)
  /\ Len(toView) \in Nat /\ Len(ms) \in Nat
  /\ DOMAIN ms = 1 .. Len(ms) /\ DOMAIN toView = 1 .. Len(toView) /\ DOMAIN toView' = 1 .. Len(toView')
  /\ Len(toView') = Len(toView) + Len(ms)
  /\ \A i \in 1 .. Len(toView) : toView'[i] = toView[i]
  /\ \A i \in 1 .. Len(ms) : toView'[Len(toView) + i] = ms[i]
  /\ \A i \in 1 .. Len(toView') : i \in 1 .. Len(toView) \/ \E k \in 1 .. Len(ms) : i = Len(toView) + k

(* post() adds messages at the end, or none to a view that is gone.        *)
LEMMA PostAdds ==
  ASSUME ChatTypeOK, NEW ms \in Seq(ViewMsgs), Post(ms)
  PROVE  (alive => Posted(ms)) /\ (~alive => toView' = toView) /\ toView' \in Seq(ViewMsgs)
  <1>1. toView \in Seq(ViewMsgs)
    BY DEF ChatTypeOK
  <1>2. CASE alive
    <2>1. toView' = toView \o ms
      BY <1>2 DEF Post
    <2>2. /\ toView' \in Seq(ViewMsgs) /\ Len(toView') = Len(toView) + Len(ms)
          /\ Len(toView) \in Nat /\ Len(ms) \in Nat
      BY <1>1, <2>1
    <2>3. \A i \in 1 .. Len(toView) : toView'[i] = toView[i]
      BY <1>1, <2>1
    <2>4. \A i \in 1 .. Len(ms) : toView'[Len(toView) + i] = ms[i]
      BY <1>1, <2>1
    <2>5. ASSUME NEW i \in 1 .. Len(toView'), i \notin 1 .. Len(toView)
          PROVE  \E k \in 1 .. Len(ms) : i = Len(toView) + k
      <3>1. i - Len(toView) \in 1 .. Len(ms) /\ i = Len(toView) + (i - Len(toView))
        BY <2>2, <2>5
      <3> QED BY <3>1
    <2>6. DOMAIN ms = 1 .. Len(ms) /\ DOMAIN toView = 1 .. Len(toView) /\ DOMAIN toView' = 1 .. Len(toView')
      BY <1>1, <2>2
    <2> QED BY <1>1, <1>2, <2>2, <2>3, <2>4, <2>5, <2>6 DEF Posted
  <1>3. CASE ~alive
    BY <1>1, <1>3 DEF Post
  <1> QED BY <1>2, <1>3

(* The messages there were, and the ones added.                            *)
LEMMA PostedParts ==
  ASSUME NEW ms, Posted(ms)
  PROVE  /\ Len(toView) \in Nat
         /\ \A k \in DOMAIN ms : /\ Len(toView) + k \in DOMAIN toView' /\ Len(toView) + k > Len(toView)
                                /\ toView'[Len(toView) + k] = ms[k] /\ k \in Nat
         /\ \A k \in DOMAIN toView : /\ k \in DOMAIN toView' /\ toView'[k] = toView[k]
                                    /\ k \in Nat /\ k <= Len(toView)
         /\ \A k \in DOMAIN toView' : k \in DOMAIN toView \/ \E n \in DOMAIN ms : k = Len(toView) + n
  <1>1. /\ Len(toView) \in Nat
        /\ \A k \in DOMAIN ms : /\ Len(toView) + k \in DOMAIN toView' /\ Len(toView) + k > Len(toView)
                               /\ toView'[Len(toView) + k] = ms[k] /\ k \in Nat
    BY DEF Posted
  <1>2. \A k \in DOMAIN toView : /\ k \in DOMAIN toView' /\ toView'[k] = toView[k]
                                /\ k \in Nat /\ k <= Len(toView)
    BY DEF Posted
  <1>3. ASSUME NEW k \in DOMAIN toView' PROVE k \in DOMAIN toView \/ \E n \in DOMAIN ms : k = Len(toView) + n
    <2>1. /\ \A i \in DOMAIN toView' : i \in 1 .. Len(toView) \/ \E n \in 1 .. Len(ms) : i = Len(toView) + n
          /\ DOMAIN ms = 1 .. Len(ms) /\ DOMAIN toView = 1 .. Len(toView)
      BY Zenon DEF Posted
    <2> QED BY <2>1, Zenon
  <1> QED BY <1>1, <1>2, <1>3

(* What is posted keeps a locked page unlockable, if it unlocks the page   *)
(* wherever the host no longer would.                                      *)
LEMMA LockPost ==
  ASSUME ChatInv, NEW ms \in Seq(ViewMsgs), Post(ms), busy' = busy,
         Unlocking => Unlocking' \/ \E k \in DOMAIN ms : ms[k].type \in UnlockTypes,
         \A i \in DOMAIN ms : ms[i].type = "turnStart" =>
           Unlocking' \/ \E k \in DOMAIN ms : k > i /\ ms[k].type \in UnlockTypes
  PROVE  LockInv'
  <1> SUFFICES ASSUME NEW i \in 0 .. Len(toView'), Locks(i)', ~Unlocking'
               PROVE  \E j \in DOMAIN toView' : j > i /\ toView'[j].type \in UnlockTypes
    BY DEF LockInv
  <1>0. ChatTypeOK /\ LockInv /\ DisposedInv
    BY DEF ChatInv
  <1>1. CASE ~alive
    <2>1. toView' = toView /\ toView = <<>> /\ ~busy
      BY <1>0, <1>1, PostAdds DEF DisposedInv
    <2> QED BY <2>1 DEF Locks
  <1>2. CASE alive
    <2>1. Posted(ms)
      BY <1>0, <1>2, PostAdds
    <2>2. \A k \in DOMAIN ms : Len(toView) + k \in DOMAIN toView' /\ Len(toView) + k > Len(toView)
                               /\ toView'[Len(toView) + k] = ms[k] /\ k \in Nat
      BY <2>1 DEF Posted
    <2>3. CASE i <= Len(toView)
      <3>1. Locks(i) /\ i \in 0 .. Len(toView)
        <4>1. CASE i = 0
          BY <2>1, <4>1 DEF Locks, Posted
        <4>2. CASE i # 0
          <5>1. i \in 1 .. Len(toView)
            BY <2>1, <2>3, <4>2 DEF Posted
          <5> QED BY <2>1, <4>2, <5>1 DEF Locks, Posted
        <4> QED BY <4>1, <4>2
      <3>2. CASE Unlocking
        <4>1. PICK k \in DOMAIN ms : ms[k].type \in UnlockTypes
          BY <3>2
        <4>2. Len(toView) + k > i
          BY <2>1, <2>2, <3>1 DEF Posted
        <4> QED BY <2>2, <4>1, <4>2
      <3>3. CASE \E j \in DOMAIN toView : j > i /\ toView[j].type \in UnlockTypes
        BY <2>1, <3>3 DEF Posted
      <3> QED BY <1>0, <3>1, <3>2, <3>3 DEF LockInv
    <2>4. CASE i > Len(toView)
      <3>1. PICK k \in 1 .. Len(ms) : i = Len(toView) + k
        BY <2>1, <2>4 DEF Posted
      <3>2. ms[k].type = "turnStart" /\ k \in DOMAIN ms
        BY <2>1, <2>4, <3>1 DEF Posted, Locks
      <3>3. PICK n \in DOMAIN ms : n > k /\ ms[n].type \in UnlockTypes
        BY <3>2
      <3>4. Len(toView) + n > i
        BY <2>1, <2>2, <3>1, <3>3 DEF Posted
      <3> QED BY <2>2, <3>3, <3>4
    <2> QED BY <2>1, <2>3, <2>4 DEF Posted
  <1> QED BY <1>1, <1>2 DEF ChatInv, ChatTypeOK

(* After "Cancelled." only a turn in play answers, or one opened since.    *)
LEMMA StopPost ==
  ASSUME ChatInv, NEW ms \in Seq(ViewMsgs), Post(ms), shown' = shown, content' = content,
         \A k \in DOMAIN ms : ms[k].type \in AnswerTypes =>
           (\E t \in TurnIds : InPlay(t)) \/ \E j \in DOMAIN ms : j < k /\ ms[j].type = "turnStart",
         (\E t \in TurnIds : InPlay(t))' =>
           (\E t \in TurnIds : InPlay(t)) \/ \E j \in DOMAIN ms : ms[j].type = "turnStart",
         \A i \in DOMAIN ms : ms[i].type = "cancelled" =>
           ~(\E t \in TurnIds : InPlay(t))' /\ \A k \in DOMAIN ms : ms[k].type \notin AnswerTypes
  PROVE  StopInv'
  <1> DEFINE some == \E t \in TurnIds : InPlay(t)
  <1>0. ChatTypeOK /\ StopInv /\ DisposedInv
    BY DEF ChatInv
  <1>1. CASE ~alive
    <2>1. toView' = toView /\ toView = <<>> /\ shown = NoTurn
      BY <1>0, <1>1, PostAdds DEF DisposedInv
    <2> QED BY <2>1 DEF Stops, StopInv
  <1>2. CASE alive
    <2>1. Posted(ms)
      BY <1>0, <1>2, PostAdds
    <2>2. /\ \A k \in DOMAIN ms : Len(toView) + k \in DOMAIN toView' /\ Len(toView) + k > Len(toView)
                               /\ toView'[Len(toView) + k] = ms[k] /\ k \in Nat
          /\ \A k \in DOMAIN toView : /\ k \in DOMAIN toView' /\ toView'[k] = toView[k]
                                     /\ k \in Nat /\ k <= Len(toView)
          /\ \A k \in DOMAIN toView' : k \in DOMAIN toView \/ \E n \in DOMAIN ms : k = Len(toView) + n
          /\ Len(toView) \in Nat
      BY <2>1, PostedParts
    <2>3. ASSUME NEW i \in 0 .. Len(toView), Stops(i)
          PROVE  /\ \A k \in DOMAIN toView' : k > i /\ toView'[k].type \in AnswerTypes => StartsBetween(i, k)'
                 /\ some' => StartsBetween(i, Len(toView) + 1)'
      <3>1. /\ \A k \in DOMAIN toView : k > i /\ toView[k].type \in AnswerTypes => StartsBetween(i, k)
            /\ some => StartsBetween(i, Len(toView) + 1)
        BY <1>0, <2>3 DEF StopInv
      <3>2. ASSUME NEW k \in DOMAIN toView', k > i, toView'[k].type \in AnswerTypes
            PROVE  StartsBetween(i, k)'
        <4>1. CASE k \in DOMAIN toView
          <5>1. StartsBetween(i, k)
            BY <2>2, <3>1, <3>2, <4>1
          <5> QED BY <2>2, <5>1 DEF StartsBetween
        <4>2. CASE \E n \in DOMAIN ms : k = Len(toView) + n
          <5>1. PICK n \in DOMAIN ms : k = Len(toView) + n
            BY <4>2
          <5>2. ms[n].type \in AnswerTypes
            BY <2>2, <3>2, <5>1
          <5>3. CASE some
            <6>1. PICK j \in DOMAIN toView : i < j /\ j < Len(toView) + 1 /\ toView[j].type = "turnStart"
              BY <3>1, <5>3 DEF StartsBetween
            <6>2. j < k
              BY <2>2, <5>1, <6>1
            <6> QED BY <2>2, <6>1, <6>2 DEF StartsBetween
          <5>4. CASE \E j \in DOMAIN ms : j < n /\ ms[j].type = "turnStart"
            <6>1. PICK j \in DOMAIN ms : j < n /\ ms[j].type = "turnStart"
              BY <5>4
            <6>2. i < Len(toView) + j /\ Len(toView) + j < k
              BY <2>2, <5>1, <6>1
            <6> QED BY <2>2, <6>1, <6>2 DEF StartsBetween
          <5> QED BY <5>2, <5>3, <5>4
        <4> QED BY <2>2, <4>1, <4>2
      <3>3. ASSUME some' PROVE StartsBetween(i, Len(toView) + 1)'
        <4>1. Len(toView') \in Nat /\ \A k \in DOMAIN toView' : k < Len(toView') + 1 /\ k \in Nat
          BY <2>1 DEF Posted
        <4>2. CASE some
          <5>1. PICK j \in DOMAIN toView : i < j /\ j < Len(toView) + 1 /\ toView[j].type = "turnStart"
            BY <3>1, <4>2 DEF StartsBetween
          <5> QED BY <2>2, <4>1, <5>1 DEF StartsBetween
        <4>3. CASE \E j \in DOMAIN ms : ms[j].type = "turnStart"
          <5>1. PICK j \in DOMAIN ms : ms[j].type = "turnStart"
            BY <4>3
          <5>2. i < Len(toView) + j
            BY <2>2, <5>1
          <5> QED BY <2>2, <4>1, <5>1, <5>2 DEF StartsBetween
        <4> QED BY <3>3, <4>2, <4>3
      <3> QED BY <3>2, <3>3
    <2>4. ASSUME NEW i \in 0 .. Len(toView'), Stops(i)'
          PROVE  /\ \A k \in DOMAIN toView' : k > i /\ toView'[k].type \in AnswerTypes => StartsBetween(i, k)'
                 /\ some' => StartsBetween(i, Len(toView) + 1)'
      <3>1. CASE i <= Len(toView)
        <4>1. Stops(i) /\ i \in 0 .. Len(toView)
          <5>1. CASE i = 0
            BY <2>2, <2>4, <5>1 DEF Stops
          <5>2. CASE i # 0
            <6>1. i \in DOMAIN toView
              BY <1>0, <2>2, <3>1, <5>2 DEF ChatTypeOK
            <6> QED BY <2>2, <2>4, <5>2, <6>1, <3>1 DEF Stops
          <5> QED BY <5>1, <5>2
        <4> QED BY <2>3, <4>1
      <3>2. CASE i > Len(toView)
        <4>1. PICK n \in 1 .. Len(ms) : i = Len(toView) + n
          <5>1. i \in 1 .. Len(toView') /\ i \notin 1 .. Len(toView)
            BY <2>1, <3>2 DEF Posted
          <5> QED BY <2>1, <5>1 DEF Posted
        <4>2. n \in DOMAIN ms /\ ms[n].type = "cancelled"
          BY <2>1, <2>4, <3>2, <4>1 DEF Posted, Stops
        <4>3. ~some' /\ \A k \in DOMAIN ms : ms[k].type \notin AnswerTypes
          BY <4>2
        <4>4. \A k \in DOMAIN toView' : k > i => toView'[k].type \notin AnswerTypes
          BY <2>2, <3>2, <4>3
        <4> QED BY <4>3, <4>4
      <3> QED BY <2>2, <3>1, <3>2, <2>1 DEF Posted
    <2> QED BY <2>4 DEF StopInv
  <1> QED BY <1>1, <1>2 DEF ChatInv, ChatTypeOK

(* A message opens no turn, or the one that was just asked.                *)
LEMMA OpenPost ==
  ASSUME ChatInv, NEW ms \in Seq(ViewMsgs), Post(ms), shown' = shown, content' = content,
         \A t \in TurnIds : turnPhase'[t] = "unasked" => turnPhase[t] = "unasked",
         \A i \in DOMAIN ms : ms[i].type = "turnStart" =>
           /\ i = 1 /\ ms[i].turn \in TurnIds
           /\ turnPhase[ms[i].turn] = "unasked" /\ turnPhase'[ms[i].turn] # "unasked"
  PROVE  OpenInv'
  <1>0. ChatTypeOK /\ OpenInv /\ DisposedInv
    BY DEF ChatInv
  <1>1. \A t \in TurnIds : turnPhase'[t] = "unasked" => content'[t] = {} /\ shown' # t
    BY <1>0 DEF OpenInv
  <1>2. ASSUME NEW i \in DOMAIN toView', toView'[i].type = "turnStart"
        PROVE  /\ toView'[i].turn \in TurnIds /\ content'[toView'[i].turn] = {} /\ shown' # toView'[i].turn
               /\ turnPhase'[toView'[i].turn] # "unasked"
               /\ \A j \in DOMAIN toView' :
                    j # i /\ toView'[j].type = "turnStart" => toView'[j].turn # toView'[i].turn
    <2>1. CASE ~alive
      <3>1. toView' = toView /\ toView = <<>>
        BY <1>0, <2>1, PostAdds DEF DisposedInv
      <3> QED BY <1>2, <3>1
    <2>2. CASE alive
      <3>1. Posted(ms)
        BY <1>0, <2>2, PostAdds
      <3>2. /\ \A k \in DOMAIN toView : toView'[k] = toView[k]
            /\ \A k \in DOMAIN toView' :
                 k \in DOMAIN toView \/ \E n \in DOMAIN ms : k = Len(toView) + n /\ toView'[k] = ms[n]
        BY <3>1, PostedParts
      <3>3. ASSUME NEW k \in DOMAIN toView, toView[k].type = "turnStart"
            PROVE  /\ toView[k].turn \in TurnIds /\ content[toView[k].turn] = {} /\ shown # toView[k].turn
                   /\ turnPhase[toView[k].turn] # "unasked" /\ turnPhase'[toView[k].turn] # "unasked"
                   /\ \A j \in DOMAIN toView :
                        j # k /\ toView[j].type = "turnStart" => toView[j].turn # toView[k].turn
        BY <1>0, <3>3 DEF OpenInv
      <3>4. ASSUME NEW n \in DOMAIN ms, ms[n].type = "turnStart"
            PROVE  /\ n = 1 /\ ms[n].turn \in TurnIds /\ content[ms[n].turn] = {} /\ shown # ms[n].turn
                   /\ turnPhase[ms[n].turn] = "unasked" /\ turnPhase'[ms[n].turn] # "unasked"
        BY <1>0, <3>4 DEF OpenInv
      <3>5. CASE i \in DOMAIN toView
        <4>1. toView'[i] = toView[i] /\ toView[i].type = "turnStart"
          BY <1>2, <3>2, <3>5
        <4>2. ASSUME NEW j \in DOMAIN toView', j # i, toView'[j].type = "turnStart"
              PROVE  toView'[j].turn # toView[i].turn
          <5>1. CASE j \in DOMAIN toView
            BY <3>2, <3>3, <3>5, <4>1, <4>2, <5>1
          <5>2. CASE \E n \in DOMAIN ms : j = Len(toView) + n /\ toView'[j] = ms[n]
            BY <3>3, <3>4, <3>5, <4>1, <4>2, <5>2
          <5> QED BY <3>2, <5>1, <5>2
        <4> QED BY <3>3, <3>5, <4>1, <4>2
      <3>6. CASE \E n \in DOMAIN ms : i = Len(toView) + n /\ toView'[i] = ms[n]
        BY <1>2, <3>2, <3>3, <3>4, <3>6
      <3> QED BY <3>2, <3>5, <3>6
    <2> QED BY <1>0, <2>1, <2>2 DEF ChatTypeOK
  <1> QED BY <1>1, <1>2 DEF OpenInv

(* The page takes one message.                                             *)
Shifted ==
  /\ toView \in Seq(ViewMsgs) /\ toView' \in Seq(ViewMsgs) /\ Len(toView) \in Nat /\ Len(toView') \in Nat
  /\ Len(toView) = Len(toView') + 1 /\ DOMAIN toView = 1 .. Len(toView) /\ DOMAIN toView' = 1 .. Len(toView')
  /\ 1 \in DOMAIN toView /\ Head(toView) = toView[1]
  /\ \A i \in DOMAIN toView' : i \in Nat /\ i + 1 \in DOMAIN toView /\ toView'[i] = toView[i + 1]
  /\ \A j \in DOMAIN toView :
       j # 1 => j \in Nat /\ j - 1 \in DOMAIN toView' /\ toView'[j - 1] = toView[j] /\ j > 1

(* Taking the first message moves every other one up.                      *)
LEMMA TailShifts ==
  ASSUME toView \in Seq(ViewMsgs), toView # <<>>, toView' = Tail(toView)
  PROVE  Shifted
  <1>1. /\ toView' \in Seq(ViewMsgs) /\ Len(toView) \in Nat /\ Len(toView') \in Nat
        /\ Len(toView) = Len(toView') + 1 /\ Len(toView) > 0
    OBVIOUS
  <1>2. DOMAIN toView = 1 .. Len(toView) /\ DOMAIN toView' = 1 .. Len(toView')
    BY <1>1
  <1>3. 1 \in DOMAIN toView /\ Head(toView) = toView[1]
    BY <1>1, <1>2
  <1>4. \A i \in DOMAIN toView' : i \in Nat /\ i + 1 \in DOMAIN toView /\ toView'[i] = toView[i + 1]
    BY <1>1, <1>2
  <1>5. ASSUME NEW j \in DOMAIN toView, j # 1
        PROVE  j \in Nat /\ j - 1 \in DOMAIN toView' /\ toView'[j - 1] = toView[j] /\ j > 1
    <2>1. j \in Nat /\ j > 1 /\ j - 1 \in DOMAIN toView' /\ (j - 1) + 1 = j
      BY <1>1, <1>2, <1>5
    <2> QED BY <1>4, <2>1
  <1> QED BY <1>1, <1>2, <1>3, <1>4, <1>5 DEF Shifted

(* What the page shows keeps a locked page unlockable.                     *)
LEMMA LockShow ==
  ASSUME ChatInv, Shifted, UNCHANGED <<running, toHost>>,
         ~busy' \/ (busy' = busy /\ toView[1].type \notin UnlockTypes) \/ toView[1].type = "turnStart"
  PROVE  LockInv'
  <1> SUFFICES ASSUME NEW i \in 0 .. Len(toView'), Locks(i)', ~Unlocking'
               PROVE  \E j \in DOMAIN toView' : j > i /\ toView'[j].type \in UnlockTypes
    BY DEF LockInv
  <1>1. ~Unlocking /\ LockInv
    BY DEF Unlocking, ChatInv
  <1>2. ASSUME NEW n \in 0 .. Len(toView), Locks(n),
               \A j \in DOMAIN toView : j > n /\ toView[j].type \in UnlockTypes => j - 1 > i
        PROVE  \E j \in DOMAIN toView' : j > i /\ toView'[j].type \in UnlockTypes
    <2>1. PICK j \in DOMAIN toView : j > n /\ toView[j].type \in UnlockTypes
      BY <1>1, <1>2 DEF LockInv
    <2>2. j # 1 /\ j - 1 > i
      BY <1>2, <2>1
    <2> QED BY <2>1, <2>2 DEF Shifted
  <1>3. CASE i = 0
    <2>1. CASE toView[1].type = "turnStart"
      <3>1. 1 \in 0 .. Len(toView) /\ Locks(1)
        BY <2>1 DEF Shifted, Locks
      <3>2. \A j \in DOMAIN toView : j > 1 => j - 1 > 0
        BY DEF Shifted
      <3> QED BY <1>2, <1>3, <3>1, <3>2
    <2>2. CASE busy' = busy /\ toView[1].type \notin UnlockTypes
      <3>1. 0 \in 0 .. Len(toView) /\ Locks(0)
        BY <1>3, <2>2 DEF Shifted, Locks
      <3>2. \A j \in DOMAIN toView : j > 0 /\ toView[j].type \in UnlockTypes => j - 1 > 0
        BY <2>2 DEF Shifted
      <3> QED BY <1>2, <1>3, <3>1, <3>2
    <2> QED BY <1>3, <2>1, <2>2 DEF Locks
  <1>4. CASE i # 0
    <2>1. i \in DOMAIN toView' /\ i + 1 \in 0 .. Len(toView) /\ Locks(i + 1) /\ i \in Nat
      BY <1>4 DEF Shifted, Locks
    <2>2. \A j \in DOMAIN toView : j > i + 1 => j - 1 > i
      BY <2>1 DEF Shifted
    <2> QED BY <1>2, <2>1, <2>2
  <1> QED BY <1>3, <1>4

(* What the page shows keeps a cancelled turn final.                       *)
LEMMA StopShow ==
  ASSUME ChatInv, Shifted, UNCHANGED <<turnPhase, turnAborted>>,
         shown' # NoTurn /\ "cancelled" \in content'[shown'] =>
           toView[1].type = "cancelled" \/ (toView[1].type # "turnStart" /\ Stops(0))
  PROVE  StopInv'
  <1> DEFINE some == \E t \in TurnIds : InPlay(t)
  <1> SUFFICES ASSUME NEW i \in 0 .. Len(toView'), Stops(i)'
               PROVE  /\ \A k \in DOMAIN toView' : k > i /\ toView'[k].type \in AnswerTypes => StartsBetween(i, k)'
                      /\ some' => StartsBetween(i, Len(toView) + 1)'
    BY DEF StopInv
  <1>1. some' => some
    BY DEF InPlay
  <1>2. ASSUME NEW n \in 0 .. Len(toView), Stops(n), n <= i + 1,
               \A j \in DOMAIN toView : j > n /\ toView[j].type = "turnStart" => j - 1 > i
        PROVE  /\ \A k \in DOMAIN toView' : k > i /\ toView'[k].type \in AnswerTypes => StartsBetween(i, k)'
               /\ some' => StartsBetween(i, Len(toView) + 1)'
    <2>1. /\ \A k \in DOMAIN toView : k > n /\ toView[k].type \in AnswerTypes => StartsBetween(n, k)
          /\ some => StartsBetween(n, Len(toView) + 1)
      BY <1>2 DEF ChatInv, StopInv
    <2>2. ASSUME NEW k \in Nat, StartsBetween(n, k + 1) PROVE StartsBetween(i, k)'
      <3>1. PICK j \in DOMAIN toView : n < j /\ j < k + 1 /\ toView[j].type = "turnStart"
        BY <2>2 DEF StartsBetween
      <3>2. j - 1 > i /\ j \in Nat
        BY <1>2, <3>1 DEF Shifted
      <3>3. j # 1 /\ j - 1 < k
        BY <3>1, <3>2
      <3> QED BY <3>1, <3>2, <3>3 DEF StartsBetween, Shifted
    <2>3. ASSUME NEW k \in DOMAIN toView', k > i, toView'[k].type \in AnswerTypes PROVE StartsBetween(i, k)'
      <3>1. k \in Nat /\ k + 1 \in DOMAIN toView /\ toView[k + 1].type \in AnswerTypes /\ k + 1 > n
        BY <1>2, <2>3 DEF Shifted
      <3>2. StartsBetween(n, k + 1)
        BY <2>1, <3>1
      <3> QED BY <2>2, <3>1, <3>2
    <2>4. ASSUME some' PROVE StartsBetween(i, Len(toView) + 1)'
      <3>1. Len(toView') + 1 \in Nat /\ (Len(toView') + 1) + 1 = Len(toView) + 1
        BY DEF Shifted
      <3>2. StartsBetween(n, (Len(toView') + 1) + 1)
        BY <1>1, <2>1, <2>4, <3>1
      <3>3. PICK k \in Nat : k = Len(toView') + 1
        BY <3>1
      <3>4. StartsBetween(i, k)'
        BY <2>2, <3>2, <3>3
      <3> QED BY <3>3, <3>4 DEF StartsBetween
    <2> QED BY <2>3, <2>4
  <1>3. CASE i = 0
    <2>1. CASE toView[1].type = "cancelled"
      <3>1. 1 \in 0 .. Len(toView) /\ Stops(1) /\ 1 <= i + 1
        BY <1>3, <2>1 DEF Shifted, Stops
      <3>2. \A j \in DOMAIN toView : j > 1 => j - 1 > i
        BY <1>3 DEF Shifted
      <3> QED BY <1>2, <3>1, <3>2
    <2>2. CASE toView[1].type # "turnStart" /\ Stops(0)
      <3>1. 0 \in 0 .. Len(toView) /\ Stops(0) /\ 0 <= i + 1
        BY <1>3, <2>2 DEF Shifted
      <3>2. \A j \in DOMAIN toView : j > 0 /\ toView[j].type = "turnStart" => j - 1 > i
        BY <1>3, <2>2 DEF Shifted
      <3> QED BY <1>2, <3>1, <3>2
    <2> QED BY <1>3, <2>1, <2>2 DEF Stops
  <1>4. CASE i # 0
    <2>1. i \in DOMAIN toView' /\ i + 1 \in 0 .. Len(toView) /\ Stops(i + 1) /\ i \in Nat /\ i + 1 <= i + 1
      BY <1>4 DEF Shifted, Stops
    <2>2. \A j \in DOMAIN toView : j > i + 1 => j - 1 > i
      BY <2>1 DEF Shifted
    <2> QED BY <1>2, <2>1, <2>2
  <1> QED BY <1>3, <1>4

(* What the page shows opens a turn once.                                  *)
LEMMA OpenShow ==
  ASSUME ChatInv, Shifted, UNCHANGED turnPhase, NoTurn \notin TurnIds,
         shown' \in {shown, NoTurn} \/ (toView[1].type = "turnStart" /\ shown' = toView[1].turn),
         \A t \in TurnIds : t # shown => content'[t] = content[t]
  PROVE  OpenInv'
  <1>1. OpenInv
    BY DEF ChatInv
  <1>2. ASSUME NEW t \in TurnIds, turnPhase[t] = "unasked" PROVE content'[t] = {} /\ shown' # t
    BY <1>1, <1>2 DEF OpenInv, Shifted
  <1>3. ASSUME NEW i \in DOMAIN toView', toView'[i].type = "turnStart"
        PROVE  /\ toView'[i].turn \in TurnIds /\ content'[toView'[i].turn] = {} /\ shown' # toView'[i].turn
               /\ turnPhase[toView'[i].turn] # "unasked"
               /\ \A j \in DOMAIN toView' :
                    j # i /\ toView'[j].type = "turnStart" => toView'[j].turn # toView'[i].turn
    <2>1. i \in Nat /\ i + 1 \in DOMAIN toView /\ toView'[i] = toView[i + 1] /\ i + 1 # 1
      BY DEF Shifted
    <2>2. /\ toView[i + 1].turn \in TurnIds /\ content[toView[i + 1].turn] = {} /\ shown # toView[i + 1].turn
          /\ turnPhase[toView[i + 1].turn] # "unasked"
          /\ \A j \in DOMAIN toView :
               j # i + 1 /\ toView[j].type = "turnStart" => toView[j].turn # toView[i + 1].turn
      BY <1>1, <1>3, <2>1 DEF OpenInv
    <2>3. shown' # toView[i + 1].turn
      BY <2>1, <2>2 DEF Shifted
    <2>4. ASSUME NEW j \in DOMAIN toView', j # i, toView'[j].type = "turnStart"
          PROVE  toView'[j].turn # toView'[i].turn
      <3>1. j \in Nat /\ j + 1 \in DOMAIN toView /\ toView'[j] = toView[j + 1] /\ j + 1 # i + 1
        BY <2>1, <2>4 DEF Shifted
      <3> QED BY <2>1, <2>2, <2>4, <3>1
    <2> QED BY <2>1, <2>2, <2>3, <2>4
  <1> QED BY <1>2, <1>3 DEF OpenInv

(* What the page shows leaves the host and its queue alone.                *)
LEMMA PageKeeps ==
  ASSUME ChatInv, toView # <<>>, toView' = Tail(toView), PageRest,
         busy' \in BOOLEAN, shown' \in TurnIds \cup {NoTurn},
         content' \in [TurnIds -> SUBSET (AnswerTypes \cup {"sql", "cancelled"})],
         ~busy' \/ (busy' = busy /\ toView[1].type \notin UnlockTypes) \/ toView[1].type = "turnStart",
         shown' # NoTurn /\ "cancelled" \in content'[shown'] =>
           toView[1].type = "cancelled" \/ (toView[1].type # "turnStart" /\ Stops(0)),
         shown' \in {shown, NoTurn} \/ (toView[1].type = "turnStart" /\ shown' = toView[1].turn),
         \A t \in TurnIds : t # shown => content'[t] = content[t]
  PROVE  ChatInv'
  <1>1. /\ UNCHANGED <<turnPhase, running, turnAborted, pendingApproval, history, alive, toHost, asked, cleared>>
        /\ ChatTypeOK /\ HostInv /\ AskInv /\ ClearInv /\ DisposedInv
    BY DEF PageRest, hostVars, ChatInv
  <1>2. Shifted
    BY <1>1, TailShifts DEF ChatTypeOK
  <1>3. LockInv'
    BY <1>1, <1>2, LockShow
  <1>4. StopInv'
    BY <1>1, <1>2, StopShow
  <1>5. OpenInv'
    BY <1>1, <1>2, TurnNumbers, OpenShow
  <1>6. ChatTypeOK'
    BY <1>1, <1>2 DEF ChatTypeOK, Shifted
  <1>7. HostInv' /\ ClearInv'
    BY <1>1 DEF HostInv, ClearInv, InPlay, ClearForgets
  <1>8. AskInv'
    BY <1>1 DEF AskInv
  <1>9. DisposedInv'
    BY <1>1 DEF DisposedInv
  <1> QED BY <1>3, <1>4, <1>5, <1>6, <1>7, <1>8, <1>9 DEF ChatInv

(* The kinds added are to the turn that is shown.                          *)
LEMMA Adds ==
  ASSUME ChatTypeOK, NEW kinds \in SUBSET (AnswerTypes \cup {"sql", "cancelled"}), Add(kinds)
  PROVE  /\ content' \in [TurnIds -> SUBSET (AnswerTypes \cup {"sql", "cancelled"})]
         /\ \A t \in TurnIds : content'[t] \subseteq content[t] \cup kinds
         /\ \A t \in TurnIds : t # shown => content'[t] = content[t]
         /\ shown = NoTurn => content' = content
  BY DEF Add, ChatTypeOK

(* Every message the page shows.                                           *)
LEMMA PageStepKeeps == ASSUME ChatInv, PageStep PROVE ChatInv'
  <1>0. /\ ChatTypeOK /\ toView \in Seq(ViewMsgs) /\ busy \in BOOLEAN /\ shown \in TurnIds \cup {NoTurn}
        /\ content \in [TurnIds -> SUBSET (AnswerTypes \cup {"sql", "cancelled"})]
    BY DEF ChatInv, ChatTypeOK
  <1>1. ASSUME NEW ty, Shown(ty)
        PROVE  toView # <<>> /\ toView' = Tail(toView) /\ PageRest /\ toView[1].type = ty
    BY <1>0, <1>1 DEF Shown, Arrived
  <1>2. CASE ShowTurnStart
    <2>1. /\ toView # <<>> /\ toView' = Tail(toView) /\ PageRest /\ toView[1].type = "turnStart"
          /\ shown' = toView[1].turn /\ busy' = TRUE /\ content' = content
      BY <1>0, <1>1, <1>2 DEF ShowTurnStart
    <2>2. Shifted
      BY <1>0, <2>1, TailShifts
    <2>3. shown' \in TurnIds /\ content[shown'] = {}
      BY <2>1, <2>2 DEF ChatInv, OpenInv, Shifted
    <2>4. "cancelled" \notin content'[shown']
      BY <2>1, <2>3
    <2> QED BY <1>0, <2>1, <2>3, <2>4, PageKeeps
  <1>3. CASE ShowCancelled
    <2>1. /\ toView # <<>> /\ toView' = Tail(toView) /\ PageRest /\ toView[1].type = "cancelled"
          /\ shown' = shown /\ busy' = FALSE /\ Add({"cancelled"})
      BY <1>1, <1>3 DEF ShowCancelled
    <2>2. /\ content' \in [TurnIds -> SUBSET (AnswerTypes \cup {"sql", "cancelled"})]
          /\ \A t \in TurnIds : t # shown => content'[t] = content[t]
      BY <1>0, <2>1, Adds
    <2> QED BY <1>0, <2>1, <2>2, PageKeeps
  <1>4. CASE ShowClear
    <2>1. /\ toView # <<>> /\ toView' = Tail(toView) /\ PageRest
          /\ shown' = NoTurn /\ busy' = FALSE /\ content' = content
      BY <1>1, <1>4 DEF ShowClear
    <2> QED BY <1>0, <2>1, PageKeeps
  <1>5. ASSUME NEW kinds \in SUBSET (AnswerTypes \cup {"sql"}), NEW ty, Shown(ty), ty # "turnStart",
               Add(kinds), shown' = shown, ~busy' \/ (busy' = busy /\ ty \notin UnlockTypes), busy' \in BOOLEAN
        PROVE  ChatInv'
    <2>1. toView # <<>> /\ toView' = Tail(toView) /\ PageRest /\ toView[1].type = ty
      BY <1>1, <1>5
    <2>2. /\ content' \in [TurnIds -> SUBSET (AnswerTypes \cup {"sql", "cancelled"})]
          /\ \A t \in TurnIds : content'[t] \subseteq content[t] \cup kinds
          /\ \A t \in TurnIds : t # shown => content'[t] = content[t]
      BY <1>0, <1>5, Adds
    <2>3. ASSUME shown' # NoTurn, "cancelled" \in content'[shown'] PROVE Stops(0)
      <3>1. shown \in TurnIds /\ "cancelled" \notin kinds
        BY <1>0, <1>5, <2>3 DEF AnswerTypes
      <3> QED BY <1>5, <2>2, <2>3, <3>1 DEF Stops
    <2> QED BY <1>0, <1>5, <2>1, <2>2, <2>3, PageKeeps
  <1>6. CASE ShowTurnEnd
    <2>1. PICK kinds \in SUBSET {"sql"} : Add(kinds)
      BY <1>6 DEF ShowTurnEnd
    <2>2. Shown("turnEnd") /\ busy' = FALSE /\ shown' = shown
      BY <1>6 DEF ShowTurnEnd
    <2> QED BY <1>5, <2>1, <2>2
  <1>7. CASE ShowSql
    <2>1. CASE Shown("sqlBefore") /\ Add({"sql"}) /\ UNCHANGED <<busy, shown>>
      BY <1>0, <1>5, <2>1 DEF UnlockTypes
    <2>2. CASE Shown("sqlAfter") /\ UNCHANGED <<busy, shown, content>>
      <3>1. Add({})
        BY <1>0, <2>2 DEF Add
      <3> QED BY <1>0, <1>5, <2>2, <3>1 DEF UnlockTypes
    <2> QED BY <1>7, <2>1, <2>2 DEF ShowSql
  <1>8. CASE ShowAnswer
    <2>1. PICK ty \in AnswerTypes :
            /\ Shown(ty)
            /\ Add({ty} \cup IF ty \in {"result", "error"} /\ heldSql # NoTurn THEN {"sql"} ELSE {})
      BY <1>8 DEF ShowAnswer, AnswerTypes
    <2>2. PICK kinds \in SUBSET (AnswerTypes \cup {"sql"}) : Add(kinds)
      BY <2>1
    <2>3. ty # "turnStart" /\ ty \notin UnlockTypes /\ UNCHANGED <<busy, shown>>
      BY <1>8, <2>1 DEF ShowAnswer, AnswerTypes, UnlockTypes
    <2> QED BY <1>0, <1>5, <2>1, <2>2, <2>3
  <1> QED BY <1>2, <1>3, <1>4, <1>6, <1>7, <1>8 DEF PageStep

(* The host takes a message that asks nothing, or none.                    *)
Dequeued ==
  \/ toHost' = toHost
  \/ toHost # <<>> /\ Head(toHost).type \notin AskTypes /\ toHost' = Tail(toHost)

(* A question is under way to the host.                                    *)
Asks == \E i \in DOMAIN toHost : toHost[i].type \in AskTypes

(* The queue to the host loses its head.                                   *)
LEMMA TailQueue ==
  ASSUME toHost \in Seq(HostMsgs), toHost # <<>>, toHost' = Tail(toHost)
  PROVE  /\ toHost' \in Seq(HostMsgs) /\ 1 \in DOMAIN toHost /\ Head(toHost) = toHost[1]
         /\ \A i \in DOMAIN toHost' : i \in Nat /\ i + 1 \in DOMAIN toHost /\ toHost'[i] = toHost[i + 1] /\ i + 1 # 1
         /\ \A j \in DOMAIN toHost : j # 1 => j - 1 \in DOMAIN toHost' /\ toHost'[j - 1] = toHost[j]
  <1>1. /\ toHost' \in Seq(HostMsgs) /\ Len(toHost) \in Nat /\ Len(toHost') \in Nat
        /\ Len(toHost) = Len(toHost') + 1 /\ Len(toHost) > 0
    OBVIOUS
  <1>2. DOMAIN toHost = 1 .. Len(toHost) /\ DOMAIN toHost' = 1 .. Len(toHost')
    BY <1>1
  <1>3. 1 \in DOMAIN toHost /\ Head(toHost) = toHost[1]
    BY <1>1, <1>2
  <1>4. \A i \in DOMAIN toHost' : i \in Nat /\ i + 1 \in DOMAIN toHost /\ toHost'[i] = toHost[i + 1] /\ i + 1 # 1
    BY <1>1, <1>2
  <1>5. ASSUME NEW j \in DOMAIN toHost, j # 1 PROVE j - 1 \in DOMAIN toHost' /\ toHost'[j - 1] = toHost[j]
    <2>1. j - 1 \in DOMAIN toHost' /\ (j - 1) + 1 = j
      BY <1>1, <1>2, <1>5
    <2> QED BY <1>4, <2>1
  <1> QED BY <1>1, <1>3, <1>4, <1>5

(* Taking a message that asks nothing keeps the questions behind it.       *)
LEMMA QueueKept ==
  ASSUME ChatInv, Dequeued, UNCHANGED <<asked, alive>>,
         \A t \in TurnIds : turnPhase'[t] = "unasked" <=> turnPhase[t] = "unasked"
  PROVE  /\ AskInv' /\ toHost' \in Seq(HostMsgs) /\ (Asks => Asks') /\ (~alive => toHost' = <<>>)
  <1>1. toHost \in Seq(HostMsgs) /\ AskInv /\ DisposedInv
    BY DEF ChatInv, ChatTypeOK
  <1>2. CASE toHost' = toHost
    BY <1>1, <1>2 DEF AskInv, Asks, DisposedInv
  <1>3. CASE toHost # <<>> /\ Head(toHost).type \notin AskTypes /\ toHost' = Tail(toHost)
    <2>1. /\ toHost' \in Seq(HostMsgs) /\ 1 \in DOMAIN toHost /\ Head(toHost) = toHost[1]
          /\ \A i \in DOMAIN toHost' : i \in Nat /\ i + 1 \in DOMAIN toHost /\ toHost'[i] = toHost[i + 1] /\ i + 1 # 1
          /\ \A j \in DOMAIN toHost : j # 1 => j - 1 \in DOMAIN toHost' /\ toHost'[j - 1] = toHost[j]
      BY <1>1, <1>3, TailQueue
    <2>2. Asks => Asks'
      BY <1>3, <2>1 DEF Asks
    <2>3. ASSUME NEW i \in DOMAIN toHost', toHost'[i].type \in AskTypes
          PROVE  /\ toHost'[i].turn \in TurnIds /\ toHost'[i].turn <= asked
                 /\ turnPhase'[toHost'[i].turn] = "unasked"
                 /\ \A j \in DOMAIN toHost' :
                      j # i /\ toHost'[j].type \in AskTypes => toHost'[j].turn # toHost'[i].turn
      <3>1. \A j \in DOMAIN toHost' : j # i => j + 1 # i + 1
        BY <2>1
      <3>2. i + 1 \in DOMAIN toHost /\ toHost'[i] = toHost[i + 1] /\ toHost[i + 1].type \in AskTypes
        BY <2>1, <2>3
      <3>3. /\ toHost[i + 1].turn \in TurnIds /\ toHost[i + 1].turn <= asked
            /\ turnPhase[toHost[i + 1].turn] = "unasked"
            /\ \A j \in DOMAIN toHost :
                 j # i + 1 /\ toHost[j].type \in AskTypes => toHost[j].turn # toHost[i + 1].turn
        BY <1>1, <3>2 DEF AskInv
      <3>4. \A j \in DOMAIN toHost' :
              j # i /\ toHost'[j].type \in AskTypes => toHost'[j].turn # toHost[i + 1].turn
        BY <2>1, <3>1, <3>3
      <3> QED BY <3>2, <3>3, <3>4
    <2>4. AskInv'
      BY <1>1, <2>3 DEF AskInv
    <2> QED BY <1>1, <1>3, <2>1, <2>2, <2>4 DEF DisposedInv
  <1> QED BY <1>2, <1>3 DEF Dequeued

(* What a turn remembers is itself.                                        *)
LEMMA RememberAdds ==
  ASSUME history \in Seq(TurnIds), NEW t \in TurnIds, Remember(t)
  PROVE  /\ history' \in Seq(TurnIds)
         /\ \A i \in DOMAIN history' : history'[i] = t \/ \E j \in DOMAIN history : history'[i] = history[j]
  <1> DEFINE h == Append(history, t)
  <1>1. h \in Seq(TurnIds) /\ h # <<>> /\ Len(h) \in Nat /\ Len(h) = Len(history) + 1 /\ Len(history) \in Nat
    OBVIOUS
  <1>2. \A i \in DOMAIN h : h[i] = t \/ \E j \in DOMAIN history : h[i] = history[j]
    OBVIOUS
  <1>3. history' = h \/ history' = Tail(h)
    BY DEF Remember
  <1> HIDE DEF h
  <1>4. Tail(h) \in Seq(TurnIds) /\ \A i \in DOMAIN Tail(h) : i + 1 \in DOMAIN h /\ Tail(h)[i] = h[i + 1]
    BY <1>1
  <1> QED BY <1>1, <1>2, <1>3, <1>4

(* A turn under way ends, with an answer if it is in play.                 *)
LEMMA EndsTurn ==
  ASSUME ChatInv, NEW t \in TurnIds, turnPhase[t] \notin {"unasked", "done"},
         NEW ms \in Seq(ViewMsgs), EndWith(t, ms),
         ms = <<>> \/ (InPlay(t) /\ \E ty \in AnswerTypes : ms = <<Msg(ty, t)>>),
         pendingApproval' = IF pendingApproval = t THEN NoTurn ELSE pendingApproval,
         history' = history \/ (InPlay(t) /\ Remember(t)),
         Dequeued, UNCHANGED <<turnAborted, alive, pageVars, cleared>>
  PROVE  ChatInv'
  <1>0. /\ ChatTypeOK /\ HostInv /\ AskInv /\ ClearInv /\ DisposedInv
        /\ UNCHANGED <<asked, busy, shown, content>> /\ turnPhase \in [TurnIds -> Phases]
    BY DEF ChatInv, ChatTypeOK, pageVars
  <1>1. /\ turnPhase' = [turnPhase EXCEPT ![t] = "done"] /\ running' = RunningAfter(t)
        /\ Post(ms \o TurnEnd(t))
    BY DEF EndWith
  <1>2. /\ turnPhase' \in [TurnIds -> Phases] /\ turnPhase'[t] = "done"
        /\ \A u \in TurnIds : u # t => turnPhase'[u] = turnPhase[u]
        /\ \A u \in TurnIds : turnPhase'[u] = "unasked" <=> turnPhase[u] = "unasked"
    BY <1>0, <1>1 DEF Phases
  <1>3. \A u \in TurnIds : (InPlay(u)' => InPlay(u) /\ u # t) /\ (u # t => (InPlay(u)' <=> InPlay(u)))
    BY <1>2 DEF InPlay
  <1>4. AskInv' /\ toHost' \in Seq(HostMsgs) /\ (Asks => Asks') /\ (~alive => toHost' = <<>>)
    BY <1>0, <1>2, QueueKept
  <1> DEFINE full == ms \o TurnEnd(t)
  <1>5. /\ full \in Seq(ViewMsgs)
        /\ \A i \in DOMAIN full : full[i].type = "turnEnd" \/ (full[i].type \in AnswerTypes /\ InPlay(t))
        /\ running = t => \E i \in DOMAIN full : full[i].type = "turnEnd"
    <2>1. Msg("turnEnd", t) \in ViewMsgs /\ Msg("turnEnd", t).type = "turnEnd"
      BY MsgTyped DEF UnlockTypes
    <2>2. /\ TurnEnd(t) \in Seq(ViewMsgs)
          /\ \A i \in DOMAIN TurnEnd(t) : TurnEnd(t)[i].type = "turnEnd"
          /\ running = t => Len(TurnEnd(t)) = 1
      BY <2>1 DEF TurnEnd
    <2>3. Len(ms) \in Nat /\ Len(TurnEnd(t)) \in Nat /\ DOMAIN TurnEnd(t) = 1 .. Len(TurnEnd(t)) /\ DOMAIN ms = 1 .. Len(ms)
      BY <2>2
    <2>4. \A i \in DOMAIN ms : ms[i].type \in AnswerTypes /\ InPlay(t)
      <3>1. CASE ms = <<>>
        BY <3>1
      <3>2. ASSUME NEW ty \in AnswerTypes, ms = <<Msg(ty, t)>>, InPlay(t)
            PROVE  \A i \in DOMAIN ms : ms[i].type \in AnswerTypes /\ InPlay(t)
        BY <3>2, MsgTyped
      <3> QED BY <3>1, <3>2
    <2>5. /\ full \in Seq(ViewMsgs) /\ Len(full) = Len(ms) + Len(TurnEnd(t)) /\ DOMAIN full = 1 .. Len(full)
          /\ \A i \in 1 .. Len(ms) : full[i] = ms[i]
          /\ \A i \in 1 .. Len(TurnEnd(t)) : full[Len(ms) + i] = TurnEnd(t)[i]
      BY <2>2, <2>3
    <2> HIDE DEF full
    <2>6. ASSUME NEW i \in DOMAIN full PROVE full[i].type = "turnEnd" \/ (full[i].type \in AnswerTypes /\ InPlay(t))
      <3>1. CASE i \in 1 .. Len(ms)
        BY <2>3, <2>4, <2>5, <3>1
      <3>2. CASE i \notin 1 .. Len(ms)
        <4>1. i - Len(ms) \in 1 .. Len(TurnEnd(t)) /\ Len(ms) + (i - Len(ms)) = i
          BY <2>3, <2>5, <3>2
        <4>2. full[i] = TurnEnd(t)[i - Len(ms)]
          BY <2>5, <4>1
        <4> QED BY <2>2, <2>3, <4>1, <4>2
      <3> QED BY <3>1, <3>2
    <2>7. ASSUME running = t PROVE \E i \in DOMAIN full : full[i].type = "turnEnd"
      <3>1. 1 \in 1 .. Len(TurnEnd(t)) /\ Len(ms) + 1 \in DOMAIN full
        BY <2>2, <2>3, <2>5, <2>7
      <3>2. full[Len(ms) + 1].type = "turnEnd"
        BY <2>2, <2>3, <2>5, <3>1
      <3> QED BY <3>1, <3>2
    <2> QED BY <2>5, <2>6, <2>7
  <1> HIDE DEF full
  <1>6. Post(full) /\ toView' \in Seq(ViewMsgs) /\ (~alive => toView' = toView)
    BY <1>0, <1>1, <1>5, PostAdds DEF full
  <1>7. /\ \A i \in DOMAIN full : full[i].type # "turnStart" /\ full[i].type # "cancelled"
        /\ \A i \in DOMAIN full : full[i].type \in AnswerTypes => \E u \in TurnIds : InPlay(u)
        /\ (\E u \in TurnIds : InPlay(u))' => \E u \in TurnIds : InPlay(u)
        /\ running = t => \E k \in DOMAIN full : full[k].type \in UnlockTypes
    BY <1>3, <1>5 DEF AnswerTypes, UnlockTypes
  <1>8. LockInv'
    <2>1. Unlocking => Unlocking' \/ \E k \in DOMAIN full : full[k].type \in UnlockTypes
      BY <1>1, <1>4, <1>7 DEF Unlocking, Asks, RunningAfter
    <2> QED BY <1>0, <1>5, <1>6, <1>7, <2>1, LockPost
  <1>9. StopInv'
    BY <1>0, <1>5, <1>6, <1>7, StopPost
  <1>10. OpenInv'
    BY <1>0, <1>2, <1>5, <1>6, <1>7, OpenPost
  <1>11. history' \in Seq(TurnIds) /\ ClearInv'
    <2>1. /\ history' \in Seq(TurnIds)
          /\ \A i \in DOMAIN history' :
               (InPlay(t) /\ history'[i] = t) \/ \E j \in DOMAIN history : history'[i] = history[j]
      BY <1>0, RememberAdds DEF ChatTypeOK
    <2> QED BY <1>0, <1>2, <1>3, <2>1 DEF ClearInv, ClearForgets, ChatTypeOK
  <1>12. running' \in TurnIds \cup {NoTurn} /\ pendingApproval' \in TurnIds \cup {NoTurn}
    BY <1>0, <1>1 DEF RunningAfter, ChatTypeOK
  <1>13. ChatTypeOK'
    BY <1>0, <1>2, <1>4, <1>6, <1>11, <1>12 DEF ChatTypeOK
  <1>14. HostInv'
    <2>1. \A u \in TurnIds : InPlay(u)' => running' = u
      BY <1>0, <1>1, <1>3 DEF HostInv, RunningAfter
    <2>2. running' # NoTurn => turnPhase'[running'] \notin {"unasked", "done"}
      BY <1>0, <1>1, <1>2, <1>12 DEF HostInv, RunningAfter
    <2>3. \A u \in TurnIds : turnPhase'[u] = "approval" => pendingApproval' = u /\ u \notin turnAborted'
      BY <1>0, <1>2 DEF HostInv
    <2>4. pendingApproval' # NoTurn => turnPhase'[pendingApproval'] = "approval"
      BY <1>0, <1>2, <1>12 DEF HostInv
    <2> QED BY <2>1, <2>2, <2>3, <2>4 DEF HostInv
  <1>15. DisposedInv'
    BY <1>0, <1>4, <1>6 DEF DisposedInv
  <1> QED BY <1>4, <1>8, <1>9, <1>10, <1>11, <1>13, <1>14, <1>15 DEF ChatInv

(* A turn under way goes on to its next await.                             *)
LEMMA MovesTurn ==
  ASSUME ChatInv, NEW t \in TurnIds, turnPhase[t] \notin {"unasked", "done"},
         NEW new \in Phases \ {"unasked", "done"}, turnPhase' = [turnPhase EXCEPT ![t] = new],
         NEW ms \in Seq(ViewMsgs), Post(ms),
         \A i \in DOMAIN ms : ms[i].type \in {"sqlBefore", "sqlAfter"},
         new = "approval" => InPlay(t),
         pendingApproval' = IF new = "approval" THEN t
                            ELSE IF turnPhase[t] = "approval" THEN NoTurn ELSE pendingApproval,
         history' = history \/ (InPlay(t) /\ Remember(t)),
         Dequeued, UNCHANGED <<running, turnAborted, alive, pageVars, cleared>>
  PROVE  ChatInv'
  <1>0. /\ ChatTypeOK /\ HostInv /\ AskInv /\ ClearInv /\ DisposedInv
        /\ UNCHANGED <<asked, busy, shown, content>> /\ turnPhase \in [TurnIds -> Phases]
    BY DEF ChatInv, ChatTypeOK, pageVars
  <1>2. /\ turnPhase' \in [TurnIds -> Phases] /\ turnPhase'[t] = new
        /\ \A u \in TurnIds : u # t => turnPhase'[u] = turnPhase[u]
        /\ \A u \in TurnIds : turnPhase'[u] = "unasked" <=> turnPhase[u] = "unasked"
    BY <1>0 DEF Phases
  <1>3. \A u \in TurnIds : InPlay(u)' <=> InPlay(u)
    BY <1>2 DEF InPlay
  <1>4. AskInv' /\ toHost' \in Seq(HostMsgs) /\ (Asks => Asks') /\ (~alive => toHost' = <<>>)
    BY <1>0, <1>2, QueueKept
  <1>6. toView' \in Seq(ViewMsgs) /\ (~alive => toView' = toView)
    BY <1>0, PostAdds
  <1>7. /\ \A i \in DOMAIN ms : /\ ms[i].type # "turnStart" /\ ms[i].type # "cancelled"
                               /\ ms[i].type \notin AnswerTypes
        /\ (\E u \in TurnIds : InPlay(u))' => \E u \in TurnIds : InPlay(u)
    BY <1>3 DEF AnswerTypes
  <1>8. LockInv'
    <2>1. Unlocking => Unlocking'
      BY <1>4 DEF Unlocking, Asks
    <2> QED BY <1>0, <1>7, <2>1, LockPost
  <1>9. StopInv'
    BY <1>0, <1>7, StopPost
  <1>10. OpenInv'
    BY <1>0, <1>2, <1>7, OpenPost
  <1>11. history' \in Seq(TurnIds) /\ ClearInv'
    <2>1. /\ history' \in Seq(TurnIds)
          /\ \A i \in DOMAIN history' :
               (InPlay(t) /\ history'[i] = t) \/ \E j \in DOMAIN history : history'[i] = history[j]
      BY <1>0, RememberAdds DEF ChatTypeOK
    <2> QED BY <1>0, <1>2, <1>3, <2>1 DEF ClearInv, ClearForgets, ChatTypeOK
  <1>12. pendingApproval' \in TurnIds \cup {NoTurn}
    BY <1>0 DEF ChatTypeOK
  <1>13. ChatTypeOK'
    BY <1>0, <1>2, <1>4, <1>6, <1>11, <1>12 DEF ChatTypeOK
  <1>14. HostInv'
    <2>1. \A u \in TurnIds : InPlay(u)' => running' = u
      BY <1>0, <1>3 DEF HostInv
    <2>2. running' # NoTurn => turnPhase'[running'] \notin {"unasked", "done"}
      BY <1>0, <1>2 DEF HostInv, ChatTypeOK
    <2>3. ASSUME NEW u \in TurnIds, turnPhase'[u] = "approval" PROVE pendingApproval' = u /\ u \notin turnAborted'
      <3>1. CASE u = t
        BY <1>2, <2>3, <3>1 DEF InPlay
      <3>2. CASE u # t
        <4>1. turnPhase[u] = "approval" /\ pendingApproval = u /\ u \notin turnAborted
          BY <1>0, <1>2, <2>3, <3>2 DEF HostInv
        <4>2. InPlay(u) /\ running = u
          BY <1>0, <4>1 DEF InPlay, HostInv
        <4>3. ~InPlay(t) /\ turnPhase[t] # "approval"
          BY <1>0, <3>2, <4>1, <4>2 DEF HostInv
        <4> QED BY <4>1, <4>3
      <3> QED BY <3>1, <3>2
    <2>4. pendingApproval' # NoTurn => turnPhase'[pendingApproval'] = "approval"
      BY <1>0, <1>2, <1>12 DEF HostInv
    <2> QED BY <2>1, <2>2, <2>3, <2>4 DEF HostInv
  <1>15. DisposedInv'
    BY <1>0, <1>4, <1>6 DEF DisposedInv
  <1> QED BY <1>4, <1>8, <1>9, <1>10, <1>11, <1>13, <1>14, <1>15 DEF ChatInv

(* running?.abort(): nobody is in play but the turn that follows, if any.  *)
LEMMA Aborts ==
  ASSUME ChatInv, NEW next \in TurnIds \cup {NoTurn}, next # NoTurn => turnPhase[next] = "unasked",
         Abort(running, next)
  PROVE  /\ turnPhase' \in [TurnIds -> Phases] /\ turnAborted' \subseteq TurnIds
         /\ running' \in TurnIds \cup {NoTurn} /\ pendingApproval' \in TurnIds \cup {NoTurn} /\ HostInv'
         /\ \A u \in TurnIds : turnPhase'[u] = "unasked" => turnPhase[u] = "unasked"
         /\ \A u \in TurnIds : u # next /\ turnPhase[u] = "unasked" => turnPhase'[u] = "unasked"
         /\ \A u \in TurnIds : InPlay(u)' => u = next
         /\ next # NoTurn => running' = next /\ turnPhase'[next] = "starting"
         /\ next = NoTurn /\ running # NoTurn /\ running' = NoTurn =>
              RefusedEnd(running) = <<Msg("turnEnd", running)>>
  <1>0. ChatTypeOK /\ HostInv /\ NoTurn \notin TurnIds
    BY TurnNumbers DEF ChatInv
  <1> DEFINE refused == running # NoTurn /\ turnPhase[running] = "approval"
  <1>1. /\ turnAborted' = IF running = NoTurn THEN turnAborted ELSE turnAborted \cup {running}
        /\ pendingApproval' = IF refused THEN NoTurn ELSE pendingApproval
        /\ turnPhase' = [u \in TurnIds |-> IF u = next THEN "starting"
                                         ELSE IF u = running /\ refused THEN "done" ELSE turnPhase[u]]
        /\ running' = IF next = NoTurn /\ ~refused THEN running ELSE next
    BY DEF Abort
  <1> HIDE DEF refused
  <1>2. running # NoTurn => running # next /\ turnPhase[running] \notin {"unasked", "done"} /\ running \in TurnIds
    BY <1>0 DEF HostInv, ChatTypeOK
  <1>3. /\ turnPhase' \in [TurnIds -> Phases] /\ turnAborted' \subseteq TurnIds
        /\ running' \in TurnIds \cup {NoTurn} /\ pendingApproval' \in TurnIds \cup {NoTurn}
    BY <1>0, <1>1 DEF ChatTypeOK, Phases
  <1>4. \A u \in TurnIds : turnPhase'[u] = IF u = next THEN "starting"
                                         ELSE IF u = running /\ refused THEN "done" ELSE turnPhase[u]
    BY <1>1
  <1>5. /\ \A u \in TurnIds : turnPhase'[u] = "unasked" => turnPhase[u] = "unasked"
        /\ \A u \in TurnIds : u # next /\ turnPhase[u] = "unasked" => turnPhase'[u] = "unasked"
    BY <1>0, <1>2, <1>4
  <1>6. ASSUME NEW u \in TurnIds, InPlay(u)' PROVE u = next
    <2> SUFFICES ASSUME u # next PROVE FALSE
      OBVIOUS
    <2>1. turnPhase'[u] = turnPhase[u] /\ u \notin turnAborted'
      BY <1>4, <1>6 DEF InPlay
    <2>2. InPlay(u)
      BY <1>1, <1>6, <2>1 DEF InPlay
    <2>3. running = u
      BY <1>0, <2>2 DEF HostInv
    <2> QED BY <1>0, <1>1, <2>1, <2>3
  <1>7. \A u \in TurnIds : turnPhase[u] = "approval" => running = u
    BY <1>0 DEF HostInv, InPlay
  <1>8. \A u \in TurnIds : turnPhase'[u] # "approval"
    BY <1>0, <1>4, <1>7 DEF refused
  <1>9. pendingApproval' = NoTurn
    BY <1>0, <1>1, <1>7 DEF refused, HostInv, ChatTypeOK
  <1>10. next # NoTurn => running' = next /\ turnPhase'[next] = "starting"
    BY <1>1, <1>4
  <1>11. HostInv'
    <2>1. \A u \in TurnIds : InPlay(u)' => running' = u
      BY <1>0, <1>6, <1>10
    <2>2. running' # NoTurn => turnPhase'[running'] \notin {"unasked", "done"}
      <3>1. CASE next # NoTurn
        BY <1>10, <3>1
      <3>2. CASE next = NoTurn
        BY <1>0, <1>1, <1>2, <1>4, <3>2
      <3> QED BY <3>1, <3>2
    <2> QED BY <1>8, <1>9, <2>1, <2>2 DEF HostInv
  <1>12. next = NoTurn /\ running # NoTurn /\ running' = NoTurn => RefusedEnd(running) = <<Msg("turnEnd", running)>>
    BY <1>1 DEF RefusedEnd, refused
  <1> QED BY <1>3, <1>5, <1>6, <1>10, <1>11, <1>12

(* What was cleared stays so, if none of it is put in play.                *)
LEMMA ClearRests ==
  ASSUME ChatInv, UNCHANGED <<history, cleared>>,
         \A u \in TurnIds : turnPhase'[u] = "unasked" => turnPhase[u] = "unasked",
         \A u \in TurnIds : InPlay(u)' => InPlay(u) \/ u \notin cleared
  PROVE  ClearInv' /\ history' \in Seq(TurnIds) /\ cleared' \subseteq TurnIds
  <1>1. cleared \subseteq TurnIds /\ ClearInv /\ history \in Seq(TurnIds)
    BY DEF ChatInv, ChatTypeOK
  <1>2. ASSUME NEW u \in cleared PROVE turnPhase'[u] # "unasked" /\ ~InPlay(u)'
    BY <1>1, <1>2 DEF ClearInv
  <1>3. ClearForgets'
    BY <1>1 DEF ClearInv, ClearForgets
  <1> QED BY <1>1, <1>2, <1>3 DEF ClearInv

(* Stop, Clear and the loss of the panel leave nobody in play.             *)
LEMMA AbortsAll ==
  ASSUME ChatInv, Abort(running, NoTurn)
  PROVE  /\ turnPhase' \in [TurnIds -> Phases] /\ turnAborted' \subseteq TurnIds
         /\ running' \in TurnIds \cup {NoTurn} /\ pendingApproval' \in TurnIds \cup {NoTurn} /\ HostInv'
         /\ \A u \in TurnIds : turnPhase'[u] = "unasked" <=> turnPhase[u] = "unasked"
         /\ \A u \in TurnIds : ~InPlay(u)'
  <1>1. NoTurn \in TurnIds \cup {NoTurn} /\ (NoTurn # NoTurn => turnPhase[NoTurn] = "unasked")
    OBVIOUS
  <1>2. /\ turnPhase' \in [TurnIds -> Phases] /\ turnAborted' \subseteq TurnIds
        /\ running' \in TurnIds \cup {NoTurn} /\ pendingApproval' \in TurnIds \cup {NoTurn} /\ HostInv'
        /\ \A u \in TurnIds : turnPhase'[u] = "unasked" => turnPhase[u] = "unasked"
        /\ \A u \in TurnIds : u # NoTurn /\ turnPhase[u] = "unasked" => turnPhase'[u] = "unasked"
        /\ \A u \in TurnIds : InPlay(u)' => u = NoTurn
    BY <1>1, Aborts, Zenon
  <1>3. \A u \in TurnIds : u # NoTurn
    BY TurnNumbers
  <1>4. \A u \in TurnIds : turnPhase'[u] = "unasked" <=> turnPhase[u] = "unasked"
    BY <1>2, <1>3
  <1>5. \A u \in TurnIds : ~InPlay(u)'
    BY <1>2, <1>3
  <1> QED BY <1>2, <1>4, <1>5

(* What an aborted turn may still post.                                    *)
LEMMA RefusedTyped ==
  ASSUME ChatTypeOK, NoTurn \notin TurnIds
  PROVE  RefusedEnd(running) = <<>> \/
         /\ RefusedEnd(running) = <<Msg("turnEnd", running)>> /\ Msg("turnEnd", running) \in ViewMsgs
         /\ Msg("turnEnd", running).type = "turnEnd"
  <1>1. Msg("turnEnd", running) \in ViewMsgs /\ Msg("turnEnd", running).type = "turnEnd"
    BY MsgTyped DEF ChatTypeOK, UnlockTypes
  <1> QED BY <1>1 DEF RefusedEnd

(* Stop and Clear: m is said, then the turn's end if it was refused.       *)
LEMMA AbortPosts ==
  ASSUME ChatInv, NEW m \in ViewMsgs, m.type \in {"cancelled", "clear"},
         Abort(running, NoTurn), Post(<<m>> \o RefusedEnd(running)),
         Dequeued, UNCHANGED <<alive, pageVars>>,
         (UNCHANGED <<history, cleared>>) \/ (history' = <<>> /\ cleared' = Handled)
  PROVE  ChatInv'
  <1>0. /\ ChatTypeOK /\ HostInv /\ AskInv /\ ClearInv /\ DisposedInv /\ NoTurn \notin TurnIds
        /\ UNCHANGED <<asked, busy, shown, content>>
    BY TurnNumbers DEF ChatInv, pageVars
  <1>1. /\ turnPhase' \in [TurnIds -> Phases] /\ turnAborted' \subseteq TurnIds
        /\ running' \in TurnIds \cup {NoTurn} /\ pendingApproval' \in TurnIds \cup {NoTurn} /\ HostInv'
        /\ \A u \in TurnIds : turnPhase'[u] = "unasked" <=> turnPhase[u] = "unasked"
        /\ \A u \in TurnIds : ~InPlay(u)'
    BY AbortsAll
  <1>2. AskInv' /\ toHost' \in Seq(HostMsgs) /\ (Asks => Asks') /\ (~alive => toHost' = <<>>)
    BY <1>0, <1>1, QueueKept
  <1> DEFINE full == <<m>> \o RefusedEnd(running)
  <1>3. /\ full \in Seq(ViewMsgs) /\ 1 \in DOMAIN full /\ full[1] = m
        /\ \A i \in DOMAIN full : full[i].type \in {"cancelled", "clear", "turnEnd"}
    <2>1. CASE RefusedEnd(running) = <<>>
      BY <2>1
    <2>2. CASE /\ RefusedEnd(running) = <<Msg("turnEnd", running)>> /\ Msg("turnEnd", running) \in ViewMsgs
               /\ Msg("turnEnd", running).type = "turnEnd"
      BY <2>2
    <2> QED BY <1>0, <2>1, <2>2, RefusedTyped
  <1> HIDE DEF full
  <1>4. Post(full) /\ toView' \in Seq(ViewMsgs) /\ (~alive => toView' = toView)
    BY <1>0, <1>3, PostAdds DEF full
  <1>5. /\ \A i \in DOMAIN full : full[i].type # "turnStart" /\ full[i].type \notin AnswerTypes
        /\ full[1].type \in UnlockTypes /\ ~(\E u \in TurnIds : InPlay(u))'
    BY <1>1, <1>3 DEF AnswerTypes, UnlockTypes
  <1>6. LockInv'
    BY <1>0, <1>3, <1>4, <1>5, LockPost
  <1>7. StopInv'
    BY <1>0, <1>3, <1>4, <1>5, StopPost
  <1>8. OpenInv'
    BY <1>0, <1>1, <1>3, <1>4, <1>5, OpenPost
  <1>9. history' \in Seq(TurnIds) /\ cleared' \subseteq TurnIds /\ ClearInv'
    <2>1. CASE UNCHANGED <<history, cleared>>
      BY <1>0, <1>1, <2>1, ClearRests
    <2>2. CASE history' = <<>> /\ cleared' = Handled
      BY <1>1, <2>2 DEF ClearInv, ClearForgets, Handled
    <2> QED BY <2>1, <2>2
  <1>10. ChatTypeOK'
    BY <1>0, <1>1, <1>2, <1>4, <1>9 DEF ChatTypeOK
  <1>11. DisposedInv'
    BY <1>0, <1>2, <1>4 DEF DisposedInv
  <1> QED BY <1>1, <1>2, <1>6, <1>7, <1>8, <1>9, <1>10, <1>11 DEF ChatInv

(* The panel is lost.                                                      *)
LEMMA DisposeKeeps == ASSUME ChatInv, Dispose PROVE ChatInv'
  <1>0. ChatTypeOK /\ AskInv /\ ClearInv /\ OpenInv /\ NoTurn \notin TurnIds
    BY TurnNumbers DEF ChatInv
  <1>1. /\ turnPhase' \in [TurnIds -> Phases] /\ turnAborted' \subseteq TurnIds
        /\ running' \in TurnIds \cup {NoTurn} /\ pendingApproval' \in TurnIds \cup {NoTurn} /\ HostInv'
        /\ \A u \in TurnIds : turnPhase'[u] = "unasked" <=> turnPhase[u] = "unasked"
        /\ \A u \in TurnIds : ~InPlay(u)'
    BY AbortsAll DEF Dispose
  <1>2. /\ alive' = FALSE /\ toView' = <<>> /\ toHost' = <<>> /\ busy' = FALSE /\ shown' = NoTurn
        /\ UNCHANGED <<history, asked, content, cleared>>
    BY DEF Dispose
  <1>3. ChatTypeOK'
    <2>1. toView' \in Seq(ViewMsgs) /\ toHost' \in Seq(HostMsgs)
      BY <1>2
    <2> QED BY <1>0, <1>1, <1>2, <2>1 DEF ChatTypeOK
  <1>4. AskInv' /\ DisposedInv'
    BY <1>0, <1>1, <1>2 DEF AskInv, DisposedInv
  <1>5. ClearInv'
    BY <1>0, <1>1, <1>2, ClearRests
  <1>6. LockInv' /\ StopInv'
    BY <1>2 DEF LockInv, StopInv, Locks, Stops
  <1>7. OpenInv'
    BY <1>0, <1>1, <1>2 DEF OpenInv
  <1> QED BY <1>1, <1>3, <1>4, <1>5, <1>6, <1>7 DEF ChatInv

(* The host takes a question: it is new, and none of those behind it is it. *)
LEMMA QueueAsk ==
  ASSUME ChatInv, toHost # <<>>, Head(toHost).type \in AskTypes, toHost' = Tail(toHost),
         UNCHANGED asked,
         \A u \in TurnIds : turnPhase'[u] = "unasked" => turnPhase[u] = "unasked",
         \A u \in TurnIds : u # Head(toHost).turn /\ turnPhase[u] = "unasked" => turnPhase'[u] = "unasked"
  PROVE  /\ AskInv' /\ toHost' \in Seq(HostMsgs) /\ alive
         /\ Head(toHost).turn \in TurnIds /\ turnPhase[Head(toHost).turn] = "unasked"
  <1>1. toHost \in Seq(HostMsgs) /\ AskInv /\ DisposedInv /\ alive \in BOOLEAN
    BY DEF ChatInv, ChatTypeOK
  <1>2. /\ toHost' \in Seq(HostMsgs) /\ 1 \in DOMAIN toHost /\ Head(toHost) = toHost[1]
        /\ \A i \in DOMAIN toHost' : i \in Nat /\ i + 1 \in DOMAIN toHost /\ toHost'[i] = toHost[i + 1] /\ i + 1 # 1
    BY <1>1, TailQueue
  <1>3. /\ toHost[1].turn \in TurnIds /\ turnPhase[toHost[1].turn] = "unasked" /\ toHost[1].turn <= asked
        /\ \A j \in DOMAIN toHost : j # 1 /\ toHost[j].type \in AskTypes => toHost[j].turn # toHost[1].turn
    BY <1>1, <1>2 DEF AskInv
  <1>4. ASSUME NEW i \in DOMAIN toHost', toHost'[i].type \in AskTypes
        PROVE  /\ toHost'[i].turn \in TurnIds /\ toHost'[i].turn <= asked
               /\ turnPhase'[toHost'[i].turn] = "unasked"
               /\ \A j \in DOMAIN toHost' :
                    j # i /\ toHost'[j].type \in AskTypes => toHost'[j].turn # toHost'[i].turn
    <2>1. \A j \in DOMAIN toHost' : j # i => j + 1 # i + 1
      BY <1>2
    <2>2. i + 1 \in DOMAIN toHost /\ toHost'[i] = toHost[i + 1] /\ toHost[i + 1].type \in AskTypes /\ i + 1 # 1
      BY <1>2, <1>4
    <2>3. /\ toHost[i + 1].turn \in TurnIds /\ toHost[i + 1].turn <= asked
          /\ turnPhase[toHost[i + 1].turn] = "unasked"
          /\ \A j \in DOMAIN toHost :
               j # i + 1 /\ toHost[j].type \in AskTypes => toHost[j].turn # toHost[i + 1].turn
      BY <1>1, <2>2 DEF AskInv
    <2>4. turnPhase'[toHost[i + 1].turn] = "unasked"
      BY <1>2, <1>3, <2>2, <2>3
    <2>5. \A j \in DOMAIN toHost' :
            j # i /\ toHost'[j].type \in AskTypes => toHost'[j].turn # toHost[i + 1].turn
      BY <1>2, <2>1, <2>3
    <2> QED BY <2>2, <2>3, <2>4, <2>5
  <1>5. \A t \in TurnIds : turnPhase'[t] # "unasked" => t <= asked
    BY <1>1, <1>2, <1>3 DEF AskInv
  <1>6. AskInv'
    BY <1>4, <1>5 DEF AskInv
  <1>7. alive
    BY <1>1 DEF DisposedInv
  <1> QED BY <1>2, <1>3, <1>6, <1>7

(* A question is taken, and the turn before it aborted.                    *)
LEMMA HandleAskKeeps == ASSUME ChatInv, HandleAsk PROVE ChatInv'
  <1> DEFINE t == Head(toHost).turn
             m == Msg("turnStart", t)
  <1>0. /\ ChatTypeOK /\ AskInv /\ ClearInv /\ NoTurn \notin TurnIds
        /\ UNCHANGED <<asked, busy, shown, content, alive, history, cleared>>
        /\ toHost # <<>> /\ Head(toHost).type = "ask" /\ toHost' = Tail(toHost)
        /\ Post(<<m>>) /\ Abort(running, t)
    BY TurnNumbers DEF ChatInv, HandleAsk, pageVars, Received, Took
  <1>1. t \in TurnIds /\ turnPhase[t] = "unasked"
    BY <1>0 DEF AskInv, ChatTypeOK, AskTypes
  <1>2. m \in ViewMsgs /\ m.type = "turnStart" /\ m.turn = t
    BY <1>1, MsgTyped
  <1> HIDE DEF m
  <1>3. /\ turnPhase' \in [TurnIds -> Phases] /\ turnAborted' \subseteq TurnIds
        /\ running' = t /\ pendingApproval' \in TurnIds \cup {NoTurn} /\ HostInv'
        /\ turnPhase'[t] = "starting"
        /\ \A u \in TurnIds : turnPhase'[u] = "unasked" => turnPhase[u] = "unasked"
        /\ \A u \in TurnIds : u # t /\ turnPhase[u] = "unasked" => turnPhase'[u] = "unasked"
        /\ \A u \in TurnIds : InPlay(u)' => u = t
    BY <1>0, <1>1, Aborts
  <1>4. AskInv' /\ toHost' \in Seq(HostMsgs) /\ alive
    <2>1. Head(toHost).type \in AskTypes /\ UNCHANGED asked
      BY <1>0 DEF AskTypes
    <2>2. /\ \A u \in TurnIds : turnPhase'[u] = "unasked" => turnPhase[u] = "unasked"
          /\ \A u \in TurnIds : u # Head(toHost).turn /\ turnPhase[u] = "unasked" => turnPhase'[u] = "unasked"
      BY <1>3
    <2> QED BY <1>0, <2>1, <2>2, QueueAsk
  <1> DEFINE ms == <<m>>
  <1>5. ms \in Seq(ViewMsgs) /\ DOMAIN ms = {1} /\ ms[1] = m
    BY <1>2
  <1> HIDE DEF ms
  <1>6. Post(ms) /\ toView' \in Seq(ViewMsgs)
    BY <1>0, <1>5, PostAdds DEF ms
  <1>7. LockInv'
    <2>1. Unlocking'
      BY <1>0, <1>1, <1>3 DEF Unlocking
    <2> QED BY <1>0, <1>5, <1>6, <2>1, LockPost
  <1>8. StopInv'
    <2>1. ms[1].type = "turnStart" /\ ms[1].type \notin AnswerTypes /\ ms[1].type # "cancelled"
      BY <1>2, <1>5 DEF AnswerTypes
    <2> QED BY <1>0, <1>5, <1>6, <2>1, StopPost
  <1>9. OpenInv'
    <2>1. \A i \in DOMAIN ms : i = 1 /\ ms[i].turn = t
      BY <1>2, <1>5
    <2>2. \A u \in TurnIds : turnPhase'[u] = "unasked" => turnPhase[u] = "unasked"
      BY <1>3
    <2>3. turnPhase'[t] # "unasked"
      BY <1>3
    <2> QED BY <1>0, <1>1, <1>5, <1>6, <2>1, <2>2, <2>3, OpenPost
  <1>10. ClearInv'
    <2>1. t \notin cleared
      BY <1>0, <1>1 DEF ClearInv
    <2> QED BY <1>0, <1>3, <2>1, ClearRests
  <1>11. ChatTypeOK'
    BY <1>0, <1>1, <1>3, <1>4, <1>6 DEF ChatTypeOK
  <1>12. DisposedInv'
    BY <1>0, <1>4 DEF DisposedInv
  <1> QED BY <1>3, <1>4, <1>7, <1>8, <1>9, <1>10, <1>11, <1>12 DEF ChatInv

(* A question about a database that is gone.                               *)
LEMMA HandleAskGoneKeeps == ASSUME ChatInv, HandleAskGone PROVE ChatInv'
  <1> DEFINE t == Head(toHost).turn
             a == Msg("turnStart", t)
             b == Msg("error", t)
             c == Msg("turnEnd", t)
             ms == <<a, b, c>>
  <1>0. /\ ChatTypeOK /\ AskInv /\ ClearInv /\ HostInv /\ NoTurn \notin TurnIds
        /\ UNCHANGED <<asked, busy, shown, content, alive, history, cleared, running, turnAborted, pendingApproval>>
        /\ toHost # <<>> /\ Head(toHost).type = "askGone" /\ toHost' = Tail(toHost)
        /\ Post(ms) /\ turnPhase' = [turnPhase EXCEPT ![t] = "done"]
    BY TurnNumbers DEF ChatInv, HandleAskGone, pageVars, Received, Took
  <1>1. t \in TurnIds /\ turnPhase[t] = "unasked"
    BY <1>0 DEF AskInv, ChatTypeOK, AskTypes
  <1>2. /\ a \in ViewMsgs /\ a.type = "turnStart" /\ a.turn = t
        /\ b \in ViewMsgs /\ b.type = "error" /\ c \in ViewMsgs /\ c.type = "turnEnd"
    BY <1>1, MsgTyped DEF AnswerTypes, UnlockTypes
  <1> HIDE DEF a, b, c
  <1>3. /\ turnPhase' \in [TurnIds -> Phases] /\ turnPhase'[t] = "done"
        /\ \A u \in TurnIds : u # t => turnPhase'[u] = turnPhase[u]
    BY <1>0, <1>1 DEF ChatTypeOK, Phases
  <1>4. /\ \A u \in TurnIds : turnPhase'[u] = "unasked" => turnPhase[u] = "unasked"
        /\ \A u \in TurnIds : u # t /\ turnPhase[u] = "unasked" => turnPhase'[u] = "unasked"
    BY <1>1, <1>3
  <1>15. \A u \in TurnIds : InPlay(u)' <=> InPlay(u)
    BY <1>0, <1>1, <1>3 DEF InPlay
  <1>5. AskInv' /\ toHost' \in Seq(HostMsgs) /\ alive
    BY <1>0, <1>4, QueueAsk DEF AskTypes
  <1>6. ms \in Seq(ViewMsgs) /\ DOMAIN ms = {1, 2, 3} /\ ms[1] = a /\ ms[2] = b /\ ms[3] = c
    BY <1>2
  <1> HIDE DEF ms
  <1>7. toView' \in Seq(ViewMsgs)
    BY <1>0, <1>6, PostAdds
  <1>8. LockInv'
    <2>1. 3 \in DOMAIN ms /\ ms[3].type \in UnlockTypes /\ ms[2].type # "turnStart" /\ ms[3].type # "turnStart"
      BY <1>2, <1>6 DEF UnlockTypes
    <2>2. \A i \in DOMAIN ms : ms[i].type = "turnStart" => 3 > i
      BY <1>6, <2>1
    <2> QED BY <1>0, <1>6, <2>1, <2>2, LockPost
  <1>9. StopInv'
    <2>1. /\ ms[1].type = "turnStart" /\ \A i \in DOMAIN ms : ms[i].type # "cancelled"
          /\ \A k \in DOMAIN ms : ms[k].type \in AnswerTypes =>
               \E j \in DOMAIN ms : j < k /\ ms[j].type = "turnStart"
      BY <1>2, <1>6 DEF AnswerTypes
    <2>2. (\E u \in TurnIds : InPlay(u))' => \E u \in TurnIds : InPlay(u)
      BY <1>15, Zenon
    <2> QED BY <1>0, <1>6, <2>1, <2>2, StopPost
  <1>10. OpenInv'
    <2>1. \A i \in DOMAIN ms : ms[i].type = "turnStart" => i = 1 /\ ms[i].turn = t
      BY <1>2, <1>6
    <2> QED BY <1>0, <1>1, <1>3, <1>4, <1>6, <2>1, OpenPost
  <1>11. ClearInv'
    BY <1>0, <1>4, <1>15, ClearRests
  <1>12. HostInv'
    <2>1. running # t /\ pendingApproval # t
      BY <1>0, <1>1 DEF HostInv
    <2>2. \A u \in TurnIds : InPlay(u)' => running' = u
      BY <1>0, <1>15 DEF HostInv
    <2>3. \A u \in TurnIds : turnPhase'[u] = "approval" => pendingApproval' = u /\ u \notin turnAborted'
      BY <1>0, <1>3 DEF HostInv
    <2>4. /\ running' # NoTurn => turnPhase'[running'] \notin {"unasked", "done"}
          /\ pendingApproval' # NoTurn => turnPhase'[pendingApproval'] = "approval"
      BY <1>0, <1>3, <2>1 DEF HostInv, ChatTypeOK
    <2> QED BY <2>2, <2>3, <2>4 DEF HostInv
  <1>13. ChatTypeOK'
    BY <1>0, <1>3, <1>5, <1>7 DEF ChatTypeOK
  <1>14. DisposedInv'
    BY <1>0, <1>5 DEF DisposedInv
  <1> QED BY <1>5, <1>8, <1>9, <1>10, <1>11, <1>12, <1>13, <1>14 DEF ChatInv

(* A message to the host is added at the end of its queue.                 *)
LEMMA SendAdds ==
  ASSUME toHost \in Seq(HostMsgs), NEW m \in HostMsgs, Send(m)
  PROVE  /\ alive /\ toHost' \in Seq(HostMsgs)
         /\ \A i \in DOMAIN toHost : i \in DOMAIN toHost' /\ toHost'[i] = toHost[i]
         /\ \A i \in DOMAIN toHost' : i \in DOMAIN toHost \/ (i = Len(toHost) + 1 /\ toHost'[i] = m)
         /\ Len(toHost) + 1 \in DOMAIN toHost' /\ toHost'[Len(toHost) + 1] = m
  BY DEF Send

(* A click, of a new question or of something about one.                   *)
LEMMA ClicksKeep ==
  ASSUME ChatInv, NEW m \in HostMsgs, Send(m), UNCHANGED <<hostVars, alive, toView, shown, content, cleared>>,
         \/ m.type \notin AskTypes /\ UNCHANGED <<asked, busy>>
         \/ /\ m.type \in AskTypes /\ m.turn = asked + 1 /\ asked < MaxTurns
            /\ asked' = asked + 1 /\ busy' = TRUE
  PROVE  ChatInv'
  <1>0. /\ ChatTypeOK /\ HostInv /\ AskInv /\ ClearInv /\ LockInv /\ OpenInv /\ StopInv
        /\ UNCHANGED <<turnPhase, running, turnAborted, pendingApproval, history, alive, toView, shown, content, cleared>>
        /\ asked \in Nat /\ asked <= MaxTurns /\ toHost \in Seq(HostMsgs) /\ MaxTurns \in Nat
        /\ \A t \in TurnIds : t \in Nat
    BY TurnNumbers DEF ChatInv, ChatTypeOK, hostVars
  <1>1. /\ alive /\ toHost' \in Seq(HostMsgs)
        /\ \A i \in DOMAIN toHost : i \in DOMAIN toHost' /\ toHost'[i] = toHost[i]
        /\ \A i \in DOMAIN toHost' : i \in DOMAIN toHost \/ (i = Len(toHost) + 1 /\ toHost'[i] = m)
        /\ Len(toHost) + 1 \in DOMAIN toHost' /\ toHost'[Len(toHost) + 1] = m
    BY <1>0, SendAdds
  <1>2. asked' \in 0 .. MaxTurns /\ asked <= asked' /\ busy' \in BOOLEAN
    <2>1. asked' \in 0 .. MaxTurns /\ asked <= asked'
      BY <1>0
    <2>2. busy' \in BOOLEAN
      BY <1>0 DEF ChatTypeOK
    <2> QED BY <2>1, <2>2
  <1>3. ChatTypeOK'
    BY <1>0, <1>1, <1>2 DEF ChatTypeOK
  <1>4. AskInv'
    <2>1. \A t \in TurnIds : turnPhase'[t] # "unasked" => t <= asked'
      BY <1>0, <1>2 DEF AskInv
    <2>2. m.type \in AskTypes =>
            /\ m.turn \in TurnIds /\ m.turn <= asked' /\ m.turn > asked /\ turnPhase[m.turn] = "unasked"
      <3>1. m.type \in AskTypes => m.turn \in TurnIds /\ m.turn = asked' /\ m.turn > asked
        BY <1>0 DEF TurnIds
      <3> QED BY <1>0, <1>2, <3>1 DEF AskInv
    <2>3. ASSUME NEW i \in DOMAIN toHost, toHost[i].type \in AskTypes
          PROVE  /\ toHost[i].turn \in TurnIds /\ toHost[i].turn <= asked /\ toHost[i].turn <= asked'
                 /\ turnPhase[toHost[i].turn] = "unasked"
                 /\ \A j \in DOMAIN toHost :
                      j # i /\ toHost[j].type \in AskTypes => toHost[j].turn # toHost[i].turn
      BY <1>0, <1>2, <2>3 DEF AskInv
    <2>4. ASSUME NEW i \in DOMAIN toHost', toHost'[i].type \in AskTypes
          PROVE  /\ toHost'[i].turn \in TurnIds /\ toHost'[i].turn <= asked'
                 /\ turnPhase'[toHost'[i].turn] = "unasked"
                 /\ \A j \in DOMAIN toHost' :
                      j # i /\ toHost'[j].type \in AskTypes => toHost'[j].turn # toHost'[i].turn
      <3>1. CASE i \in DOMAIN toHost
        <4>1. toHost'[i] = toHost[i] /\ toHost[i].type \in AskTypes
          BY <1>1, <2>4, <3>1
        <4>2. ASSUME NEW j \in DOMAIN toHost', j # i, toHost'[j].type \in AskTypes
              PROVE  toHost'[j].turn # toHost[i].turn
          <5>1. CASE j \in DOMAIN toHost
            BY <1>1, <2>3, <3>1, <4>1, <4>2, <5>1
          <5>2. CASE toHost'[j] = m
            <6>1. m.turn > asked /\ toHost[i].turn <= asked /\ toHost[i].turn \in TurnIds /\ m.turn \in TurnIds
              BY <2>2, <2>3, <3>1, <4>1, <4>2, <5>2
            <6> QED BY <1>0, <5>2, <6>1
          <5> QED BY <1>1, <5>1, <5>2
        <4> QED BY <1>0, <2>3, <3>1, <4>1, <4>2
      <3>2. CASE i = Len(toHost) + 1 /\ toHost'[i] = m
        <4>1. m.type \in AskTypes
          BY <2>4, <3>2
        <4>2. ASSUME NEW j \in DOMAIN toHost', j # i, toHost'[j].type \in AskTypes
              PROVE  toHost'[j].turn # m.turn
          <5>1. j \in DOMAIN toHost /\ toHost'[j] = toHost[j]
            BY <1>1, <3>2, <4>2
          <5>2. m.turn > asked /\ toHost[j].turn <= asked /\ toHost[j].turn \in TurnIds /\ m.turn \in TurnIds
            BY <2>2, <2>3, <4>1, <4>2, <5>1
          <5> QED BY <1>0, <5>1, <5>2
        <4> QED BY <1>0, <2>2, <3>2, <4>1, <4>2
      <3> QED BY <1>1, <3>1, <3>2
    <2> QED BY <2>1, <2>4 DEF AskInv
  <1>5. LockInv'
    <2>1. Asks => Asks'
      BY <1>1 DEF Asks
    <2>2. m.type \in AskTypes => Asks'
      BY <1>1 DEF Asks
    <2>3. Unlocking => Unlocking'
      BY <1>0, <2>1 DEF Unlocking, Asks
    <2>4. m.type \in AskTypes => Unlocking'
      BY <2>2 DEF Unlocking, Asks
    <2> SUFFICES ASSUME NEW i \in 0 .. Len(toView), Locks(i)', ~Unlocking'
                 PROVE  \E j \in DOMAIN toView : j > i /\ toView[j].type \in UnlockTypes
      BY <1>0 DEF LockInv
    <2>5. Locks(i)
      BY <1>0, <2>4 DEF Locks
    <2> QED BY <1>0, <2>3, <2>5 DEF LockInv
  <1>6. OpenInv'
    BY <1>0 DEF OpenInv
  <1>7. StopInv'
    BY <1>0 DEF StopInv, Stops, StartsBetween, InPlay
  <1>8. HostInv' /\ ClearInv'
    BY <1>0 DEF HostInv, ClearInv, InPlay, ClearForgets
  <1>9. DisposedInv'
    BY <1>0, <1>1 DEF DisposedInv
  <1> QED BY <1>3, <1>4, <1>5, <1>6, <1>7, <1>8, <1>9 DEF ChatInv

(* A panel that comes back is empty.                                       *)
LEMMA ResolveKeeps == ASSUME ChatInv, ResolveWebviewView PROVE ChatInv'
  <1>0. /\ ChatTypeOK /\ HostInv /\ AskInv /\ ClearInv /\ LockInv /\ OpenInv /\ StopInv
        /\ UNCHANGED <<turnPhase, running, turnAborted, pendingApproval, history, toView, toHost, shown,
                       content, cleared, asked, busy>> /\ alive' = TRUE
    BY DEF ChatInv, hostVars, pageVars, ResolveWebviewView
  <1>1. ChatTypeOK' /\ DisposedInv'
    BY <1>0 DEF ChatTypeOK, DisposedInv
  <1>2. AskInv' /\ OpenInv'
    BY <1>0 DEF AskInv, OpenInv
  <1>3. LockInv'
    BY <1>0 DEF LockInv, Locks, Unlocking
  <1>4. StopInv'
    BY <1>0 DEF StopInv, Stops, StartsBetween, InPlay
  <1>5. HostInv' /\ ClearInv'
    BY <1>0 DEF HostInv, ClearInv, InPlay, ClearForgets
  <1> QED BY <1>1, <1>2, <1>3, <1>4, <1>5 DEF ChatInv

(* What a turn says when it ends.                                          *)
LEMMA AnswerTyped ==
  ASSUME NEW t \in TurnIds, NEW ty \in AnswerTypes
  PROVE  <<Msg(ty, t)>> \in Seq(ViewMsgs)
  <1>1. Msg(ty, t) \in ViewMsgs
    BY MsgTyped
  <1> QED BY <1>1

(* The turns that end.                                                     *)
LEMMA EndingsKeep ==
  ASSUME ChatInv, NEW t \in TurnIds, turnPhase[t] \notin {"unasked", "done", "approval"},
         Leave(t) \/ (t \notin turnAborted /\ \E ty \in AnswerTypes : EndWith(t, <<Msg(ty, t)>>)),
         pendingApproval' = pendingApproval,
         history' = history \/ (t \notin turnAborted /\ Remember(t)),
         toHost' = toHost, UNCHANGED <<turnAborted, alive, pageVars, cleared>>
  PROVE  ChatInv'
  <1>1. pendingApproval' = IF pendingApproval = t THEN NoTurn ELSE pendingApproval
    BY TurnNumbers DEF ChatInv, HostInv
  <1>2. Dequeued /\ turnPhase[t] \notin {"unasked", "done"}
        /\ (history' = history \/ (InPlay(t) /\ Remember(t)))
    BY DEF Dequeued, InPlay
  <1>3. CASE Leave(t)
    <2>1. <<>> \in Seq(ViewMsgs) /\ EndWith(t, <<>>)
      BY <1>3 DEF Leave
    <2> QED BY <1>1, <1>2, <2>1, EndsTurn
  <1>4. ASSUME NEW ty \in AnswerTypes, EndWith(t, <<Msg(ty, t)>>), t \notin turnAborted PROVE ChatInv'
    <2>1. InPlay(t)
      BY <1>2, <1>4 DEF InPlay
    <2> DEFINE ms == <<Msg(ty, t)>>
    <2>2. ms \in Seq(ViewMsgs) /\ \E a \in AnswerTypes : ms = <<Msg(a, t)>>
      BY AnswerTyped
    <2>3. EndWith(t, ms)
      BY <1>4
    <2> HIDE DEF ms
    <2> QED BY <1>1, <1>2, <2>1, <2>2, <2>3, EndsTurn
  <1> QED BY <1>3, <1>4

(* The host takes a message that changes nothing.                          *)
LEMMA TakesNothing ==
  ASSUME ChatInv, Dequeued,
         UNCHANGED <<turnPhase, running, turnAborted, pendingApproval, history, alive, toView, pageVars, cleared>>
  PROVE  ChatInv'
  <1>1. \A u \in TurnIds : turnPhase'[u] = "unasked" <=> turnPhase[u] = "unasked"
    OBVIOUS
  <1>2. AskInv' /\ toHost' \in Seq(HostMsgs) /\ (Asks => Asks') /\ (~alive => toHost' = <<>>)
    BY <1>1, QueueKept DEF pageVars
  <1>3. /\ ChatTypeOK /\ HostInv /\ ClearInv /\ LockInv /\ OpenInv /\ StopInv /\ DisposedInv
        /\ UNCHANGED <<turnPhase, running, turnAborted, pendingApproval, history, toView, shown,
                       content, cleared, asked, busy, alive>>
    BY DEF ChatInv, pageVars
  <1>4. ChatTypeOK' /\ DisposedInv' /\ OpenInv'
    BY <1>2, <1>3 DEF ChatTypeOK, DisposedInv, OpenInv
  <1>5. LockInv'
    BY <1>2, <1>3 DEF LockInv, Locks, Unlocking, Asks
  <1>6. StopInv'
    BY <1>3 DEF StopInv, Stops, StartsBetween, InPlay
  <1>7. HostInv' /\ ClearInv'
    BY <1>3 DEF HostInv, ClearInv, InPlay, ClearForgets
  <1> QED BY <1>2, <1>4, <1>5, <1>6, <1>7 DEF ChatInv

(* Run or Don't run is clicked.                                            *)
LEMMA HandleApproveKeeps == ASSUME ChatInv, NEW ok \in BOOLEAN, HandleApprove(ok) PROVE ChatInv'
  <1> DEFINE t == pendingApproval
  <1>0. /\ toHost # <<>> /\ toHost' = Tail(toHost) /\ Head(toHost).type \in {"approve", "refuse"}
        /\ UNCHANGED <<turnAborted, history, alive, pageVars, cleared>>
    BY DEF HandleApprove, Received, Took
  <1>1. Dequeued
    BY <1>0 DEF Dequeued, AskTypes
  <1>2. CASE UNCHANGED <<turnPhase, running, pendingApproval, toView>>
    BY <1>0, <1>1, <1>2, TakesNothing
  <1>3. ASSUME pendingApproval # NoTurn
        PROVE  t \in TurnIds /\ turnPhase[t] = "approval" /\ InPlay(t)
    BY <1>3 DEF ChatInv, ChatTypeOK, HostInv, InPlay
  <1>4. CASE /\ pendingApproval # NoTurn /\ pendingApproval' = NoTurn
             /\ turnPhase' = [turnPhase EXCEPT ![t] = "running"] /\ UNCHANGED <<running, toView>>
    <2>1. Post(<<>>) /\ <<>> \in Seq(ViewMsgs)
      BY <1>4 DEF Post, ChatInv, ChatTypeOK
    <2>2. \A i \in DOMAIN <<>> : <<>>[i].type \in {"sqlBefore", "sqlAfter"}
      OBVIOUS
    <2>3. "running" \in Phases \ {"unasked", "done"} /\ "running" # "approval"
      BY DEF Phases
    <2> QED BY <1>0, <1>1, <1>3, <1>4, <2>1, <2>2, <2>3, MovesTurn
  <1>5. CASE pendingApproval # NoTurn /\ pendingApproval' = NoTurn /\ EndWith(t, <<Msg("notRun", t)>>)
    <2> DEFINE ms == <<Msg("notRun", t)>>
    <2>1. ms \in Seq(ViewMsgs) /\ \E ty \in AnswerTypes : ms = <<Msg(ty, t)>>
      BY <1>3, <1>5, AnswerTyped DEF AnswerTypes
    <2>2. EndWith(t, ms)
      BY <1>5
    <2> HIDE DEF ms
    <2> QED BY <1>0, <1>1, <1>3, <1>5, <2>1, <2>2, EndsTurn
  <1> QED BY <1>2, <1>4, <1>5 DEF HandleApprove, Settles

(* Nothing happens.                                                        *)
LEMMA ChatRests == ASSUME ChatInv, UNCHANGED chatVars PROVE ChatInv'
  BY TakesNothing DEF Dequeued, chatVars, hostVars

(* Stop is clicked.                                                        *)
LEMMA HandleStopKeeps == ASSUME ChatInv, HandleStop PROVE ChatInv'
  <1>0. /\ toHost # <<>> /\ toHost' = Tail(toHost) /\ Head(toHost).type = "stop"
        /\ UNCHANGED <<history, alive, pageVars, cleared>>
    BY DEF HandleStop, Received, Took
  <1>1. Dequeued
    BY <1>0 DEF Dequeued, AskTypes
  <1>2. CASE UNCHANGED <<turnPhase, running, turnAborted, pendingApproval, toView>>
    BY <1>0, <1>1, <1>2, TakesNothing
  <1>3. CASE /\ running # NoTurn /\ Abort(running, NoTurn)
             /\ Post(<<Msg("cancelled", running)>> \o RefusedEnd(running))
    <2>1. Msg("cancelled", running) \in ViewMsgs /\ Msg("cancelled", running).type = "cancelled"
      BY MsgTyped DEF ChatInv, ChatTypeOK, UnlockTypes
    <2> QED BY <1>0, <1>1, <1>3, <2>1, AbortPosts
  <1> QED BY <1>2, <1>3 DEF HandleStop

(* The panel is cleared.                                                   *)
LEMMA ClearKeeps == ASSUME ChatInv, Clear PROVE ChatInv'
  <1>1. Msg("clear", NoTurn) \in ViewMsgs /\ Msg("clear", NoTurn).type = "clear"
    BY MsgTyped DEF UnlockTypes
  <1>2. /\ Abort(running, NoTurn) /\ Post(<<Msg("clear", NoTurn)>> \o RefusedEnd(running))
        /\ history' = <<>> /\ cleared' = Handled /\ Dequeued /\ UNCHANGED <<alive, pageVars>>
    BY DEF Clear, ClearAbort, Dequeued
  <1> QED BY <1>1, <1>2, AbortPosts

(* A turn of the host goes on or ends.                                     *)
LEMMA TurnKeeps ==
  ASSUME ChatInv, NEW t \in TurnIds, NEW size,
         \/ CatalogAnswers(t) \/ EngineReady(t) \/ Fails(t) \/ AskAnswers(t) \/ AskExplains(t)
         \/ ExplainAnswers(t) \/ RunEnds(t, size)
  PROVE  ChatInv'
  <1>0. UNCHANGED <<turnAborted, alive, toHost, pageVars, cleared>> /\ toHost' = toHost /\ Dequeued
    BY DEF CatalogAnswers, EngineReady, Fails, AskAnswers, AskExplains, ExplainAnswers, RunEnds, Dequeued
  <1>1. CASE CatalogAnswers(t) \/ Fails(t)
    <2>1. /\ turnPhase[t] \notin {"unasked", "done", "approval"} /\ pendingApproval' = pendingApproval
          /\ history' = history
      BY <1>1 DEF CatalogAnswers, Fails
    <2>2. Leave(t) \/ (t \notin turnAborted /\ \E ty \in AnswerTypes : EndWith(t, <<Msg(ty, t)>>))
      BY <1>1 DEF CatalogAnswers, Fails, AnswerTypes
    <2> QED BY <1>0, <2>1, <2>2, EndingsKeep
  <1>2. CASE ExplainAnswers(t)
    <2>1. /\ turnPhase[t] \notin {"unasked", "done", "approval"} /\ pendingApproval' = pendingApproval
          /\ history' = history \/ (t \notin turnAborted /\ Remember(t))
      BY <1>2 DEF ExplainAnswers
    <2>2. Leave(t) \/ (t \notin turnAborted /\ \E ty \in AnswerTypes : EndWith(t, <<Msg(ty, t)>>))
      BY <1>2 DEF ExplainAnswers, AnswerTypes
    <2> QED BY <1>0, <2>1, <2>2, EndingsKeep
  <1>3. CASE RunEnds(t, size)
    <2>1. /\ turnPhase[t] \notin {"unasked", "done", "approval"} /\ pendingApproval' = pendingApproval
          /\ history' = history
      BY <1>3 DEF RunEnds
    <2>2. Leave(t) \/ (t \notin turnAborted /\ \E ty \in AnswerTypes : EndWith(t, <<Msg(ty, t)>>))
      BY <1>3 DEF RunEnds, Shows, AnswerTypes
    <2> QED BY <1>0, <2>1, <2>2, EndingsKeep
  <1>4. ASSUME NEW new \in {"asking", "explaining"}, turnPhase[t] \in {"starting", "asking"},
               turnPhase' = [turnPhase EXCEPT ![t] = new],
               UNCHANGED <<running, pendingApproval, history, toView>>
        PROVE  ChatInv'
    <2>1. Post(<<>>) /\ <<>> \in Seq(ViewMsgs)
      BY <1>4 DEF Post, ChatInv, ChatTypeOK
    <2>2. \A i \in DOMAIN <<>> : <<>>[i].type \in {"sqlBefore", "sqlAfter"}
      OBVIOUS
    <2>3. new \in Phases \ {"unasked", "done"} /\ new # "approval" /\ turnPhase[t] # "approval"
          /\ turnPhase[t] \notin {"unasked", "done"}
      BY <1>4 DEF Phases
    <2> QED BY <1>0, <1>4, <2>1, <2>2, <2>3, MovesTurn
  <1>5. CASE EngineReady(t)
    BY <1>4, <1>5 DEF EngineReady
  <1>6. CASE AskExplains(t)
    <2>1. CASE Leave(t)
      <3>1. /\ turnPhase[t] \notin {"unasked", "done", "approval"} /\ pendingApproval' = pendingApproval
            /\ history' = history
        BY <1>6 DEF AskExplains
      <3> QED BY <1>0, <2>1, <3>1, EndingsKeep
    <2>2. CASE ~Leave(t)
      BY <1>4, <1>6, <2>2 DEF AskExplains
    <2> QED BY <2>1, <2>2
  <1>7. CASE AskAnswers(t)
    <2>1. turnPhase[t] = "asking"
      BY <1>7 DEF AskAnswers
    <2>2. CASE Leave(t) /\ UNCHANGED <<pendingApproval, history>>
      <3>1. turnPhase[t] \notin {"unasked", "done", "approval"}
        BY <2>1
      <3> QED BY <1>0, <2>2, <3>1, EndingsKeep
    <2>3. ASSUME NEW ty \in {"sqlBefore", "sqlAfter"}, t \notin turnAborted, Remember(t), Post(<<Msg(ty, t)>>),
                 UNCHANGED running,
                 NEW new \in {"approval", "running"}, turnPhase' = [turnPhase EXCEPT ![t] = new],
                 pendingApproval' = IF new = "approval" THEN t ELSE pendingApproval
          PROVE  ChatInv'
      <3>1. Msg(ty, t) \in ViewMsgs /\ Msg(ty, t).type = ty
        BY <2>3, MsgTyped
      <3> DEFINE ms == <<Msg(ty, t)>>
      <3>2. ms \in Seq(ViewMsgs) /\ \A i \in DOMAIN ms : ms[i].type \in {"sqlBefore", "sqlAfter"}
        BY <2>3, <3>1
      <3>3. Post(ms)
        BY <2>3
      <3> HIDE DEF ms
      <3>4. InPlay(t) /\ new \in Phases \ {"unasked", "done"} /\ turnPhase[t] \notin {"unasked", "done"}
        BY <2>1, <2>3 DEF InPlay, Phases
      <3>5. pendingApproval' = IF new = "approval" THEN t
                               ELSE IF turnPhase[t] = "approval" THEN NoTurn ELSE pendingApproval
        BY <2>1, <2>3
      <3> QED BY <1>0, <2>3, <3>2, <3>3, <3>4, <3>5, MovesTurn
    <2> QED BY <1>7, <2>2, <2>3 DEF AskAnswers
  <1> QED BY <1>1, <1>2, <1>3, <1>5, <1>6, <1>7

(* The clicks of the page.                                                 *)
LEMMA ClickKeeps ==
  ASSUME ChatInv,
         \/ ClickStop \/ \E gone \in BOOLEAN : ClickAsk(gone)
         \/ \E t \in TurnIds, ok \in BOOLEAN : ClickApproval(t, ok)
  PROVE  ChatInv'
  <1>0. \A ty \in AskTypes \cup {"stop", "approve", "refuse"}, t \in TurnIds \cup {NoTurn} :
          Msg(ty, t) \in HostMsgs /\ Msg(ty, t).type = ty /\ Msg(ty, t).turn = t
    BY DEF Msg, HostMsgs
  <1>1. CASE ClickStop
    <2>1. /\ Send(Msg("stop", NoTurn)) /\ UNCHANGED <<hostVars, alive, toView, shown, content, cleared, asked, busy>>
          /\ Msg("stop", NoTurn) \in HostMsgs /\ Msg("stop", NoTurn).type \notin AskTypes
      BY <1>0, <1>1 DEF ClickStop, pageVars, AskTypes
    <2> QED BY <2>1, ClicksKeep
  <1>2. ASSUME NEW gone \in BOOLEAN, ClickAsk(gone) PROVE ChatInv'
    <2> DEFINE ty == IF gone THEN "askGone" ELSE "ask"
    <2>1. ty \in AskTypes
      BY DEF AskTypes
    <2>2. /\ asked < MaxTurns /\ asked' = asked + 1 /\ busy' = TRUE /\ Send(Msg(ty, asked + 1))
          /\ UNCHANGED <<hostVars, alive, toView, shown, content, cleared>>
      BY <1>2 DEF ClickAsk
    <2> HIDE DEF ty
    <2>3. asked + 1 \in TurnIds
      BY <2>2, TurnNumbers DEF ChatInv, ChatTypeOK, TurnIds
    <2>4. Msg(ty, asked + 1) \in HostMsgs /\ Msg(ty, asked + 1).type \in AskTypes /\ Msg(ty, asked + 1).turn = asked + 1
      BY <1>0, <2>1, <2>3
    <2> QED BY <2>2, <2>4, ClicksKeep
  <1>3. ASSUME NEW t \in TurnIds, NEW ok \in BOOLEAN, ClickApproval(t, ok) PROVE ChatInv'
    <2> DEFINE ty == IF ok THEN "approve" ELSE "refuse"
    <2>1. ty \in {"approve", "refuse"} /\ ty \notin AskTypes
      BY DEF AskTypes
    <2>2. Send(Msg(ty, t)) /\ UNCHANGED <<hostVars, alive, toView, shown, content, cleared, asked, busy>>
      BY <1>3 DEF ClickApproval
    <2> HIDE DEF ty
    <2>3. Msg(ty, t) \in HostMsgs /\ Msg(ty, t).type \notin AskTypes
      BY <1>0, <2>1
    <2> QED BY <2>2, <2>3, ClicksKeep
  <1> QED BY <1>1, <1>2, <1>3

(* Every step of the panel and its host keeps the strengthening.           *)
LEMMA ChatPreserved == ChatInv /\ [ChatNext]_chatVars => ChatInv'
  <1> SUFFICES ASSUME ChatInv, [ChatNext]_chatVars PROVE ChatInv'
    OBVIOUS
  <1>1. CASE HostStep
    BY <1>1, HandleAskGoneKeeps, HandleAskKeeps, HandleStopKeeps, HandleApproveKeeps, TurnKeeps DEF HostStep
  <1>2. CASE PageStep
    BY <1>2, PageStepKeeps
  <1>3. CASE Clear \/ Dispose \/ ResolveWebviewView
    BY <1>3, ClearKeeps, DisposeKeeps, ResolveKeeps
  <1>4. CASE \/ ClickStop \/ \E gone \in BOOLEAN : ClickAsk(gone)
             \/ \E t \in TurnIds, ok \in BOOLEAN : ClickApproval(t, ok)
    BY <1>4, ClickKeeps
  <1>5. CASE UNCHANGED chatVars
    BY <1>5, ChatRests
  <1> QED BY <1>1, <1>2, <1>3, <1>4, <1>5 DEF ChatNext

(* A panel that has just opened.                                           *)
LEMMA ChatInitial == ChatInit => ChatInv
  <1> SUFFICES ASSUME ChatInit PROVE ChatInv
    OBVIOUS
  <1> USE TurnNumbers
  <1>1. ChatTypeOK
    <2>1. <<>> \in Seq(HostMsgs) /\ <<>> \in Seq(ViewMsgs) /\ <<>> \in Seq(TurnIds)
      OBVIOUS
    <2>2. /\ turnPhase \in [TurnIds -> Phases]
          /\ content \in [TurnIds -> SUBSET (AnswerTypes \cup {"sql", "cancelled"})]
      BY DEF ChatInit, Phases
    <2>3. history \in Seq(TurnIds) /\ toHost \in Seq(HostMsgs) /\ toView \in Seq(ViewMsgs)
      BY <2>1 DEF ChatInit
    <2>4. /\ running \in TurnIds \cup {NoTurn} /\ turnAborted \subseteq TurnIds /\ cleared \subseteq TurnIds
          /\ pendingApproval \in TurnIds \cup {NoTurn} /\ shown \in TurnIds \cup {NoTurn}
          /\ asked \in 0 .. MaxTurns
      BY DEF ChatInit
    <2>5. alive \in BOOLEAN /\ busy \in BOOLEAN
      BY DEF ChatInit
    <2> QED BY <2>2, <2>3, <2>4, <2>5 DEF ChatTypeOK
  <1>2. HostInv /\ ClearInv
    BY DEF ChatInit, HostInv, ClearInv, ClearForgets, InPlay
  <1>3. AskInv /\ DisposedInv
    BY DEF ChatInit, AskInv, DisposedInv
  <1>4. OpenInv /\ LockInv /\ StopInv
    BY DEF ChatInit, OpenInv, LockInv, StopInv, Locks, Stops
  <1> QED BY <1>1, <1>2, <1>3, <1>4 DEF ChatInv

(* An approval can be given or stopped, Cancel points at a turn, and what  *)
(* was cleared is not told to the model: for any number of questions and   *)
(* of messages under way (chatView.ts, chat.js).                           *)
THEOREM PanelCorrect == ChatSpec => []PanelSound
  <1>1. ChatInv => PanelSound
    <2> SUFFICES ASSUME ChatInv PROVE PanelSound
      OBVIOUS
    <2>1. ApprovalReachable /\ ClearForgets
      BY DEF ChatInv, HostInv, InPlay, ClearInv, ApprovalReachable
    <2>2. NeverStuck
      <3> SUFFICES ASSUME busy, toHost = <<>>, toView = <<>> PROVE running # NoTurn
        BY DEF NeverStuck
      <3>1. 0 \in 0 .. Len(toView) /\ Locks(0)
        BY DEF Locks
      <3>2. Unlocking
        BY <3>1 DEF ChatInv, LockInv
      <3> QED BY <3>2 DEF Unlocking
    <2> QED BY <2>1, <2>2 DEF PanelSound
  <1> QED BY <1>1, ChatInitial, ChatPreserved, PTL DEF ChatSpec

(* Nothing but SQL is added to a turn the page shows as cancelled, however *)
(* late the engine answers (the abort tests of ask() in chatView.ts).      *)
THEOREM CancelledCorrect == ChatSpec => CancelledIsFinal
  <1> DEFINE Final == \A t \in TurnIds : "cancelled" \in content[t] => content'[t] \subseteq content[t] \cup {"sql"}
  <1>1. ASSUME ChatInv, [ChatNext]_chatVars PROVE [Final]_chatVars
    <2>1. CASE UNCHANGED content
      BY <2>1
    <2>2. ASSUME NEW kinds \in SUBSET (AnswerTypes \cup {"sql", "cancelled"}), Add(kinds),
                 kinds \cap AnswerTypes # {} => toView # <<>> /\ toView[1].type \in AnswerTypes
          PROVE  Final
      <3> SUFFICES ASSUME NEW t \in TurnIds, "cancelled" \in content[t]
                   PROVE  content'[t] \subseteq content[t] \cup {"sql"}
        OBVIOUS
      <3>1. /\ content'[t] \subseteq content[t] \cup kinds
            /\ t # shown => content'[t] = content[t]
        BY <1>1, <2>2, Adds DEF ChatInv
      <3>2. CASE kinds \cap AnswerTypes = {}
        BY <2>2, <3>1, <3>2
      <3>3. CASE t = shown /\ kinds \cap AnswerTypes # {}
        <4>1. Stops(0) /\ toView \in Seq(ViewMsgs) /\ StopInv
          BY <1>1, <3>3, TurnNumbers DEF Stops, ChatInv, ChatTypeOK
        <4>2. 1 \in DOMAIN toView /\ 0 \in 0 .. Len(toView) /\ toView[1].type \in AnswerTypes
          BY <2>2, <3>3, <4>1
        <4>3. StartsBetween(0, 1)
          BY <4>1, <4>2 DEF StopInv
        <4>4. \A j \in DOMAIN toView : j \in Nat /\ j >= 1
          BY <4>1
        <4> QED BY <4>3, <4>4 DEF StartsBetween
      <3> QED BY <3>1, <3>2, <3>3
    <2>3. CASE PageStep
      <3>1. CASE ShowTurnStart \/ ShowClear
        BY <2>1, <3>1 DEF ShowTurnStart, ShowClear
      <3>2. CASE ShowCancelled \/ ShowTurnEnd
        <4>1. PICK kinds \in SUBSET {"sql", "cancelled"} : Add(kinds)
          BY <3>2 DEF ShowCancelled, ShowTurnEnd
        <4>2. kinds \cap AnswerTypes = {}
          BY <4>1 DEF AnswerTypes
        <4> QED BY <2>2, <4>1, <4>2
      <3>3. CASE ShowSql
        <4>1. Add({"sql"}) \/ UNCHANGED content
          BY <3>3 DEF ShowSql
        <4>2. {"sql"} \cap AnswerTypes = {}
          BY DEF AnswerTypes
        <4> QED BY <2>1, <2>2, <4>1, <4>2
      <3>4. CASE ShowAnswer
        <4>1. PICK ty \in AnswerTypes :
                /\ Shown(ty)
                /\ Add({ty} \cup IF ty \in {"result", "error"} /\ heldSql # NoTurn THEN {"sql"} ELSE {})
          BY <3>4 DEF ShowAnswer, AnswerTypes
        <4>2. PICK kinds \in SUBSET (AnswerTypes \cup {"sql"}) : Add(kinds)
          BY <4>1
        <4>3. toView # <<>> /\ toView[1].type \in AnswerTypes
          BY <1>1, <4>1 DEF Shown, Arrived, ChatInv, ChatTypeOK
        <4> QED BY <2>2, <4>2, <4>3
      <3> QED BY <2>3, <3>1, <3>2, <3>3, <3>4 DEF PageStep
    <2>4. CASE HostStep
      BY <2>1, <2>4 DEF HostStep, HandleAskGone, HandleAsk, HandleStop, HandleApprove, CatalogAnswers, EngineReady,
        Fails, AskAnswers, AskExplains, ExplainAnswers, RunEnds, pageVars
    <2>5. CASE Clear \/ Dispose \/ ResolveWebviewView \/ ClickStop
      BY <2>1, <2>5 DEF Clear, Dispose, ResolveWebviewView, ClickStop, pageVars
    <2>6. CASE (\E gone \in BOOLEAN : ClickAsk(gone)) \/ \E t \in TurnIds, ok \in BOOLEAN : ClickApproval(t, ok)
      BY <2>1, <2>6 DEF ClickAsk, ClickApproval
    <2> QED BY <1>1, <2>3, <2>4, <2>5, <2>6 DEF ChatNext
  <1>2. ChatSpec => []ChatInv
    BY ChatInitial, ChatPreserved, PTL DEF ChatSpec
  <1> QED BY <1>1, <1>2, PTL DEF ChatSpec, CancelledIsFinal
=============================================================================
