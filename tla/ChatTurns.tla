------------------------------ MODULE ChatTurns ------------------------------
(***************************************************************************)
(* The chat panel of the VS Code extension: ChatViewProvider in the host   *)
(* (packages/vscode/src/chatView.ts) and the page in the webview           *)
(* (packages/vscode/media/chat.js), which talk through two message queues. *)
(* A turn is one ask(); the awaits of several may be pending at once, and  *)
(* Stop, Clear, a new question and the loss of the panel come at any time. *)
(*                                                                         *)
(* What the engine answers is any of what EngineManager and AskPipeline    *)
(* allow.  A message is its type and the turn that posted it; the page     *)
(* itself does not know the latter, and shows it in its current turn.      *)
(* Progress lines are left out.                                            *)
(***************************************************************************)
EXTENDS Integers, Sequences, SequencesExt

CONSTANTS
  MaxTurns,         \* bound on questions
  MaxQueue,         \* bound on messages under way to the host
  MAX_RESULTS,      \* results kept
  MAX_RESULT_BYTES, \* bytes of results kept
  Sizes,            \* the sizes results may have
  MAX_HISTORY       \* turns kept as context

ASSUME ChatTurnsAssumption ==
  /\ MaxTurns \in Nat /\ MaxQueue \in Nat /\ MAX_HISTORY \in Nat
  /\ MAX_RESULTS \in Nat \ {0} /\ MAX_RESULT_BYTES \in Nat /\ Sizes \subseteq Nat

TurnIds == 1 .. MaxTurns
NoTurn == 0

VARIABLES
  (* the host *)
  turnPhase,            \* what each ask() awaits
  running,          \* the turn whose AbortController is this.running
  turnAborted,          \* the turns whose signal is aborted
  pendingApproval,  \* the turn it belongs to
  history,          \* turns the next question is told of
  results, totalResultBytes,  \* <<turn, bytes>>, oldest first
  (* the page *)
  alive,            \* the webview exists
  toHost, toView,   \* messages under way
  asked,            \* questions typed so far
  busy,             \* the button says Cancel
  shown,            \* the turn content is added to
  heldSql,          \* pendingSql: the turn whose SQL waits for its result
  buttons,          \* turns whose Run / Don't run buttons are in the log
  content,          \* what each turn of the log shows
  (* history of the run *)
  cleared           \* the turns the host had seen when the panel was last cleared

hostVars == <<turnPhase, running, turnAborted, pendingApproval, history, results, totalResultBytes>>
pageVars == <<asked, busy, shown, heldSql, buttons, content>>
chatVars == <<hostVars, alive, toHost, toView, pageVars, cleared>>

ChatInit ==
  /\ turnPhase = [t \in TurnIds |-> "unasked"] /\ running = NoTurn /\ turnAborted = {}
  /\ pendingApproval = NoTurn /\ history = <<>> /\ results = <<>> /\ totalResultBytes = 0
  /\ alive = TRUE /\ toHost = <<>> /\ toView = <<>>
  /\ asked = 0 /\ busy = FALSE /\ shown = NoTurn /\ heldSql = NoTurn /\ buttons = {}
  /\ content = [t \in TurnIds |-> {}]
  /\ cleared = {}

Msg(type, t) == [type |-> type, turn |-> t]

(* post(): to a view that is gone, nothing.                                *)
Post(msgs) == toView' = IF alive THEN toView \o msgs ELSE toView

-----------------------------------------------------------------------------
(* The end of an ask() and the abort of one                                *)

(* finally: only the current turn unlocks the page.                        *)
TurnEnd(t) == IF running = t THEN <<Msg("turnEnd", t)>> ELSE <<>>

RunningAfter(t) == IF running = t THEN NoTurn ELSE running

(* The turn posts what it has to say, then ends.                           *)
EndWith(t, msgs) ==
  /\ turnPhase' = [turnPhase EXCEPT ![t] = "done"]
  /\ running' = RunningAfter(t)
  /\ Post(msgs \o TurnEnd(t))

(* A turn whose signal is aborted leaves without a word.                   *)
Leave(t) == t \in turnAborted /\ EndWith(t, <<>>)

(* Mutant: nothing listens to the signal while an approval is awaited.     *)
AbortUnheard(t, next) ==
  /\ turnAborted' = IF t = NoTurn THEN turnAborted ELSE turnAborted \cup {t}
  /\ turnPhase' = [u \in TurnIds |-> IF u = next THEN "starting" ELSE turnPhase[u]]
  /\ running' = IF next = NoTurn THEN running ELSE next
  /\ UNCHANGED pendingApproval

(* running?.abort(): a turn that awaits its approval is refused and ends   *)
(* as soon as the handler that aborted it returns; then "next" is running. *)
Abort(t, next) ==
  /\ turnAborted' = IF t = NoTurn THEN turnAborted ELSE turnAborted \cup {t}
  /\ LET refused == t # NoTurn /\ turnPhase[t] = "approval"
     IN  /\ pendingApproval' = IF refused THEN NoTurn ELSE pendingApproval
         /\ turnPhase' = [u \in TurnIds |-> IF u = next THEN "starting"
                                        ELSE IF u = t /\ refused THEN "done" ELSE turnPhase[u]]
         /\ running' = IF next = NoTurn /\ ~refused THEN running ELSE next

(* What the aborted turn posts if it is refused while it is current.       *)
RefusedEnd(t) == IF t # NoTurn /\ turnPhase[t] = "approval" THEN <<Msg("turnEnd", t)>> ELSE <<>>

-----------------------------------------------------------------------------
(* Messages of the page, as the host handles them                          *)

Received(type) == toHost # <<>> /\ Head(toHost).type = type
Took == toHost' = Tail(toHost)

(* ask(): the turn is opened first; a database that is gone ends it there, *)
(* and does not touch the running one.                                     *)
HandleAskGone ==
  /\ Received("askGone") /\ Took
  /\ LET t == Head(toHost).turn
     IN  /\ Post(<<Msg("turnStart", t), Msg("error", t), Msg("turnEnd", t)>>)
         /\ turnPhase' = [turnPhase EXCEPT ![t] = "done"]
  /\ UNCHANGED <<running, turnAborted, pendingApproval, history, results, totalResultBytes, alive, pageVars,
                 cleared>>

HandleAsk ==
  /\ Received("ask") /\ Took
  /\ LET t == Head(toHost).turn
     IN  Post(<<Msg("turnStart", t)>>) /\ Abort(running, t)
  /\ UNCHANGED <<history, results, totalResultBytes, alive, pageVars, cleared>>

(* Only the first Stop of a live turn does anything.                       *)
HandleStop ==
  /\ Received("stop") /\ Took
  /\ \/ /\ running = NoTurn \/ running \in turnAborted
        /\ UNCHANGED <<turnPhase, running, turnAborted, pendingApproval, toView>>
     \/ /\ running # NoTurn /\ running \notin turnAborted
        /\ Abort(running, NoTurn)
        /\ Post(<<Msg("cancelled", running)>> \o RefusedEnd(running))
  /\ UNCHANGED <<history, results, totalResultBytes, alive, pageVars, cleared>>

(* Only the id this turn is awaiting may settle it.                        *)
Settles(t) == pendingApproval # NoTurn /\ t = pendingApproval

HandleApprove(ok) ==
  /\ Received(IF ok THEN "approve" ELSE "refuse") /\ Took
  /\ LET t == pendingApproval IN
     \/ /\ ~Settles(Head(toHost).turn)
        /\ UNCHANGED <<turnPhase, running, pendingApproval, toView>>
     \/ /\ Settles(Head(toHost).turn) /\ ok
        /\ pendingApproval' = NoTurn
        /\ turnPhase' = [turnPhase EXCEPT ![t] = "running"]
        /\ UNCHANGED <<running, toView>>
     \/ /\ Settles(Head(toHost).turn) /\ ~ok
        /\ pendingApproval' = NoTurn
        /\ EndWith(t, <<Msg("notRun", t)>>)
  /\ UNCHANGED <<turnAborted, history, results, totalResultBytes, alive, pageVars, cleared>>

-----------------------------------------------------------------------------
(* The awaits of ask()                                                     *)

(* A question about tables is answered from the catalog, with no query and *)
(* no history; one that names no table goes on to the engine.              *)
CatalogAnswers(t) ==
  /\ turnPhase[t] = "starting"
  /\ \/ Leave(t)
     \/ t \notin turnAborted /\ \E m \in {"result", "error"} : EndWith(t, <<Msg(m, t)>>)
  /\ UNCHANGED <<turnAborted, pendingApproval, history, results, totalResultBytes, alive, toHost, pageVars,
                 cleared>>

(* engineFor() returns, and the question is asked without another test.    *)
EngineReady(t) ==
  /\ turnPhase[t] = "starting"
  /\ turnPhase' = [turnPhase EXCEPT ![t] = "asking"]
  /\ UNCHANGED <<running, turnAborted, pendingApproval, history, results, totalResultBytes, alive, toHost,
                 toView, pageVars, cleared>>

(* engineFor(), ask(), explainSchema() or run() throws: an aborted turn    *)
(* has nothing to report.                                                  *)
Fails(t) ==
  /\ turnPhase[t] \in {"starting", "asking", "explaining", "running"}
  /\ Leave(t) \/ (t \notin turnAborted /\ EndWith(t, <<Msg("error", t)>>))
  /\ UNCHANGED <<turnAborted, pendingApproval, history, results, totalResultBytes, alive, toHost, pageVars,
                 cleared>>

(* The bounded context of follow-ups.                                      *)
Remember(t) ==
  LET h == Append(history, t) IN history' = IF Len(h) > MAX_HISTORY THEN Tail(h) ELSE h

(* The answer: remembered and shown, then run or held for approval.        *)
AskAnswers(t) ==
  /\ turnPhase[t] = "asking"
  /\ \/ Leave(t) /\ UNCHANGED <<pendingApproval, history>>
     \/ /\ t \notin turnAborted /\ Remember(t)
        /\ Post(<<Msg("sqlBefore", t)>>) /\ pendingApproval' = t
        /\ turnPhase' = [turnPhase EXCEPT ![t] = "approval"] /\ UNCHANGED running
     \/ /\ t \notin turnAborted /\ Remember(t)
        /\ Post(<<Msg("sqlAfter", t)>>)
        /\ turnPhase' = [turnPhase EXCEPT ![t] = "running"] /\ UNCHANGED <<running, pendingApproval>>
  /\ UNCHANGED <<turnAborted, results, totalResultBytes, alive, toHost, pageVars, cleared>>

(* No SQL came of it, and the setting says to answer from the schema.      *)
AskExplains(t) ==
  /\ turnPhase[t] = "asking"
  /\ \/ Leave(t)
     \/ /\ t \notin turnAborted
        /\ turnPhase' = [turnPhase EXCEPT ![t] = "explaining"] /\ UNCHANGED <<running, toView>>
  /\ UNCHANGED <<turnAborted, pendingApproval, history, results, totalResultBytes, alive, toHost, pageVars,
                 cleared>>

ExplainAnswers(t) ==
  /\ turnPhase[t] = "explaining"
  /\ \/ Leave(t) /\ UNCHANGED history
     \/ t \notin turnAborted /\ Remember(t) /\ EndWith(t, <<Msg("schemaAnswer", t)>>)
  /\ UNCHANGED <<turnAborted, pendingApproval, results, totalResultBytes, alive, toHost, pageVars, cleared>>

Bytes(rs) == FoldSeq(LAMBDA r, sum : r[2] + sum, 0, rs)

(* storeResult: the oldest go first, never the one just stored.            *)
Evict(rs, total) ==
  LET left(n) == total - Bytes(SubSeq(rs, 1, n))
      over(n) == Len(rs) - n > 1 /\ (Len(rs) - n > MAX_RESULTS \/ left(n) > MAX_RESULT_BYTES)
      n == CHOOSE k \in 0 .. Len(rs) : ~over(k) /\ \A j \in 0 .. k - 1 : over(j)
  IN  [kept |-> SubSeq(rs, n + 1, Len(rs)), total |-> left(n)]

(* Mutant: the rows of a cancelled run are shown.                          *)
ShowsAnyway(t) == TRUE

(* The signal is asked once more when the rows are there.                  *)
Shows(t) == t \notin turnAborted

RunEnds(t, size) ==
  /\ turnPhase[t] = "running"
  /\ \/ ~Shows(t) /\ Leave(t) /\ UNCHANGED <<results, totalResultBytes>>
     \/ /\ Shows(t)
        /\ LET e == Evict(Append(results, <<t, size>>), totalResultBytes + size)
           IN  results' = e.kept /\ totalResultBytes' = e.total
        /\ EndWith(t, <<Msg("result", t)>>)
  /\ UNCHANGED <<turnAborted, pendingApproval, history, alive, toHost, pageVars, cleared>>

-----------------------------------------------------------------------------
(* Clear and the loss of the panel                                         *)

ClearAbort(t) == Abort(t, NoTurn)

(* The questions the host has seen.  A second Clear in a row does nothing  *)
(* new, and is left out.                                                   *)
Handled == {t \in TurnIds : turnPhase[t] # "unasked"}

Clear ==
  /\ ClearAbort(running)
  /\ Post(<<Msg("clear", NoTurn)>> \o RefusedEnd(running))
  /\ history' = <<>> /\ results' = <<>> /\ totalResultBytes' = 0
  /\ cleared # Handled /\ cleared' = Handled
  /\ UNCHANGED <<alive, toHost, pageVars>>

(* onDidDispose; a later panel is a new page.                              *)
Dispose ==
  /\ alive /\ alive' = FALSE /\ toView' = <<>> /\ toHost' = <<>>
  /\ Abort(running, NoTurn)
  /\ busy' = FALSE /\ shown' = NoTurn /\ heldSql' = NoTurn /\ buttons' = {}
  /\ UNCHANGED <<history, results, totalResultBytes, asked, content, cleared>>

ResolveWebviewView ==
  /\ ~alive /\ alive' = TRUE
  /\ UNCHANGED <<hostVars, toHost, toView, pageVars, cleared>>

-----------------------------------------------------------------------------
(* The page                                                                *)

Send(m) == alive /\ Len(toHost) < MaxQueue /\ toHost' = Append(toHost, m)

(* ask(): locked at once, before the host answers.  The picker may name a  *)
(* database that has been removed since.                                   *)
ClickAsk(gone) ==
  /\ ~busy /\ asked < MaxTurns
  /\ asked' = asked + 1 /\ busy' = TRUE
  /\ Send(Msg(IF gone THEN "askGone" ELSE "ask", asked + 1))
  /\ UNCHANGED <<hostVars, alive, toView, shown, heldSql, buttons, content, cleared>>

ClickStop ==
  /\ busy /\ Send(Msg("stop", NoTurn))
  /\ UNCHANGED <<hostVars, alive, toView, pageVars, cleared>>

ClickApproval(t, ok) ==
  /\ t \in buttons /\ buttons' = buttons \ {t}
  /\ Send(Msg(IF ok THEN "approve" ELSE "refuse", t))
  /\ UNCHANGED <<hostVars, alive, toView, asked, busy, shown, heldSql, content, cleared>>

Arrived(type) == toView # <<>> /\ Head(toView).type = type

Add(kinds) == content' = IF shown = NoTurn THEN content
                         ELSE [content EXCEPT ![shown] = @ \cup kinds]

PageRest == UNCHANGED <<hostVars, alive, toHost, asked, cleared>>
Shown(type) == Arrived(type) /\ toView' = Tail(toView) /\ PageRest

ShowTurnStart ==
  /\ Shown("turnStart")
  /\ shown' = Head(toView).turn /\ heldSql' = NoTurn /\ busy' = TRUE
  /\ UNCHANGED <<buttons, content>>

ShowCancelled ==
  /\ Shown("cancelled")
  /\ Add({"cancelled"}) /\ buttons' = {} /\ busy' = FALSE
  /\ UNCHANGED <<shown, heldSql>>

(* Never lose the SQL: what is held is shown now.                          *)
ShowTurnEnd ==
  /\ Shown("turnEnd")
  /\ Add(IF heldSql = NoTurn THEN {} ELSE {"sql"})
  /\ heldSql' = IF shown = NoTurn THEN heldSql ELSE NoTurn
  /\ buttons' = {} /\ busy' = FALSE
  /\ UNCHANGED shown

ShowClear ==
  /\ Shown("clear")
  /\ shown' = NoTurn /\ heldSql' = NoTurn /\ busy' = FALSE /\ buttons' = {}
  /\ UNCHANGED content

(* SQL with its approval buttons, or held until the result.                *)
ShowSql ==
  \/ /\ Shown("sqlBefore")
     /\ Add({"sql"})
     /\ buttons' = IF shown = NoTurn THEN buttons ELSE buttons \cup {Head(toView).turn}
     /\ UNCHANGED <<busy, shown, heldSql>>
  \/ /\ Shown("sqlAfter")
     /\ heldSql' = IF shown = NoTurn THEN heldSql ELSE Head(toView).turn
     /\ UNCHANGED <<busy, shown, buttons, content>>

(* A result, an error, a refusal, a prose answer: the held SQL comes with  *)
(* the first two.                                                          *)
ShowAnswer ==
  /\ \E type \in {"result", "error", "notRun", "schemaAnswer"} :
       /\ Shown(type)
       /\ Add({type} \cup IF type \in {"result", "error"} /\ heldSql # NoTurn THEN {"sql"} ELSE {})
       /\ heldSql' = IF shown # NoTurn /\ type \in {"result", "error"} THEN NoTurn ELSE heldSql
  /\ UNCHANGED <<busy, shown, buttons>>

HostStep ==
  \/ HandleAskGone \/ HandleAsk \/ HandleStop \/ \E ok \in BOOLEAN : HandleApprove(ok)
  \/ \E t \in TurnIds :
       \/ CatalogAnswers(t) \/ EngineReady(t) \/ Fails(t) \/ AskAnswers(t) \/ AskExplains(t)
       \/ ExplainAnswers(t) \/ \E size \in Sizes : RunEnds(t, size)

PageStep ==
  ShowTurnStart \/ ShowCancelled \/ ShowTurnEnd \/ ShowClear \/ ShowSql \/ ShowAnswer

ChatNext ==
  \/ HostStep \/ PageStep
  \/ Clear \/ Dispose \/ ResolveWebviewView
  \/ ClickStop \/ \E gone \in BOOLEAN : ClickAsk(gone)
  \/ \E t \in TurnIds, ok \in BOOLEAN : ClickApproval(t, ok)

ChatSpec == ChatInit /\ [][ChatNext]_chatVars

-----------------------------------------------------------------------------
(* A turn that awaits its approval is the running one and the one a click  *)
(* can settle: no turn is left waiting where neither its buttons nor Stop  *)
(* reach it, by a newer turn, a Clear or the loss of the panel.            *)
ApprovalReachable ==
  \A t \in TurnIds : turnPhase[t] = "approval" => pendingApproval = t /\ running = t /\ t \notin turnAborted

(* Once the page says "Cancelled.", nothing of that turn but its SQL is    *)
(* added to it: no rows, no error, no answer.                              *)
CancelledIsFinal ==
  [][\A t \in TurnIds : "cancelled" \in content[t] => content'[t] \subseteq content[t] \cup {"sql"}]_chatVars

(* With nothing under way between the two, a page that shows Cancel has a  *)
(* turn in the host that will unlock it: Cancel never points at nothing.   *)
NeverStuck == busy /\ toHost = <<>> /\ toView = <<>> => running # NoTurn

(* Clearing the panel clears the context: no turn asked before it is told  *)
(* to the model afterwards, not even one that was still being answered.    *)
ClearForgets == \A i \in DOMAIN history : history[i] \notin cleared

(* The panel and its host agree: an approval can be given, Cancel points   *)
(* at a turn, and what was cleared is not told to the model.               *)
PanelSound == ApprovalReachable /\ NeverStuck /\ ClearForgets
-----------------------------------------------------------------------------
(* The strengthening the proofs induct on.                                 *)
Phases == {"unasked", "starting", "asking", "explaining", "approval", "running", "done"}
AskTypes == {"ask", "askGone"}
AnswerTypes == {"result", "error", "notRun", "schemaAnswer"}
UnlockTypes == {"turnEnd", "cancelled", "clear"}
HostMsgs == [type : AskTypes \cup {"stop", "approve", "refuse"}, turn : TurnIds \cup {NoTurn}]
ViewMsgs == [type : AnswerTypes \cup UnlockTypes \cup {"turnStart", "sqlBefore", "sqlAfter"},
             turn : TurnIds \cup {NoTurn}]

ChatTypeOK ==
  /\ turnPhase \in [TurnIds -> Phases] /\ running \in TurnIds \cup {NoTurn}
  /\ turnAborted \subseteq TurnIds /\ pendingApproval \in TurnIds \cup {NoTurn}
  /\ history \in Seq(TurnIds) /\ cleared \subseteq TurnIds
  /\ alive \in BOOLEAN /\ toHost \in Seq(HostMsgs) /\ toView \in Seq(ViewMsgs)
  /\ asked \in 0 .. MaxTurns /\ busy \in BOOLEAN /\ shown \in TurnIds \cup {NoTurn}
  /\ content \in [TurnIds -> SUBSET (AnswerTypes \cup {"sql", "cancelled"})]

(* A turn under way whose signal is not aborted.                           *)
InPlay(t) == turnPhase[t] \notin {"unasked", "done"} /\ t \notin turnAborted

(* Only the running turn is live, and only it awaits an approval.          *)
HostInv ==
  /\ \A t \in TurnIds : InPlay(t) => running = t
  /\ running # NoTurn => turnPhase[running] \notin {"unasked", "done"}
  /\ \A t \in TurnIds : turnPhase[t] = "approval" => pendingApproval = t /\ t \notin turnAborted
  /\ pendingApproval # NoTurn => turnPhase[pendingApproval] = "approval"

(* A question under way to the host is new to it, and there is one of it.  *)
AskInv ==
  /\ \A t \in TurnIds : turnPhase[t] # "unasked" => t <= asked
  /\ \A i \in DOMAIN toHost : toHost[i].type \in AskTypes =>
       /\ toHost[i].turn \in TurnIds /\ toHost[i].turn <= asked
       /\ turnPhase[toHost[i].turn] = "unasked"
       /\ \A j \in DOMAIN toHost :
            j # i /\ toHost[j].type \in AskTypes => toHost[j].turn # toHost[i].turn

(* What was cleared has been seen, and a live turn came after it.          *)
ClearInv ==
  /\ \A t \in cleared : turnPhase[t] # "unasked" /\ ~InPlay(t)
  /\ ClearForgets

(* A lost panel holds nothing.                                             *)
DisposedInv == ~alive => toHost = <<>> /\ toView = <<>> /\ ~busy /\ shown = NoTurn

(* What locks the page: its present state (0) or a message under way.      *)
Locks(i) == IF i = 0 THEN busy ELSE toView[i].type = "turnStart"

(* The host has a turn, or is to have one, that will unlock the page.      *)
Unlocking == running # NoTurn \/ \E i \in DOMAIN toHost : toHost[i].type \in AskTypes

LockInv ==
  \A i \in 0 .. Len(toView) : Locks(i) =>
    Unlocking \/ \E j \in DOMAIN toView : j > i /\ toView[j].type \in UnlockTypes

(* A turn is opened once.                                                  *)
OpenInv ==
  /\ \A t \in TurnIds : turnPhase[t] = "unasked" => content[t] = {} /\ shown # t
  /\ \A i \in DOMAIN toView : toView[i].type = "turnStart" =>
       /\ toView[i].turn \in TurnIds /\ content[toView[i].turn] = {} /\ shown # toView[i].turn
       /\ turnPhase[toView[i].turn] # "unasked"
       /\ \A j \in DOMAIN toView :
            j # i /\ toView[j].type = "turnStart" => toView[j].turn # toView[i].turn

(* Where the page says or is to say "Cancelled.".                          *)
Stops(i) ==
  IF i = 0 THEN shown # NoTurn /\ "cancelled" \in content[shown] ELSE toView[i].type = "cancelled"

StartsBetween(i, k) == \E j \in DOMAIN toView : i < j /\ j < k /\ toView[j].type = "turnStart"

(* After it nobody answers until another turn is opened.                   *)
StopInv ==
  \A i \in 0 .. Len(toView) : Stops(i) =>
    /\ \A k \in DOMAIN toView : k > i /\ toView[k].type \in AnswerTypes => StartsBetween(i, k)
    /\ (\E t \in TurnIds : InPlay(t)) => StartsBetween(i, Len(toView) + 1)

ChatInv ==
  ChatTypeOK /\ HostInv /\ AskInv /\ ClearInv /\ DisposedInv /\ LockInv /\ OpenInv /\ StopInv
=============================================================================
