---- MODULE ServerRequest ----
(***************************************************************************)
(* One request from its socket to the end of its response: the Express     *)
(* and node:http adapters (packages/server/src/express.ts, cli.ts), the    *)
(* routing of AskSqlServer.handle, the reading of the body, and the        *)
(* generator that streams a /chat answer while the engine pushes events    *)
(* into its queue (handler.ts).  The client may go away at any moment.     *)
(***************************************************************************)
EXTENDS Naturals, Sequences

CONSTANTS Routes,     \* routes tried, of those below
          MaxChunks,  \* bound: body chunks a client sends
          MaxBody,    \* maxBodyBytes, in chunks
          MaxPushed   \* bound: events the engine pushes in one turn

VARIABLES adapter,    \* "express" or "cli"
          route,      \* the endpoint asked for
          declared,   \* headers say application/json and a loopback Host
          parsed,     \* express: an upstream parser has already read the body
          step,       \* where the handling of the request is
          body,       \* the body: "open", "ended", "gone"
          chunks,     \* body chunks received so far
          gone,       \* the client closed the connection: the signal is aborted
          status,     \* the status written, or 0
          ended,      \* the response is complete
          pushed,     \* events the engine has pushed so far
          due,        \* history: those of them the stream forwards, in order
          queue,      \* events pushed and not yet drained
          waiting,    \* the generator sleeps until notify is called
          settled,    \* the engine's outcome: "no", "ok", "error"
          sent        \* stream events written to the client

reqVars == <<adapter, route, declared, parsed, step, body, chunks, gone, status,
             ended, pushed, due, queue, waiting, settled, sent>>
streamVars == <<pushed, due, queue, waiting, settled, sent>>

(* The endpoints, by what handling them takes: GET ones ("list" stands for
   /connections and /health, "schema" for /schema and /history), the CORS
   preflight, POST ones ("execute" stands for /execute, /explain,
   /explainSchema and /feedback) and the DELETE of a connection. *)
Reads == {"list", "schema", "preflight"}
Posts == {"chat", "execute", "create"}
AllRoutes == Reads \union Posts \union {"remove", "unknown"}

ASSUME RequestAssumption ==
    /\ Routes \subseteq AllRoutes
    /\ MaxChunks \in Nat /\ MaxBody \in Nat /\ MaxPushed \in Nat

ReqInit ==
    /\ adapter \in {"express", "cli"}
    /\ route \in Routes
    /\ declared \in BOOLEAN
    /\ parsed \in BOOLEAN /\ (adapter = "cli" => ~parsed)
    /\ step = "arrived"
    /\ body = IF parsed THEN "ended" ELSE "open"
    /\ chunks \in IF parsed THEN 0..MaxChunks ELSE {0}
    /\ gone = FALSE
    /\ status = 0 /\ ended = FALSE
    /\ pushed = 0 /\ due = <<>> /\ queue = <<>> /\ waiting = FALSE /\ settled = "no" /\ sent = <<>>

(* A JSON answer: status and body go out in one synchronous step. *)
Answer(code) ==
    /\ status' = code /\ ended' = TRUE /\ step' = "done"

-----------------------------------------------------------------------------
(* The client *)

SendChunk ==
    /\ body = "open" /\ ~gone /\ chunks < MaxChunks
    /\ chunks' = chunks + 1
    /\ UNCHANGED <<adapter, route, declared, parsed, step, body, gone, status, ended, streamVars>>

EndBody ==
    /\ body = "open" /\ ~gone
    /\ body' = "ended"
    /\ UNCHANGED <<adapter, route, declared, parsed, step, chunks, gone, status, ended, streamVars>>

(* The response's close event aborts the signal; an unfinished body is cut. *)
Disconnect ==
    /\ ~gone /\ ~ended
    /\ gone' = TRUE
    /\ body' = IF body = "open" THEN "gone" ELSE body
    /\ UNCHANGED <<adapter, route, declared, parsed, step, chunks, status, ended, streamVars>>

-----------------------------------------------------------------------------
(* From the socket to the handler *)

(* cli.ts reads the whole body before it calls the handler: 413 as soon as
   the cap is passed, 500 from the catch when the socket breaks. *)
CliReads ==
    /\ adapter = "cli" /\ step = "arrived"
    /\ \/ chunks > MaxBody /\ Answer(413)
       \/ chunks <= MaxBody /\ body = "gone" /\ Answer(500)
       \/ chunks <= MaxBody /\ body = "ended" /\ step' = "handle" /\ UNCHANGED <<status, ended>>
    /\ UNCHANGED <<adapter, route, declared, parsed, body, chunks, gone, streamVars>>

(* express.ts answers a preflight itself and turns away a POST that is not
   application/json; the rest is handed over, its body still to be read. *)
ExpressReads ==
    /\ adapter = "express" /\ step = "arrived"
    /\ \/ route = "preflight" /\ Answer(204)
       \/ route \in Posts /\ ~declared /\ Answer(415)
       \/ /\ route # "preflight" /\ (route \in Posts => declared)
          /\ step' = "handle" /\ UNCHANGED <<status, ended>>
    /\ UNCHANGED <<adapter, route, declared, parsed, body, chunks, gone, streamVars>>

(* crossSiteRejection: the Host of every request, the content type of every
   request that is not a read. *)
Rejection == IF ~declared /\ route \notin Reads THEN 415 ELSE 0

(* handle: cross-site check, then the auth hook, then the route. *)
Handle ==
    /\ step = "handle"
    /\ \/ Rejection # 0 /\ Answer(Rejection)
       \/ ~declared /\ Answer(403)                                \* a foreign Host
       \/ Rejection = 0 /\ Answer(403)                            \* authenticate refuses or throws
       \/ Rejection = 0 /\ route \in {"preflight", "unknown", "create", "remove"} /\ Answer(404)
       \/ Rejection = 0 /\ route = "list" /\ Answer(200)
       \/ /\ Rejection = 0 /\ route \in Posts \union {"schema", "remove"}
          /\ step' = IF route \in Posts THEN "body" ELSE "resolve"
          /\ UNCHANGED <<status, ended>>
    /\ UNCHANGED <<adapter, route, declared, parsed, body, chunks, gone, streamVars>>

-----------------------------------------------------------------------------
(* The body: readBody, over toServerRequest's json and readRawJson *)

BodyTooLarge == chunks > MaxBody

(* readRawJson settles on the end of the body, on its excess and on a close
   that comes before the end. *)
BodySettles == body \in {"ended", "gone"} \/ BodyTooLarge

ReadBody ==
    /\ step = "body"
    /\ BodySettles
    /\ \/ body = "ended" /\ ~BodyTooLarge /\ step' = "resolve" /\ UNCHANGED <<status, ended>>
       \/ Answer(400)                     \* too large, cut short, or not JSON
    /\ UNCHANGED <<adapter, route, declared, parsed, body, chunks, gone, streamVars>>

(* resolveConnectionId and assertAccess, then the endpoint itself: 403 out
   of scope, 400 unknown, 500 with no engine to ask. *)
Resolve ==
    /\ step = "resolve"
    /\ \/ \E code \in {400, 403, 500} : Answer(code)
       \/ route # "chat" /\ step' = "engine" /\ UNCHANGED <<status, ended>>
       \/ /\ route = "chat"
          /\ status' = 200                \* flushHeaders, writeHead
          /\ step' = "start"
          /\ UNCHANGED ended
    /\ UNCHANGED <<adapter, route, declared, parsed, body, chunks, gone, streamVars>>

(* errorResponse: the statuses an engine's error is answered with. *)
ErrorStatus == {400, 402, 403, 429, 500, 502, 504}

(* The awaited call of a JSON endpoint is over. *)
EngineAnswers ==
    /\ step = "engine"
    /\ \E code \in {200} \union ErrorStatus : Answer(code)
    /\ UNCHANGED <<adapter, route, declared, parsed, body, chunks, gone, streamVars>>

-----------------------------------------------------------------------------
(* The stream of a /chat answer *)

(* The drains forward stages and tokens and drop the rest. *)
EventTypes == {"stage", "token", "other"}
Forwards(e) == e[1] # "other"

(* onEvent: the engine pushes a stage, a token or an event the stream does
   not forward, and wakes the generator.  An event is its type and which of
   the forwarded ones it is. *)
Push ==
    /\ step \in {"drain", "last"} /\ settled = "no" /\ pushed < MaxPushed
    /\ pushed' = pushed + 1
    /\ \E t \in EventTypes :
         LET e == <<t, Len(due) + 1>> IN
         /\ due' = IF Forwards(e) THEN Append(due, e) ELSE due
         /\ queue' = Append(queue, e)
    /\ waiting' = FALSE
    /\ UNCHANGED <<adapter, route, declared, parsed, step, body, chunks, gone, status, ended, settled, sent>>

(* The promise of engine.ask settles, and wakes the generator. *)
Settle ==
    /\ step \in {"drain", "last"} /\ settled = "no"
    /\ settled' \in {"ok", "error"}
    /\ waiting' = FALSE
    /\ UNCHANGED <<adapter, route, declared, parsed, step, body, chunks, gone, status, ended, pushed, due, queue, sent>>

(* The adapter pulls the first event: engine.ask is called. *)
StartStream ==
    /\ step = "start"
    /\ step' = "drain"
    /\ UNCHANGED <<adapter, route, declared, parsed, body, chunks, gone, status, ended, streamVars>>

(* cli.ts stops pulling once the client is gone; express.ts pulls to the end. *)
StopsPulling == adapter = "cli" /\ gone

(* Events to forward are queued: the n-th queued is the next to be sent. *)
MoreWhileUnsettled == settled = "no" /\ \E n \in DOMAIN queue : Forwards(queue[n])
MoreToSend == \E n \in DOMAIN queue : Forwards(queue[n])
IsNext(n) == Forwards(queue[n]) /\ \A k \in 1 .. n - 1 : ~Forwards(queue[k])

(* One pull of the generator that finds an event to forward: what the stream
   does not forward is skipped on the way. *)
DrainOne ==
    /\ step = "drain" /\ ~waiting /\ MoreToSend
    /\ \E n \in DOMAIN queue :
         /\ IsNext(n)
         /\ queue' = SubSeq(queue, n + 1, Len(queue))
         /\ IF StopsPulling
              THEN step' = "last" /\ UNCHANGED sent
              ELSE sent' = Append(sent, queue[n]) /\ UNCHANGED step
    /\ UNCHANGED <<adapter, route, declared, parsed, body, chunks, gone, status, ended, pushed, due, waiting, settled>>

(* The queue holds nothing to forward.  Until the engine has settled the
   generator sleeps; afterwards it goes on to the outcome.  The test and the
   wait are one synchronous step. *)
SleepsUnchecked == TRUE
Sleeps == settled = "no"

DrainEmpty ==
    /\ step = "drain" /\ ~waiting /\ ~MoreToSend
    /\ queue' = <<>>
    /\ IF Sleeps THEN waiting' = TRUE /\ UNCHANGED step
                 ELSE step' = "outcome" /\ UNCHANGED waiting
    /\ UNCHANGED <<adapter, route, declared, parsed, body, chunks, gone, status, ended, pushed, due, settled, sent>>

(* The outcome, as the sql event or the error event, then done. *)
Told == <<settled, 0>>

Outcome ==
    /\ step = "outcome"
    /\ IF StopsPulling
         THEN sent' = sent /\ step' = "last"
         ELSE sent' = Append(sent, Told) /\ step' = "finish"
    /\ UNCHANGED <<adapter, route, declared, parsed, body, chunks, gone, status, ended, pushed, due, queue, waiting, settled>>

SendDone ==
    /\ step = "finish"
    /\ sent' = IF StopsPulling THEN sent ELSE Append(sent, <<"done", 0>>)
    /\ step' = "last"
    /\ UNCHANGED <<adapter, route, declared, parsed, body, chunks, gone, status, ended, pushed, due, queue, waiting, settled>>

(* The generator is over, or left by a break: res.end(). *)
EndResponse ==
    /\ step = "last" /\ ~ended
    /\ ended' = TRUE /\ step' = "done"
    /\ UNCHANGED <<adapter, route, declared, parsed, body, chunks, gone, status, streamVars>>

Client == SendChunk \/ EndBody \/ Disconnect
Server == \/ CliReads \/ ExpressReads \/ Handle \/ ReadBody \/ Resolve \/ EngineAnswers
          \/ StartStream \/ DrainOne \/ DrainEmpty \/ Outcome \/ SendDone \/ EndResponse
Engine == Push \/ Settle

ReqNext == Client \/ Server \/ Engine

(* The event loop runs every step it can; the engine's promise settles
   (every model call and query has a deadline); a client ends the body it
   started, or its connection breaks. *)
ReqFairness == /\ WF_reqVars(Server) /\ WF_reqVars(Settle)
               /\ WF_reqVars(EndBody \/ Disconnect)

ReqSpec == ReqInit /\ [][ReqNext]_reqVars /\ ReqFairness

-----------------------------------------------------------------------------
(* A stream that reaches its end tells the client everything: every stage
   and token the engine pushed, in the order pushed, then how it went, then
   done, however pushes and pulls interleaved (the drains of chat and
   mongoChat); what is on the wire before is a prefix of that. *)
StreamTellsAll ==
    \/ Len(sent) <= Len(due) /\ \A k \in 1 .. Len(sent) : sent[k] = due[k]
    \/ /\ settled # "no"
       /\ sent \in {Append(due, Told), Append(Append(due, Told), <<"done", 0>>)}

(* Every request ends: whatever the client sends, withholds or breaks off,
   and whenever the engine settles, the response is completed and nothing is
   left waiting for a wake-up that already came. *)
RequestEnds == <>ended

-----------------------------------------------------------------------------
(* The strengthening the proof inducts on. *)

Events == (EventTypes \union {"ok", "error", "done"}) \X Nat
StreamTyped ==
    /\ settled \in {"no", "ok", "error"}
    /\ due \in Seq(Events) /\ queue \in Seq(Events) /\ sent \in Seq(Events)

(* What is on the wire is the beginning of what is due. *)
SentPrefix == Len(sent) <= Len(due) /\ \A k \in 1 .. Len(sent) : sent[k] = due[k]

(* Between two places of the queue nothing is to be forwarded. *)
Skipped(i, j) == \A k \in i + 1 .. j - 1 : ~Forwards(queue[k])

(* What is queued to be forwarded is what is due and not on the wire: it
   carries its place in due, the first has the next place, the last the last
   one, and neighbours follow each other. *)
QueueInv ==
    /\ \A k \in 1 .. Len(queue) : Forwards(queue[k]) =>
         queue[k][2] \in 1 .. Len(due) /\ due[queue[k][2]] = queue[k]
    /\ \A k \in 1 .. Len(queue) : Forwards(queue[k]) /\ Skipped(0, k) =>
         queue[k][2] = Len(sent) + 1
    /\ \A i \in 1 .. Len(queue) : \A k \in i + 1 .. Len(queue) :
         Forwards(queue[i]) /\ Forwards(queue[k]) /\ Skipped(i, k) =>
           queue[k][2] = queue[i][2] + 1
    /\ \A k \in 1 .. Len(queue) : Forwards(queue[k]) /\ Skipped(k, Len(queue) + 1) =>
         queue[k][2] = Len(due)
    /\ Skipped(0, Len(queue) + 1) => Len(sent) = Len(due)

(* Before the stream nothing is pushed or sent; then the generator's place
   tells what it has sent. *)
Early == {"arrived", "handle", "body", "resolve", "engine", "start"}
StreamInv ==
    /\ StreamTyped
    /\ step \in Early => due = <<>> /\ queue = <<>> /\ sent = <<>>
    /\ step = "drain" => SentPrefix /\ QueueInv
    /\ step = "outcome" => settled # "no" /\ SentPrefix /\ Len(sent) = Len(due)
    /\ step = "finish" => settled # "no" /\ sent = Append(due, Told)
    /\ StreamTellsAll
====
