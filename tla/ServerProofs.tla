------------------------- MODULE ServerProofs -------------------------
(***************************************************************************)
(* An id of the server names one connection at most, for any ids and any   *)
(* number of overlapping requests (ServerConnections); a stream that ends  *)
(* has told its client everything, however long it is (ServerRequest); and *)
(* for every retry limit, timeout and backoff the requests and the waiting *)
(* of a call of the model are bounded, a timeout is final, and callModel   *)
(* implements ModelCall (CallModel).                                       *)
(***************************************************************************)
EXTENDS ServerConnections, ServerRequest, CallModel, SequenceTheorems, TLAPS

(* The maps are over the ids, the requests' locals over the requests.      *)
MapsInv ==
    /\ DOMAIN byId = Ids /\ DOMAIN mongoById = Ids /\ DOMAIN mongoEngines = Ids
    /\ DOMAIN stage = Requests /\ DOMAIN inst = Requests /\ DOMAIN kind = Requests
    /\ id \in [Requests -> Ids] /\ dynamicSeq \in Nat

(* OneOwnerPerId holds because an id is reserved while it is being opened. *)
OwnerInv == MapsInv /\ Reserved /\ OneOwnerPerId

(* A request that only moves on, and is not opening anything.              *)
LEMMA MovesOn ==
    ASSUME OwnerInv, NEW r \in Requests, NEW place, place # "connecting",
           stage' = [stage EXCEPT ![r] = place],
           DOMAIN inst' = Requests, DOMAIN kind' = Requests,
           id' \in [Requests -> Ids], \A s \in Requests \ {r} : id'[s] = id[s],
           UNCHANGED <<byId, mongoById, mongoEngines, creatingIds, dynamicSeq>>
    PROVE  OwnerInv'
<1>1. /\ DOMAIN stage' = Requests /\ stage'[r] = place
      /\ \A s \in Requests \ {r} : stage'[s] = stage[s]
    BY DEF OwnerInv, MapsInv
<1>2. Listed' = Listed
    BY DEF Listed, IsMongo
<1>3. MapsInv'
    BY <1>1 DEF OwnerInv, MapsInv
<1>4. Reserved'
    BY <1>1, <1>2 DEF OwnerInv, Reserved
<1>5. OneOwnerPerId'
    BY <1>1, <1>2 DEF OwnerInv, OneOwnerPerId
<1> QED
    BY <1>3, <1>4, <1>5 DEF OwnerInv

(* A step that touches none of it.                                         *)
LEMMA Untouched ==
    ASSUME OwnerInv,
           UNCHANGED <<byId, mongoById, mongoEngines, creatingIds, dynamicSeq, stage, id,
                       kind, inst>>
    PROVE  OwnerInv'
BY DEF OwnerInv, MapsInv, Reserved, OneOwnerPerId, Listed, IsMongo

(* The id a create works on, named by the caller or made up.               *)
LEMMA CreateId ==
    ASSUME OwnerInv, NEW r \in Requests, StartCreate(r)
    PROVE  (\E i \in Ids : id' = [id EXCEPT ![r] = i]) /\ dynamicSeq' \in Nat
<1>1. dynamicSeq \in Nat
    BY DEF OwnerInv, MapsInv
<1>2. Generated \in Seq(Ids)
    BY ConnectionsAssumption DEF ConnectionsAssumption
<1>3. CASE dynamicSeq' = dynamicSeq /\ \E i \in Ids : id' = [id EXCEPT ![r] = i]
    BY <1>1, <1>3
<1>4. CASE /\ dynamicSeq < Len(Generated) /\ dynamicSeq' = dynamicSeq + 1
           /\ id' = [id EXCEPT ![r] = Generated[dynamicSeq + 1]]
  <2>1. dynamicSeq + 1 \in 1 .. Len(Generated)
    BY <1>1, <1>2, <1>4
  <2>2. Generated[dynamicSeq + 1] \in Ids
    BY <1>2, <2>1
  <2>3. \E i \in Ids : id' = [id EXCEPT ![r] = i]
    BY <1>4, <2>2, Zenon
  <2>4. dynamicSeq' \in Nat
    BY <1>1, <1>4
  <2> QED
    BY <2>3, <2>4
<1>5. NamesId(r)
    BY DEF StartCreate
<1> QED
    BY <1>3, <1>4, <1>5 DEF NamesId

(* A create reserves an id that is neither listed nor reserved.            *)
LEMMA StartCreateStep ==
    ASSUME OwnerInv, NEW r \in Requests, StartCreate(r)
    PROVE  OwnerInv'
<1>1. PICK i \in Ids : id' = [id EXCEPT ![r] = i]
    BY CreateId
<1>2. /\ id' \in [Requests -> Ids] /\ id'[r] = i
      /\ \A s \in Requests \ {r} : id'[s] = id[s]
    BY <1>1 DEF OwnerInv, MapsInv
<1>3. stage[r] = "idle" /\ UNCHANGED <<byId, mongoById, mongoEngines>>
    BY DEF StartCreate
<1>4. Listed' = Listed
    BY <1>3 DEF Listed, IsMongo
<1>5. dynamicSeq' \in Nat
    BY CreateId
<1>6. CASE IdTaken(id'[r])
  <2>1. UNCHANGED <<creatingIds, stage, kind, inst>>
    BY <1>6 DEF StartCreate
  <2> QED
    BY <1>2, <1>3, <1>4, <1>5, <2>1 DEF OwnerInv, MapsInv, Reserved, OneOwnerPerId
<1>7. CASE ~IdTaken(id'[r])
  <2>1. /\ creatingIds' = creatingIds \union {i}
        /\ stage' = [stage EXCEPT ![r] = "connecting"]
        /\ DOMAIN inst' = DOMAIN inst /\ DOMAIN kind' = DOMAIN kind
    BY <1>2, <1>7 DEF StartCreate
  <2>2. i \notin Listed /\ i \notin creatingIds
    BY <1>2, <1>7 DEF IdTaken
  <2>3. /\ DOMAIN stage' = Requests
        /\ \A s \in Requests \ {r} : stage'[s] = stage[s]
    BY <2>1 DEF OwnerInv, MapsInv
  <2>4. MapsInv'
    BY <1>2, <1>3, <1>5, <2>1, <2>3 DEF OwnerInv, MapsInv
  <2>5. Reserved'
    BY <1>2, <1>4, <2>1, <2>2, <2>3 DEF OwnerInv, Reserved
  <2>6. OneOwnerPerId'
    BY <1>2, <1>3, <1>4, <2>2, <2>3 DEF OwnerInv, OneOwnerPerId
  <2> QED
    BY <2>4, <2>5, <2>6 DEF OwnerInv
<1> QED
    BY <1>6, <1>7

(* Its connector is listed under an id that was free, and given up.        *)
LEMMA ConnectedStep ==
    ASSUME OwnerInv, NEW r \in Requests, Connected(r)
    PROVE  OwnerInv'
<1>1. /\ stage[r] = "connecting" /\ id[r] \in Ids
      /\ id[r] \notin Listed /\ id[r] \in creatingIds
    BY DEF OwnerInv, MapsInv, Reserved, OneOwnerPerId, Connected
<1>2. byId[id[r]] = None /\ mongoById[id[r]] = None /\ mongoEngines[id[r]] = None
    BY <1>1 DEF Listed, IsMongo, OwnerInv, OneOwnerPerId
<1>3. /\ creatingIds' = creatingIds \ {id[r]}
      /\ UNCHANGED <<mongoEngines, dynamicSeq, id, kind>>
    BY DEF Connected
<1>4. /\ DOMAIN stage' = Requests /\ DOMAIN inst' = Requests /\ stage'[r] = "idle"
      /\ \A s \in Requests \ {r} : stage'[s] = stage[s]
    BY DEF Connected, FinishRequest, OwnerInv, MapsInv
<1>5. /\ DOMAIN byId' = Ids /\ DOMAIN mongoById' = Ids
      /\ byId'[id[r]] = None \/ mongoById'[id[r]] = None
      /\ \A i \in Ids \ {id[r]} : byId'[i] = byId[i] /\ mongoById'[i] = mongoById[i]
  <2>1. CASE kind[r] = "mongo"
    BY <1>1, <1>2, <2>1 DEF Connected, OwnerInv, MapsInv
  <2>2. CASE kind[r] # "mongo"
    BY <1>1, <1>2, <2>2 DEF Connected, OwnerInv, MapsInv
  <2> QED
    BY <2>1, <2>2
<1>6. Listed' \subseteq Listed \union {id[r]}
    BY <1>5 DEF Listed, IsMongo
<1>7. \A s \in Requests : stage'[s] = "connecting" => s # r /\ id[s] # id[r]
    BY <1>1, <1>4 DEF OwnerInv, Reserved
<1>8. MapsInv'
    BY <1>3, <1>4, <1>5 DEF OwnerInv, MapsInv
<1>9. Reserved'
    BY <1>3, <1>4, <1>6, <1>7 DEF OwnerInv, Reserved
<1>10. OneOwnerPerId'
    BY <1>2, <1>3, <1>4, <1>5, <1>6, <1>7 DEF OwnerInv, OneOwnerPerId
<1> QED
    BY <1>8, <1>9, <1>10 DEF OwnerInv

LEMMA ConnectFailsStep ==
    ASSUME OwnerInv, NEW r \in Requests, ConnectFails(r)
    PROVE  OwnerInv'
<1>1. /\ stage[r] = "connecting" /\ creatingIds' = creatingIds \ {id[r]}
      /\ UNCHANGED <<byId, mongoById, mongoEngines, dynamicSeq, id, kind>>
    BY DEF ConnectFails
<1>2. /\ DOMAIN stage' = Requests /\ DOMAIN inst' = Requests /\ stage'[r] = "idle"
      /\ \A s \in Requests \ {r} : stage'[s] = stage[s]
    BY DEF ConnectFails, FinishRequest, OwnerInv, MapsInv
<1>3. Listed' = Listed
    BY <1>1 DEF Listed, IsMongo
<1>4. \A s \in Requests : stage'[s] = "connecting" => s # r /\ id[s] # id[r]
    BY <1>1, <1>2 DEF OwnerInv, Reserved
<1>5. MapsInv'
    BY <1>1, <1>2 DEF OwnerInv, MapsInv
<1>6. Reserved'
    BY <1>1, <1>2, <1>3, <1>4 DEF OwnerInv, Reserved
<1>7. OneOwnerPerId'
    BY <1>1, <1>2, <1>3, <1>4 DEF OwnerInv, OneOwnerPerId
<1> QED
    BY <1>5, <1>6, <1>7 DEF OwnerInv

(* A removal takes the id out of its map, and the engine out with it.      *)
LEMMA DeletedStep ==
    ASSUME OwnerInv, NEW r \in Requests, Deleted(r)
    PROVE  OwnerInv'
<1>1. /\ UNCHANGED <<creatingIds, dynamicSeq, id, kind>> /\ id[r] \in Ids
    BY DEF Deleted, OwnerInv, MapsInv
<1>2. /\ DOMAIN stage' = Requests /\ DOMAIN inst' = Requests /\ stage'[r] = "idle"
      /\ \A s \in Requests \ {r} : stage'[s] = stage[s]
    BY DEF Deleted, FinishRequest, OwnerInv, MapsInv
<1>3. /\ DOMAIN byId' = Ids /\ DOMAIN mongoById' = Ids /\ DOMAIN mongoEngines' = Ids
      /\ \A i \in Ids : byId'[i] \in {byId[i], None}
      /\ \A i \in Ids : \/ mongoById'[i] = mongoById[i] /\ mongoEngines'[i] = mongoEngines[i]
                        \/ mongoById'[i] = None /\ mongoEngines'[i] = None
  <2>1. CASE kind[r] = "mongo"
    BY <1>1, <2>1 DEF Deleted, ForgetEngine, OwnerInv, MapsInv
  <2>2. CASE kind[r] # "mongo"
    BY <1>1, <2>2 DEF Deleted, OwnerInv, MapsInv
  <2> QED
    BY <2>1, <2>2
<1>4. Listed' \subseteq Listed
    BY <1>3 DEF Listed, IsMongo
<1>5. MapsInv'
    BY <1>1, <1>2, <1>3 DEF OwnerInv, MapsInv
<1>6. Reserved'
    BY <1>1, <1>2, <1>4 DEF OwnerInv, Reserved
<1>7. OneOwnerPerId'
    BY <1>1, <1>2, <1>3, <1>4 DEF OwnerInv, OneOwnerPerId
<1> QED
    BY <1>5, <1>6, <1>7 DEF OwnerInv

(* A use of a Mongo connection caches an engine of the connector listed.   *)
LEMMA StartUseStep ==
    ASSUME OwnerInv, NEW r \in Requests, NEW place \in {"using", "executing"}, StartUse(r, place)
    PROVE  OwnerInv'
<1>1. PICK i \in Listed :
        /\ id' = [id EXCEPT ![r] = i]
        /\ kind' = [kind EXCEPT ![r] = IF IsMongo(i) THEN "mongo" ELSE "sql"]
        /\ stage' = [stage EXCEPT ![r] = place]
        /\ IF IsMongo(i)
             THEN /\ inst' = [inst EXCEPT ![r] = EngineOf(i)]
                  /\ mongoEngines' = [mongoEngines EXCEPT ![i] = EngineOf(i)]
             ELSE /\ inst' = [inst EXCEPT ![r] = byId[i]]
                  /\ mongoEngines' = mongoEngines
    BY DEF StartUse
<1>2. UNCHANGED <<byId, mongoById, creatingIds, dynamicSeq>>
    BY DEF StartUse
<1>3. i \in Ids
    BY DEF Listed
<1>4. /\ DOMAIN mongoEngines' = Ids
      /\ \A j \in Ids : mongoEngines'[j] \in {None, mongoById[j]}
  <2>1. CASE IsMongo(i)
    BY <1>1, <1>3, <2>1 DEF EngineOf, OwnerInv, MapsInv, OneOwnerPerId
  <2>2. CASE ~IsMongo(i)
    BY <1>1, <2>2 DEF OwnerInv, MapsInv, OneOwnerPerId
  <2> QED
    BY <2>1, <2>2
<1>5. /\ DOMAIN stage' = Requests /\ stage'[r] = place
      /\ \A s \in Requests \ {r} : stage'[s] = stage[s]
      /\ DOMAIN kind' = Requests /\ DOMAIN inst' = Requests
      /\ id' \in [Requests -> Ids] /\ \A s \in Requests \ {r} : id'[s] = id[s]
    BY <1>1, <1>3 DEF OwnerInv, MapsInv
<1>6. Listed' = Listed
    BY <1>2 DEF Listed, IsMongo
<1>7. MapsInv'
    BY <1>2, <1>4, <1>5 DEF OwnerInv, MapsInv
<1>8. Reserved'
    BY <1>2, <1>5, <1>6 DEF OwnerInv, Reserved
<1>9. OneOwnerPerId'
    BY <1>2, <1>4, <1>5, <1>6 DEF OwnerInv, OneOwnerPerId
<1> QED
    BY <1>7, <1>8, <1>9 DEF OwnerInv

LEMMA OwnerInvStep ==
    ASSUME OwnerInv, [ConnNext]_connVars
    PROVE  OwnerInv'
<1>1. ASSUME NEW r \in Requests, StartDelete(r) PROVE OwnerInv'
  <2>1. PICK i \in Listed : id' = [id EXCEPT ![r] = i]
    BY <1>1 DEF StartDelete
  <2>2. /\ stage' = [stage EXCEPT ![r] = "deleting"]
        /\ DOMAIN inst' = DOMAIN inst /\ DOMAIN kind' = DOMAIN kind
        /\ UNCHANGED <<byId, mongoById, mongoEngines, creatingIds, dynamicSeq>>
    BY <1>1 DEF StartDelete
  <2>3. id' \in [Requests -> Ids] /\ \A s \in Requests \ {r} : id'[s] = id[s]
    BY <2>1 DEF Listed, OwnerInv, MapsInv
  <2>4. DOMAIN inst = Requests /\ DOMAIN kind = Requests
    BY DEF OwnerInv, MapsInv
  <2> QED
    BY <2>2, <2>3, <2>4, MovesOn
<1>2. ASSUME NEW r \in Requests, DeleteFails(r) \/ Answered(r) \/ Executed(r) \/ Audited(r)
      PROVE  OwnerInv'
  <2>1. PICK place \in {"idle", "auditOk", "auditError", "fixing"} :
          stage' = [stage EXCEPT ![r] = place]
    BY <1>2 DEF DeleteFails, Answered, Executed, Audited, FinishRequest
  <2>2. /\ UNCHANGED <<byId, mongoById, mongoEngines, creatingIds, dynamicSeq, id, kind>>
        /\ DOMAIN inst' = DOMAIN inst
    BY <1>2 DEF DeleteFails, Answered, Executed, Audited, FinishRequest
  <2>3. id \in [Requests -> Ids] /\ DOMAIN inst = Requests /\ DOMAIN kind = Requests
    BY DEF OwnerInv, MapsInv
  <2> QED
    BY <2>1, <2>2, <2>3, MovesOn
<1>3. ASSUME NEW r \in Requests, Ask(r) \/ Execute(r) PROVE OwnerInv'
    BY <1>3, StartUseStep DEF Ask, Execute
<1>4. ASSUME NEW r \in Requests, Reaches(r) PROVE OwnerInv'
    BY <1>4, Untouched DEF Reaches
<1>5. CASE StartClose
    BY <1>5, Untouched DEF StartClose
<1>6. ASSUME NEW i \in Ids, CloseMongo(i) PROVE OwnerInv'
    BY <1>6, Untouched DEF CloseMongo
<1>7. CASE EndClose
    BY <1>7 DEF EndClose, OwnerInv, MapsInv, Reserved, OneOwnerPerId, Listed, IsMongo
<1>8. CASE UNCHANGED connVars
    BY <1>8, Untouched DEF connVars
<1> QED
    BY <1>1, <1>2, <1>3, <1>4, <1>5, <1>6, <1>7, <1>8, StartCreateStep, ConnectedStep,
       ConnectFailsStep, DeletedStep DEF ConnNext

(* The inductive invariant: reservations are exact at every await.         *)
THEOREM OwnerInvCorrect == ConnSpec => []OwnerInv
<1>1. ConnInit => OwnerInv
    BY DEF ConnInit, OwnerInv, MapsInv, Reserved, OneOwnerPerId, Listed, IsMongo
<1>2. OwnerInv /\ [ConnNext]_connVars => OwnerInv'
    BY OwnerInvStep
<1> QED
    BY <1>1, <1>2, PTL DEF ConnSpec

(* No id ever names two connections, and no cached Mongo engine outlives   *)
(* the connector it was made with, however creates, removals and uses of   *)
(* one id overlap.                                                         *)
THEOREM OwnerCorrect == ConnSpec => []OneOwnerPerId
<1>1. OwnerInv => OneOwnerPerId
    BY DEF OwnerInv
<1> QED
    BY <1>1, OwnerInvCorrect, PTL

-----------------------------------------------------------------------------
(* ServerRequest: the stream of an answer.                                 *)

(* A step of the request that touches neither the stream's variables nor   *)
(* the generator's place in it.                                            *)
LEMMA StreamFrame ==
    ASSUME StreamInv, UNCHANGED streamVars,
           step' \in {"drain", "outcome", "finish"} => step' = step,
           step' \in Early => step \in Early
    PROVE  StreamInv'
  BY DEF StreamInv, StreamTyped, SentPrefix, QueueInv, Skipped, StreamTellsAll, Told, streamVars

(* The steps before the stream, and the client's.                          *)
LEMMA RequestKeeps ==
    ASSUME StreamInv,
           \/ Client \/ CliReads \/ ExpressReads \/ Handle \/ ReadBody \/ Resolve
           \/ EngineAnswers \/ EndResponse
    PROVE  StreamInv'
  <1> USE StreamFrame DEF Early, Answer
  <1>1. CASE Client
    BY <1>1 DEF Client, SendChunk, EndBody, Disconnect
  <1>2. CASE CliReads
    BY <1>2 DEF CliReads
  <1>3. CASE ExpressReads
    BY <1>3 DEF ExpressReads
  <1>4. CASE Handle
    BY <1>4 DEF Handle
  <1>5. CASE ReadBody
    BY <1>5 DEF ReadBody
  <1>6. CASE Resolve
    BY <1>6 DEF Resolve
  <1>7. CASE EngineAnswers
    BY <1>7 DEF EngineAnswers
  <1>8. CASE EndResponse
    BY <1>8 DEF EndResponse
  <1> QED BY <1>1, <1>2, <1>3, <1>4, <1>5, <1>6, <1>7, <1>8

(* The first pull finds the queue empty and the wire too.                  *)
LEMMA StartKeeps ==
    ASSUME StreamInv, StartStream
    PROVE  StreamInv'
  <1>1. step' = "drain" /\ due = <<>> /\ queue = <<>> /\ sent = <<>> /\ UNCHANGED streamVars
    BY DEF StartStream, StreamInv, Early
  <1>2. Len(due) = 0 /\ Len(queue) = 0 /\ Len(sent) = 0
    BY <1>1
  <1>3. UNCHANGED <<due, queue, sent, settled>>
    BY <1>1 DEF streamVars
  <1>4. SentPrefix' /\ QueueInv'
    BY <1>2, <1>3 DEF SentPrefix, QueueInv, Skipped
  <1> QED
    BY <1>1, <1>3, <1>4 DEF StreamInv, StreamTyped, StreamTellsAll, SentPrefix, Told, Early

(* onEvent: a forwarded event takes the next place in due and the last in  *)
(* the queue.                                                              *)
LEMMA PushKeeps ==
    ASSUME StreamInv, Push
    PROVE  StreamInv'
  <1>1. PICK t \in EventTypes :
          /\ due' = IF Forwards(<<t, Len(due) + 1>>)
                    THEN Append(due, <<t, Len(due) + 1>>) ELSE due
          /\ queue' = Append(queue, <<t, Len(due) + 1>>)
    BY DEF Push
  <1> DEFINE e == <<t, Len(due) + 1>>
  <1>2. /\ step' = step /\ step \in {"drain", "last"} /\ settled = "no"
        /\ sent' = sent /\ settled' = settled
    BY DEF Push
  <1>3. /\ due \in Seq(Events) /\ queue \in Seq(Events)
        /\ sent \in Seq(Events) /\ SentPrefix
    BY <1>2 DEF StreamInv, StreamTyped, StreamTellsAll, SentPrefix
  <1>4. e \in Events /\ e[2] = Len(due) + 1
    BY <1>3 DEF Events
  <1> HIDE DEF e
  <1>5. due' = (IF Forwards(e) THEN Append(due, e) ELSE due) /\ queue' = Append(queue, e)
    BY <1>1 DEF e
  <1>6. due' \in Seq(Events) /\ queue' \in Seq(Events)
    BY <1>3, <1>4, <1>5
  <1>7. /\ Len(queue) \in Nat /\ Len(due) \in Nat /\ Len(sent) \in Nat
        /\ Len(queue') = Len(queue) + 1 /\ queue'[Len(queue) + 1] = e
        /\ \A k \in 1 .. Len(queue) : queue'[k] = queue[k]
    BY <1>3, <1>4, <1>5
  <1>8. /\ Len(due') = IF Forwards(e) THEN Len(due) + 1 ELSE Len(due)
        /\ \A k \in 1 .. Len(due) : due'[k] = due[k]
        /\ Forwards(e) => due'[Len(due) + 1] = e
    BY <1>3, <1>4, <1>5
  <1>9. SentPrefix'
    BY <1>2, <1>3, <1>7, <1>8 DEF SentPrefix
  <1>10. ASSUME step = "drain" PROVE QueueInv'
    <2>1. QueueInv
      BY <1>10 DEF StreamInv
    <2> PICK n \in Nat : n = Len(queue)
      BY <1>7
    <2>2. \A i, j \in 0 .. n + 1 : Skipped(i, j)' <=> Skipped(i, j)
      BY <1>7 DEF Skipped
    <2>3. \A i \in 0 .. n + 1 : Skipped(i, n + 2)' => Skipped(i, n + 1)
      BY <1>7 DEF Skipped
    <2>4. \A i \in 0 .. n : Skipped(i, n + 2)' => ~Forwards(e)
      BY <1>7 DEF Skipped
    <2>5. \A k \in 1 .. Len(queue') : Forwards(queue'[k]) =>
            queue'[k][2] \in 1 .. Len(due') /\ due'[queue'[k][2]] = queue'[k]
      BY <1>4, <1>7, <1>8, <2>1 DEF QueueInv
    <2>6. \A k \in 1 .. Len(queue') : Forwards(queue'[k]) /\ Skipped(0, k)' =>
            queue'[k][2] = Len(sent') + 1
      <3> SUFFICES ASSUME NEW k \in 1 .. Len(queue'), Forwards(queue'[k]), Skipped(0, k)'
                   PROVE  queue'[k][2] = Len(sent') + 1
        OBVIOUS
      <3>1. Skipped(0, k)
        BY <1>7, <2>2
      <3>2. CASE k \in 1 .. n
        BY <1>2, <1>7, <2>1, <3>1, <3>2 DEF QueueInv
      <3>3. CASE k = n + 1
        <4>1. Len(sent) = Len(due)
          BY <2>1, <3>1, <3>3 DEF QueueInv
        <4> QED BY <1>2, <1>4, <1>7, <3>3, <4>1
      <3> QED BY <1>7, <3>2, <3>3
    <2>7. \A i \in 1 .. Len(queue') : \A k \in i + 1 .. Len(queue') :
            Forwards(queue'[i]) /\ Forwards(queue'[k]) /\ Skipped(i, k)' =>
              queue'[k][2] = queue'[i][2] + 1
      <3> SUFFICES ASSUME NEW i \in 1 .. Len(queue'), NEW k \in i + 1 .. Len(queue'),
                          Forwards(queue'[i]), Forwards(queue'[k]), Skipped(i, k)'
                   PROVE  queue'[k][2] = queue'[i][2] + 1
        OBVIOUS
      <3>1. Skipped(i, k) /\ i \in 1 .. n /\ queue'[i] = queue[i]
        BY <1>7, <2>2
      <3>2. CASE k \in 1 .. n
        <4>1. k \in i + 1 .. Len(queue) /\ queue'[k] = queue[k] /\ i \in 1 .. Len(queue)
          BY <1>7, <3>1, <3>2
        <4>2. queue[k][2] = queue[i][2] + 1
          BY <2>1, <3>1, <4>1 DEF QueueInv
        <4> QED BY <3>1, <4>1, <4>2
      <3>3. CASE k = n + 1
        <4>1. queue[i][2] = Len(due)
          BY <2>1, <3>1, <3>3 DEF QueueInv
        <4> QED BY <1>4, <1>7, <3>1, <3>3, <4>1
      <3> QED BY <1>7, <3>2, <3>3
    <2>8. \A k \in 1 .. Len(queue') : Forwards(queue'[k]) /\ Skipped(k, n + 2)' =>
            queue'[k][2] = Len(due')
      <3> SUFFICES ASSUME NEW k \in 1 .. Len(queue'), Forwards(queue'[k]), Skipped(k, n + 2)'
                   PROVE  queue'[k][2] = Len(due')
        OBVIOUS
      <3>1. CASE k \in 1 .. n
        <4>1. Skipped(k, n + 1) /\ ~Forwards(e)
          BY <1>7, <2>3, <2>4, <3>1
        <4> QED BY <1>7, <1>8, <2>1, <3>1, <4>1 DEF QueueInv
      <3>2. CASE k = n + 1
        BY <1>4, <1>7, <1>8, <3>2
      <3> QED BY <1>7, <3>1, <3>2
    <2>9. Skipped(0, n + 2)' => Len(sent') = Len(due')
      <3> SUFFICES ASSUME Skipped(0, n + 2)' PROVE Len(sent') = Len(due')
        OBVIOUS
      <3>1. Skipped(0, n + 1) /\ ~Forwards(e)
        BY <1>7, <2>3, <2>4
      <3> QED BY <1>2, <1>7, <1>8, <2>1, <3>1 DEF QueueInv
    <2> QED BY <1>7, <2>5, <2>6, <2>7, <2>8, <2>9 DEF QueueInv
  <1>11. StreamTyped' /\ StreamTellsAll'
    BY <1>2, <1>3, <1>6, <1>9 DEF StreamInv, StreamTyped, StreamTellsAll, SentPrefix
  <1> QED BY <1>2, <1>9, <1>10, <1>11 DEF StreamInv, Early

(* A pull takes the first event to be forwarded off the queue, and what it *)
(* skips with it; the one after it becomes the next.                       *)
LEMMA DrainKeeps ==
    ASSUME StreamInv, DrainOne
    PROVE  StreamInv'
  <1>1. PICK n \in DOMAIN queue :
          /\ IsNext(n) /\ queue' = SubSeq(queue, n + 1, Len(queue))
          /\ IF StopsPulling THEN step' = "last" /\ UNCHANGED sent
             ELSE sent' = Append(sent, queue[n]) /\ UNCHANGED step
    BY DEF DrainOne
  <1>2. step = "drain" /\ UNCHANGED <<due, settled>>
    BY DEF DrainOne
  <1>3. StreamTyped /\ SentPrefix /\ QueueInv
    BY <1>2 DEF StreamInv
  <1>4. /\ due \in Seq(Events) /\ queue \in Seq(Events)
        /\ sent \in Seq(Events)
    BY <1>3 DEF StreamTyped
  <1>5. Len(due) \in Nat /\ Len(queue) \in Nat /\ Len(sent) \in Nat /\ n \in 1 .. Len(queue)
    BY <1>4
  <1>6. /\ queue' \in Seq(Events) /\ Len(queue') = Len(queue) - n
        /\ \A k \in 1 .. Len(queue') : queue'[k] = queue[n + k]
    <2>1. n + 1 \in Int /\ Len(queue) \in Int /\ \A i \in n + 1 .. Len(queue) : queue[i] \in Events
      BY <1>4, <1>5
    <2>2. /\ SubSeq(queue, n + 1, Len(queue)) \in Seq(Events)
          /\ Len(SubSeq(queue, n + 1, Len(queue))) =
               IF n + 1 <= Len(queue) THEN Len(queue) - (n + 1) + 1 ELSE 0
          /\ \A i \in 1 .. Len(queue) - (n + 1) + 1 :
               SubSeq(queue, n + 1, Len(queue))[i] = queue[n + 1 + i - 1]
      BY <2>1, SubSeqProperties
    <2>3. /\ queue' \in Seq(Events)
          /\ Len(queue') = IF n + 1 <= Len(queue) THEN Len(queue) - (n + 1) + 1 ELSE 0
          /\ \A i \in 1 .. Len(queue) - (n + 1) + 1 : queue'[i] = queue[n + 1 + i - 1]
      BY <1>1, <2>2
    <2>4. Len(queue') = Len(queue) - n
      BY <1>5, <2>3
    <2>5. ASSUME NEW k \in 1 .. Len(queue') PROVE queue'[k] = queue[n + k]
      <3>1. k \in 1 .. Len(queue) - (n + 1) + 1 /\ n + 1 + k - 1 = n + k
        BY <1>5, <2>4
      <3> QED BY <2>3, <3>1
    <2> QED BY <2>3, <2>4, <2>5
  <1>7. Forwards(queue[n]) /\ Skipped(0, n)
    BY <1>1 DEF IsNext, Skipped
  <1>8. queue[n][2] = Len(sent) + 1
    BY <1>3, <1>5, <1>7 DEF QueueInv
  <1>9. queue[n][2] \in 1 .. Len(due) /\ due[queue[n][2]] = queue[n]
    BY <1>3, <1>5, <1>7 DEF QueueInv
  <1>10. Len(sent) + 1 <= Len(due) /\ due[Len(sent) + 1] = queue[n]
    BY <1>5, <1>8, <1>9
  <1>11. CASE StopsPulling
    <2>1. step' = "last" /\ sent' = sent
      BY <1>1, <1>11
    <2>2. SentPrefix'
      BY <1>2, <1>3, <2>1 DEF SentPrefix
    <2> QED
      BY <1>2, <1>3, <1>6, <2>1, <2>2 DEF StreamInv, StreamTyped, StreamTellsAll, SentPrefix, Early
  <1>12. CASE ~StopsPulling
    <2>1. step' = "drain" /\ sent' = Append(sent, queue[n])
      BY <1>1, <1>2, <1>12
    <2>2. queue[n] \in Events
      BY <1>4, <1>5
    <2>3. /\ sent' \in Seq(Events) /\ Len(sent') = Len(sent) + 1
          /\ sent'[Len(sent) + 1] = queue[n]
          /\ \A k \in 1 .. Len(sent) : sent'[k] = sent[k]
      BY <1>4, <2>1, <2>2
    <2>4. SentPrefix'
      BY <1>2, <1>3, <1>5, <1>10, <2>3 DEF SentPrefix
    <2> PICK m \in Nat : m = Len(queue)
      BY <1>5
    <2>5. \A i \in 0 .. m - n : \A j \in 0 .. m - n + 1 : Skipped(i, j)' => Skipped(n + i, n + j)
      <3> SUFFICES ASSUME NEW i \in 0 .. m - n, NEW j \in 0 .. m - n + 1, Skipped(i, j)'
                   PROVE  Skipped(n + i, n + j)
        OBVIOUS
      <3>1. ASSUME NEW k \in (n + i) + 1 .. (n + j) - 1 PROVE ~Forwards(queue[k])
        <4>1. n \in Nat /\ i \in Nat /\ j \in Nat /\ m \in Nat /\ k \in Nat
              /\ n >= 1 /\ n <= m /\ j <= m - n + 1 /\ Len(queue') = m - n
          BY <1>5, <1>6
        <4>2. n + i + 1 <= k /\ k <= n + j - 1
          BY <4>1
        <4> PICK d \in Nat : d = k - n
          BY <4>1, <4>2
        <4>3. d \in i + 1 .. j - 1 /\ d \in 1 .. Len(queue') /\ n + d = k
          BY <4>1, <4>2
        <4>4. ~Forwards(queue'[d])
          BY <4>3 DEF Skipped
        <4> QED BY <1>6, <4>3, <4>4
      <3> QED BY <3>1 DEF Skipped
    <2>6. \A k \in 1 .. Len(queue') : Forwards(queue'[k]) =>
            queue'[k][2] \in 1 .. Len(due') /\ due'[queue'[k][2]] = queue'[k]
      <3> SUFFICES ASSUME NEW k \in 1 .. Len(queue'), Forwards(queue'[k])
                   PROVE  queue'[k][2] \in 1 .. Len(due') /\ due'[queue'[k][2]] = queue'[k]
        OBVIOUS
      <3>1. n + k \in 1 .. Len(queue) /\ queue'[k] = queue[n + k]
        BY <1>5, <1>6
      <3> QED BY <1>2, <1>3, <3>1 DEF QueueInv
    <2>7. \A k \in 1 .. Len(queue') : Forwards(queue'[k]) /\ Skipped(0, k)' =>
            queue'[k][2] = Len(sent') + 1
      <3> SUFFICES ASSUME NEW k \in 1 .. Len(queue'), Forwards(queue'[k]), Skipped(0, k)'
                   PROVE  queue'[k][2] = Len(sent') + 1
        OBVIOUS
      <3>1. n + k \in n + 1 .. Len(queue) /\ queue'[k] = queue[n + k]
        BY <1>5, <1>6
      <3>2. Skipped(n, n + k)
        <4>1. 0 \in 0 .. m - n /\ k \in 0 .. m - n + 1 /\ n + 0 = n
          BY <1>5, <1>6
        <4>2. Skipped(n + 0, n + k)
          BY <2>5, <4>1
        <4> QED BY <4>1, <4>2
      <3>3. queue[n + k][2] = queue[n][2] + 1
        BY <1>3, <1>5, <1>7, <3>1, <3>2 DEF QueueInv
      <3> QED BY <1>5, <1>8, <2>3, <3>1, <3>3
    <2>8. \A i \in 1 .. Len(queue') : \A k \in i + 1 .. Len(queue') :
            Forwards(queue'[i]) /\ Forwards(queue'[k]) /\ Skipped(i, k)' =>
              queue'[k][2] = queue'[i][2] + 1
      <3> SUFFICES ASSUME NEW i \in 1 .. Len(queue'), NEW k \in i + 1 .. Len(queue'),
                          Forwards(queue'[i]), Forwards(queue'[k]), Skipped(i, k)'
                   PROVE  queue'[k][2] = queue'[i][2] + 1
        OBVIOUS
      <3>1. /\ n + i \in 1 .. Len(queue) /\ n + k \in (n + i) + 1 .. Len(queue)
            /\ queue'[i] = queue[n + i] /\ queue'[k] = queue[n + k]
        <4>1. i \in Nat /\ k \in Nat /\ 1 <= i /\ i + 1 <= k /\ k <= Len(queue) - n
          BY <1>5, <1>6
        <4>2. n + i \in 1 .. Len(queue) /\ n + k \in (n + i) + 1 .. Len(queue)
          BY <1>5, <4>1
        <4>3. k \in 1 .. Len(queue')
          BY <1>5, <1>6, <4>1
        <4> QED BY <1>6, <4>2, <4>3
      <3>2. Skipped(n + i, n + k)
        <4>1. i \in 0 .. m - n /\ k \in 0 .. m - n + 1
          BY <1>5, <1>6
        <4> QED BY <2>5, <4>1
      <3>3. queue[n + k][2] = queue[n + i][2] + 1
        BY <1>3, <3>1, <3>2 DEF QueueInv
      <3> QED BY <3>1, <3>3
    <2>9. \A k \in 1 .. Len(queue') : Forwards(queue'[k]) /\ Skipped(k, m - n + 1)' =>
            queue'[k][2] = Len(due')
      <3> SUFFICES ASSUME NEW k \in 1 .. Len(queue'), Forwards(queue'[k]), Skipped(k, m - n + 1)'
                   PROVE  queue'[k][2] = Len(due')
        OBVIOUS
      <3>1. n + k \in 1 .. Len(queue) /\ queue'[k] = queue[n + k]
        BY <1>5, <1>6
      <3>2. Skipped(n + k, n + (m - n + 1)) /\ n + (m - n + 1) = Len(queue) + 1
        <4>1. k \in 0 .. m - n
          BY <1>5, <1>6
        <4>2. m - n + 1 \in 0 .. m - n + 1 /\ n + (m - n + 1) = Len(queue) + 1
          BY <1>5
        <4>3. Skipped(n + k, n + (m - n + 1))
          BY <2>5, <4>1, <4>2
        <4> QED BY <4>2, <4>3
      <3>3. Skipped(n + k, Len(queue) + 1)
        BY <3>2
      <3> QED BY <1>2, <1>3, <3>1, <3>3 DEF QueueInv
    <2>10. Skipped(0, m - n + 1)' => Len(sent') = Len(due')
      <3> SUFFICES ASSUME Skipped(0, m - n + 1)' PROVE Len(sent') = Len(due')
        OBVIOUS
      <3>1. Skipped(n + 0, n + (m - n + 1)) /\ n + (m - n + 1) = Len(queue) + 1 /\ n + 0 = n
        <4>1. /\ 0 \in 0 .. m - n /\ m - n + 1 \in 0 .. m - n + 1
              /\ n + (m - n + 1) = Len(queue) + 1 /\ n + 0 = n
          BY <1>5, <1>6
        <4> QED BY <2>5, <4>1
      <3>2. Skipped(n, Len(queue) + 1)
        BY <3>1
      <3>3. queue[n][2] = Len(due)
        BY <1>3, <1>5, <1>7, <3>2 DEF QueueInv
      <3> QED BY <1>2, <1>8, <2>3, <3>3
    <2>11. Len(queue') + 1 = m - n + 1
      BY <1>5, <1>6
    <2>12. QueueInv'
      BY <2>6, <2>7, <2>8, <2>9, <2>10, <2>11 DEF QueueInv
    <2> QED
      BY <1>2, <1>3, <1>6, <2>1, <2>3, <2>4, <2>12
      DEF StreamInv, StreamTyped, StreamTellsAll, SentPrefix, Early
  <1> QED BY <1>11, <1>12

(* Nothing left to forward: all that is due is on the wire.                *)
LEMMA EmptyKeeps ==
    ASSUME StreamInv, DrainEmpty
    PROVE  StreamInv'
  <1>1. /\ step = "drain" /\ queue' = <<>> /\ UNCHANGED <<due, sent, settled>>
        /\ ~MoreToSend /\ (step' = "drain" \/ (step' = "outcome" /\ settled # "no"))
    BY DEF DrainEmpty, Sleeps
  <1>2. StreamTyped /\ SentPrefix /\ QueueInv
    BY <1>1 DEF StreamInv
  <1>3. queue \in Seq(Events)
    BY <1>2 DEF StreamTyped
  <1>4. Skipped(0, Len(queue) + 1)
    BY <1>1, <1>3 DEF MoreToSend, Skipped
  <1>5. Len(sent) = Len(due)
    BY <1>2, <1>4 DEF QueueInv
  <1>6. Len(queue') = 0 /\ queue' \in Seq(Events)
    BY <1>1
  <1>7. SentPrefix' /\ QueueInv'
    BY <1>1, <1>2, <1>5, <1>6 DEF SentPrefix, QueueInv
  <1> QED
    BY <1>1, <1>2, <1>5, <1>6, <1>7
    DEF StreamInv, StreamTyped, StreamTellsAll, SentPrefix, Early, Told

(* The outcome follows all that is due, and done follows the outcome.      *)
LEMMA OutcomeKeeps ==
    ASSUME StreamInv, Outcome
    PROVE  StreamInv'
  <1>1. step = "outcome" /\ UNCHANGED <<due, queue, settled>>
    BY DEF Outcome
  <1>2. StreamTyped /\ SentPrefix /\ Len(sent) = Len(due) /\ settled # "no"
    BY <1>1 DEF StreamInv
  <1>3. CASE StopsPulling
    <2>1. step' = "last" /\ sent' = sent
      BY <1>3 DEF Outcome
    <2> QED
      BY <1>1, <1>2, <2>1 DEF StreamInv, StreamTyped, StreamTellsAll, SentPrefix, Early
  <1>4. CASE ~StopsPulling
    <2>1. step' = "finish" /\ sent' = Append(sent, Told)
      BY <1>4 DEF Outcome
    <2>2. sent = due
      <3>1. due \in Seq(Events) /\ sent \in Seq(Events)
        BY <1>2 DEF StreamTyped
      <3>2. Len(sent) = Len(due) /\ \A k \in 1 .. Len(sent) : sent[k] = due[k]
        BY <1>2 DEF SentPrefix
      <3> QED BY <3>1, <3>2, SeqEqual
    <2>3. sent' = Append(due, Told) /\ sent' \in Seq(Events) /\ Told' = Told
      <3>1. Told \in Events /\ sent \in Seq(Events)
        BY <1>2 DEF Told, StreamTyped, Events
      <3> QED BY <1>1, <2>1, <2>2, <3>1 DEF Told
    <2>4. sent' = Append(due', Told')
      BY <1>1, <2>3
    <2> QED
      BY <1>1, <1>2, <2>1, <2>3, <2>4 DEF StreamInv, StreamTyped, StreamTellsAll, Early
  <1> QED BY <1>3, <1>4

LEMMA DoneKeeps ==
    ASSUME StreamInv, SendDone
    PROVE  StreamInv'
  <1>1. /\ step = "finish" /\ step' = "last" /\ UNCHANGED <<due, queue, settled>>
        /\ sent' = IF StopsPulling THEN sent ELSE Append(sent, <<"done", 0>>)
    BY DEF SendDone
  <1>2. StreamTyped /\ settled # "no" /\ sent = Append(due, Told)
    BY <1>1 DEF StreamInv
  <1>3. sent' \in {Append(due, Told), Append(Append(due, Told), <<"done", 0>>)} /\ Told' = Told
    BY <1>1, <1>2 DEF Told
  <1>4. StreamTellsAll'
    BY <1>1, <1>2, <1>3 DEF StreamTellsAll
  <1>5. sent' \in Seq(Events)
    <2>1. <<"done", 0>> \in Events /\ sent \in Seq(Events)
      BY <1>2 DEF Events, StreamTyped
    <2> QED BY <1>1, <2>1
  <1> QED
    BY <1>1, <1>2, <1>4, <1>5 DEF StreamInv, StreamTyped, Early

(* The engine settles while the generator drains, or after it was left.    *)
LEMMA SettleKeeps ==
    ASSUME StreamInv, Settle
    PROVE  StreamInv'
  <1>1. /\ step' = step /\ step \in {"drain", "last"} /\ settled = "no"
        /\ settled' \in {"ok", "error"} /\ UNCHANGED <<due, queue, sent>>
    BY DEF Settle
  <1>2. SentPrefix'
    BY <1>1 DEF StreamInv, StreamTellsAll, SentPrefix
  <1>3. step = "drain" => QueueInv'
    BY <1>1 DEF StreamInv, QueueInv, Skipped
  <1> QED
    BY <1>1, <1>2, <1>3 DEF StreamInv, StreamTyped, StreamTellsAll, SentPrefix, Early

(* The strengthening holds of every request.                               *)
THEOREM StreamInvCorrect == ReqSpec => []StreamInv
  <1>1. ReqInit => StreamInv
    <2> SUFFICES ASSUME ReqInit PROVE StreamInv
      OBVIOUS
    <2>1. due = <<>> /\ queue = <<>> /\ sent = <<>> /\ settled = "no" /\ step = "arrived"
      BY DEF ReqInit
    <2>2. Len(due) = 0 /\ Len(sent) = 0
      BY <2>1
    <2> QED BY <2>1, <2>2 DEF StreamInv, StreamTyped, StreamTellsAll, Early
  <1>2. StreamInv /\ [ReqNext]_reqVars => StreamInv'
    <2> SUFFICES ASSUME StreamInv, [ReqNext]_reqVars PROVE StreamInv'
      OBVIOUS
    <2>1. CASE Client \/ Server
      BY <2>1, RequestKeeps, StartKeeps, DrainKeeps, EmptyKeeps, OutcomeKeeps, DoneKeeps DEF Server
    <2>2. CASE Engine
      BY <2>2, PushKeeps, SettleKeeps DEF Engine
    <2>3. CASE UNCHANGED reqVars
      BY <2>3, StreamFrame DEF reqVars, streamVars
    <2> QED BY <2>1, <2>2, <2>3 DEF ReqNext
  <1> QED BY <1>1, <1>2, PTL DEF ReqSpec

(* What a /chat client is sent is a beginning of what the engine pushed to *)
(* be forwarded; once told the outcome it has been sent all of it, in      *)
(* order, for streams of any length (the drains of chat and mongoChat).    *)
THEOREM StreamCorrect == ReqSpec => []StreamTellsAll
  <1>1. StreamInv => StreamTellsAll
    BY DEF StreamInv
  <1> QED BY <1>1, StreamInvCorrect, PTL

-----------------------------------------------------------------------------
(* CallModel: one call of the model.                                       *)

(* A larger factor makes a larger product.                                 *)
LEMMA TimesMonotone ==
  ASSUME NEW a \in Nat, NEW b \in Nat, NEW t \in Nat, a <= b
  PROVE  a * t <= b * t
  OBVIOUS

(* The invariant holds when callModel is entered.                          *)
LEMMA CallInitial == Init => CallInv
  <1> SUFFICES ASSUME Init PROVE CallInv
    OBVIOUS
  <1> USE CallModelAssumption DEF CallModelAssumption, Init
  <1>1. TypeOK
    <2>1. omitTemperature \in BOOLEAN /\ timedOut \in BOOLEAN /\ aborted \in BOOLEAN
      BY Zenon
    <2> QED BY <2>1 DEF TypeOK
  <1>2. ControlInv
    BY DEF ControlInv, Extra
  <1>3. TimeInv
    BY DEF TimeInv, Charged
  <1> QED BY <1>1, <1>2, <1>3 DEF CallInv

(* Every step of callModel keeps its variables typed.                      *)
LEMMA TypePreserved == CallInv /\ [Next]_vars => TypeOK'
  <1> SUFFICES ASSUME CallInv, [Next]_vars PROVE TypeOK'
    OBVIOUS
  <1> USE CallModelAssumption DEF CallModelAssumption, CallInv, TypeOK, Failures, clocks
  <1>1. CASE Begin
    <2>1. timedOut' \in BOOLEAN /\ omitTemperature' \in BOOLEAN /\ aborted' \in BOOLEAN
      BY <1>1, Zenon DEF Begin, LoopTop, Send
    <2> QED BY <1>1, <2>1 DEF Begin, LoopTop, Return, Send
  <1>2. CASE SoftTimeout
    BY <1>2 DEF SoftTimeout
  <1>3. CASE HardTimeout
    BY <1>3 DEF HardTimeout
  <1>4. CASE Abort
    BY <1>4 DEF Abort
  <1>5. ASSUME NEW what \in Failures \cup {"text"}, ProviderSettles(what) PROVE TypeOK'
    BY <1>5 DEF ProviderSettles
  <1>6. CASE Resend
    <2>1. timedOut' \in BOOLEAN /\ omitTemperature' \in BOOLEAN /\ aborted' \in BOOLEAN
      BY <1>6, Zenon DEF Resend, Send
    <2> QED BY <1>6, <2>1 DEF Resend, Send
  <1>7. ASSUME NEW ticks \in Backoffs, StartBackoff(ticks) PROVE TypeOK'
    BY <1>7 DEF StartBackoff, CanRetry
  <1>8. CASE Finish
    <2>1. Classify(first) \in {"CANCELLED", "LLM_TIMEOUT", "own", "error"}
      BY DEF Classify
    <2> QED BY <1>8, <2>1 DEF Finish, Return
  <1>9. CASE Wake
    BY <1>9 DEF Wake
  <1>10. CASE Tick
    BY <1>10 DEF Tick
  <1>11. CASE UNCHANGED vars
    BY <1>11 DEF vars
  <1> QED
    BY <1>1, <1>2, <1>3, <1>4, <1>5, <1>6, <1>7, <1>8, <1>9, <1>10, <1>11 DEF Next, Done

(* Every step keeps the race, the signal, the timers and the requests in   *)
(* the relation that the place in the code demands.                        *)
LEMMA ControlPreserved == CallInv /\ [Next]_vars => ControlInv'
  <1> SUFFICES ASSUME CallInv, [Next]_vars PROVE ControlInv'
    OBVIOUS
  <1> USE CallModelAssumption
      DEF CallModelAssumption, CallInv, TypeOK, ControlInv, Extra, Failures, clocks
  <1>1. CASE Begin
    BY <1>1 DEF Begin, LoopTop, Return, Send
  <1>2. CASE SoftTimeout
    BY <1>2 DEF SoftTimeout
  <1>3. CASE HardTimeout
    BY <1>3 DEF HardTimeout
  <1>4. CASE Abort
    BY <1>4 DEF Abort
  <1>5. ASSUME NEW what \in Failures \cup {"text"}, ProviderSettles(what) PROVE ControlInv'
    BY <1>5 DEF ProviderSettles
  <1>6. CASE Resend
    BY <1>6 DEF Resend, Resumes, Send
  <1>7. ASSUME NEW ticks \in Backoffs, StartBackoff(ticks) PROVE ControlInv'
    BY <1>7 DEF StartBackoff, Resumes, CanRetry, TimedOut
  <1>8. CASE Finish
    <2>1. Classify(first) # "none"
      BY DEF Classify
    <2> QED BY <1>8, <2>1 DEF Finish, Resumes, Return
  <1>9. CASE Wake
    BY <1>9 DEF Wake
  <1>10. CASE Tick
    BY <1>10 DEF Tick
  <1>11. CASE UNCHANGED vars
    BY <1>11 DEF vars
  <1> QED
    BY <1>1, <1>2, <1>3, <1>4, <1>5, <1>6, <1>7, <1>8, <1>9, <1>10, <1>11 DEF Next, Done

(* Every step keeps the caller's waiting within what was charged for it.   *)
LEMMA TimePreserved == CallInv /\ [Next]_vars => TimeInv'
  <1> SUFFICES ASSUME CallInv, [Next]_vars PROVE TimeInv'
    OBVIOUS
  <1>1. Charged \in Nat
    BY CallModelAssumption DEF CallModelAssumption, CallInv, TypeOK, Charged
  <1>2. ASSUME attempt' = attempt, requests' = requests PROVE Charged' = Charged
    BY <1>2 DEF Charged
  <1>3. ASSUME attempt' = attempt, requests' = requests + 1 PROVE Charged' = Charged + Timeout
    BY <1>3, CallModelAssumption DEF CallModelAssumption, CallInv, TypeOK, Charged
  <1>4. ASSUME attempt' = attempt + 1, requests' = requests PROVE Charged' = Charged + MaxBackoff
    BY <1>4, CallModelAssumption DEF CallModelAssumption, CallInv, TypeOK, Charged
  <1> USE CallModelAssumption DEF CallModelAssumption, CallInv, TypeOK, TimeInv, clocks
  <1>5. ASSUME UNCHANGED <<attempt, requests, clocks>>, pc' \in {pc, "settled", "top", "returned"}
        PROVE  TimeInv'
    BY <1>1, <1>2, <1>5
  <1>6. ASSUME UNCHANGED <<attempt, elapsed>>, Send PROVE TimeInv'
    BY <1>1, <1>3, <1>6 DEF Send
  <1>7. CASE Begin
    BY <1>5, <1>6, <1>7 DEF Begin, LoopTop, Return
  <1>8. CASE SoftTimeout \/ HardTimeout \/ Abort
    BY <1>5, <1>8 DEF SoftTimeout, HardTimeout, Abort
  <1>9. ASSUME NEW what \in Failures \cup {"text"}, ProviderSettles(what) PROVE TimeInv'
    BY <1>5, <1>9 DEF ProviderSettles
  <1>10. CASE Resend
    BY <1>6, <1>10 DEF Resend
  <1>11. ASSUME NEW ticks \in Backoffs, StartBackoff(ticks) PROVE TimeInv'
    BY <1>1, <1>4, <1>11 DEF StartBackoff
  <1>12. CASE Finish \/ Wake
    BY <1>5, <1>12 DEF Finish, Return, Wake
  <1>13. CASE Tick
    BY <1>1, <1>2, <1>13 DEF Tick
  <1>14. CASE UNCHANGED vars
    BY <1>5, <1>14 DEF vars
  <1> QED
    BY <1>7, <1>8, <1>9, <1>10, <1>11, <1>12, <1>13, <1>14 DEF Next, Done

(* CallInv is an invariant of callModel.                                   *)
THEOREM CallInvCorrect == Spec => []CallInv
  <1>1. CallInv /\ [Next]_vars => CallInv'
    BY TypePreserved, ControlPreserved, TimePreserved DEF CallInv
  <1> QED BY CallInitial, <1>1, PTL DEF Spec

(* callModel sends at most one request, one per retry and one re-send,     *)
(* for every retry limit.                                                  *)
THEOREM RequestsCorrect == Spec => []RequestsBounded
  <1>1. CallInv => RequestsBounded
    BY CallModelAssumption
    DEF CallModelAssumption, CallInv, TypeOK, ControlInv, Extra, RequestsBounded, RequestBudget
  <1> QED BY CallInvCorrect, <1>1, PTL

(* The caller of callModel waits at most RequestBudget timeouts and        *)
(* MaxRetries backoffs, for every value of them.                           *)
THEOREM WaitCorrect == Spec => []WaitBounded
  <1>1. CallInv => WaitBounded
    <2> SUFFICES ASSUME CallInv PROVE WaitBounded
      OBVIOUS
    <2> USE CallModelAssumption DEF CallModelAssumption
    <2>1. requests \in Nat /\ attempt \in Nat /\ elapsed \in Nat /\ elapsed <= Charged
      BY DEF CallInv, TypeOK, TimeInv
    <2>2. requests <= RequestBudget /\ attempt <= MaxRetries
      BY DEF CallInv, TypeOK, ControlInv, Extra, RequestBudget
    <2>3. RequestBudget \in Nat
      BY DEF RequestBudget
    <2>4. requests * Timeout <= RequestBudget * Timeout
      BY <2>1, <2>2, <2>3, TimesMonotone
    <2>5. attempt * MaxBackoff <= MaxRetries * MaxBackoff
      BY <2>1, <2>2, TimesMonotone
    <2>6. \A a, b, c, d \in Nat : a <= b /\ c <= d => a + c <= b + d
      OBVIOUS
    <2>7. /\ requests * Timeout \in Nat /\ RequestBudget * Timeout \in Nat
          /\ attempt * MaxBackoff \in Nat /\ MaxRetries * MaxBackoff \in Nat
      BY <2>1, <2>3
    <2> QED BY <2>1, <2>4, <2>5, <2>6, <2>7 DEF WaitBounded, Charged
  <1> QED BY CallInvCorrect, <1>1, PTL

(* A request of callModel that timed out is never followed by another.     *)
THEOREM TimeoutIsFinalCorrect == Spec => TimeoutIsFinal
  <1>1. CallInv /\ [Next]_vars => [requests' > requests => ~timedOut]_vars
    <2> SUFFICES ASSUME CallInv, Next, requests' > requests PROVE ~timedOut
      OBVIOUS
    <2>1. requests \in Nat
      BY DEF CallInv, TypeOK
    <2>2. requests' # requests
      BY <2>1
    <2>3. CASE Begin
      BY <2>3 DEF Begin, CallInv, ControlInv
    <2>4. CASE Resend
      BY <2>4, Zenon DEF Resend, TimedOut, CallInv
    <2>5. Begin \/ Resend
      BY <2>2 DEF Next, SoftTimeout, HardTimeout, Abort, ProviderSettles, StartBackoff,
                  Finish, Wake, Tick, Done, vars
    <2> QED BY <2>3, <2>4, <2>5
  <1> QED BY CallInvCorrect, <1>1, PTL DEF Spec, TimeoutIsFinal

(* callModel implements ModelCall under the mapping Decided: initially,    *)
(* and in every step of every action.                                      *)
THEOREM KeepsPromiseCorrect == Spec => KeepsPromise
  <1>1. Init => Promise!Init
    BY DEF Init, Promise!Init, Decided
  <1>2. CallInv /\ [Next]_vars => [Promise!Next]_(Promise!modelCallVars)
    <2> SUFFICES ASSUME CallInv, [Next]_vars
                 PROVE  Promise!Next \/ UNCHANGED <<aborted, requests, Decided>>
      BY DEF Promise!modelCallVars
    <2> USE CallModelAssumption
        DEF CallModelAssumption, CallInv, TypeOK, ControlInv, Failures, clocks, Decided
    <2>1. CASE Begin
      <3>1. CASE aborted
        <4>1. Promise!Settle("CANCELLED")
          BY <2>1, <3>1 DEF Begin, LoopTop, Return, Promise!Settle
        <4> QED BY <4>1 DEF Promise!Next, Promise!Outcomes
      <3>2. CASE ~aborted
        <4>1. Promise!Request
          BY <2>1, <3>2 DEF Begin, LoopTop, Send, Promise!Request, Extra, RequestBudget
        <4> QED BY <4>1 DEF Promise!Next
      <3> QED BY <3>1, <3>2
    <2>2. CASE SoftTimeout
      BY <2>2 DEF SoftTimeout
    <2>3. CASE HardTimeout
      <3>1. Promise!Settle("LLM_TIMEOUT")
        BY <2>3 DEF HardTimeout, Promise!Settle
      <3> QED BY <3>1 DEF Promise!Next, Promise!Outcomes
    <2>4. CASE Abort
      <3>1. Promise!Cancel
        BY <2>4 DEF Abort, Promise!Cancel
      <3> QED BY <3>1 DEF Promise!Next
    <2>5. ASSUME NEW what \in Failures \cup {"text"}, ProviderSettles(what)
          PROVE  Promise!Next \/ UNCHANGED <<aborted, requests, Decided>>
      <3>1. CASE what = "text"
        <4>1. Promise!Settle("text")
          BY <2>5, <3>1 DEF ProviderSettles, Promise!Settle
        <4> QED BY <4>1 DEF Promise!Next, Promise!Outcomes
      <3>2. CASE what # "text"
        BY <2>5, <3>2 DEF ProviderSettles
      <3> QED BY <3>1, <3>2
    <2>6. CASE Resend
      <3>1. Promise!Request
        BY <2>6 DEF Resend, Resumes, Send, Promise!Request, Extra, RequestBudget
      <3> QED BY <3>1 DEF Promise!Next
    <2>7. ASSUME NEW ticks \in Backoffs, StartBackoff(ticks)
          PROVE  Promise!Next \/ UNCHANGED <<aborted, requests, Decided>>
      BY <2>7 DEF StartBackoff, Resumes, CanRetry
    <2>8. CASE Finish
      <3>1. CASE first \in {"text", "hard"}
        BY <2>8, <3>1 DEF Finish, Resumes, Return, TimedOut, Classify
      <3>2. CASE first \notin {"text", "hard"}
        <4>1. \E o \in Promise!Outcomes : Promise!Settle(o)
          <5>1. CASE TimedOut
            <6>1. Promise!Settle("LLM_TIMEOUT")
              BY <2>8, <3>2, <5>1 DEF Finish, Resumes, Return, TimedOut, Promise!Settle
            <6> QED BY <6>1 DEF Promise!Outcomes
          <5>2. CASE ~TimedOut
            <6>1. /\ Classify(first) \in Promise!Outcomes
                  /\ aborted => Classify(first) \in {"CANCELLED", "own"}
                  /\ ~aborted => Classify(first) # "CANCELLED"
              BY <2>8, <3>2 DEF Finish, Resumes, Classify, Promise!Outcomes
            <6>2. Promise!Settle(Classify(first))
              BY <2>8, <3>2, <5>2, <6>1 DEF Finish, Resumes, Return, Promise!Settle
            <6> QED BY <6>1, <6>2
          <5> QED BY <5>1, <5>2
        <4> QED BY <4>1 DEF Promise!Next
      <3> QED BY <3>1, <3>2
    <2>9. CASE Wake
      BY <2>9 DEF Wake
    <2>10. CASE Tick
      BY <2>10 DEF Tick
    <2>11. CASE UNCHANGED vars
      BY <2>11 DEF vars
    <2> QED
      BY <2>1, <2>2, <2>3, <2>4, <2>5, <2>6, <2>7, <2>8, <2>9, <2>10, <2>11 DEF Next, Done
  <1> QED BY CallInvCorrect, <1>1, <1>2, PTL DEF Spec, KeepsPromise, Promise!Spec
=============================================================================
