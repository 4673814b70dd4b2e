------------------------------- MODULE Bridge -------------------------------
(***************************************************************************)
(* The HTTP side of the bridge, apps/bridge/src/http.ts and index.ts, over  *)
(* the Relay: what tabs request, from the routing to the status they get,   *)
(* and the shutdown.  Files of the built interface are read without a trace *)
(* in the state, so a static request is answered or refused in one step.    *)
(***************************************************************************)
EXTENDS Relay

CONSTANT Shapes           \* what each request may be

VARIABLES stage,          \* per request: "none", "operation" or "bytes" while the
                          \* body is read, "relay", "stream", "answered"
          reply,          \* its HTTP status
          phase,          \* "serving", "closingRelay", "closingListener", "closed"
          lastClient,     \* the link whose close() the shutdown awaits
          met             \* history: raw writes that were under way with another

frontVars == <<stage, reply, phase, lastClient>>
codeVars == <<relayVars, frontVars>>
bridgeVars == <<codeVars, met>>

\* The routes, with the one method each takes.
Method == [events |-> "GET", status |-> "GET", connect |-> "POST", disconnect |-> "POST",
           request |-> "POST", raw |-> "POST"]
Pages == {"page", "escape", "unknownRoute"}
AllShapes == [own : BOOLEAN, method : {"GET", "POST"}, path : DOMAIN Method \cup Pages]

ASSUME BridgeAssumption == Shapes \in [Calls -> SUBSET AllShapes]

BridgeInit ==
  /\ RelayInit
  /\ stage = [r \in Calls |-> "none"] /\ reply = [r \in Calls |-> 0]
  /\ phase = "serving" /\ lastClient = NoLink
  /\ met = {}

Listening == phase \in {"serving", "closingRelay"}

\* What handle() refuses without looking further, else 0.
Refusal(s) ==
  IF ~s.own THEN 403
  ELSE IF s.path \in DOMAIN Method THEN IF s.method = Method[s.path] THEN 0 ELSE 405
  ELSE IF s.path = "unknownRoute" THEN 404 ELSE 0

\* The request is answered with a status.
Reply(r, status) ==
  /\ stage' = [stage EXCEPT ![r] = "answered"]
  /\ reply' = [reply EXCEPT ![r] = status]

Enter(r, at) == stage' = [stage EXCEPT ![r] = at] /\ UNCHANGED reply

\* serveStatic: a file, the entry document, or nothing built.
Page(s) == IF s.path = "escape" THEN {403} ELSE {200, 404}

-----------------------------------------------------------------------------

\* A request that no component hears of.
Answered(r, s) ==
  /\ \/ Refusal(s) # 0 /\ Reply(r, Refusal(s))
     \/ Refusal(s) = 0 /\ s.path = "status" /\ Reply(r, 200)
     \/ Refusal(s) = 0 /\ s.path \in Pages /\ \E status \in Page(s) : Reply(r, status)
  /\ UNCHANGED relayVars

\* Mutant of Subscribe: a stream also when the hub is closed.
SubscribeAlways(r) ==
  /\ Enter(r, "stream")
  /\ UNCHANGED relayVars

\* hub.subscribe: a stream that stays, or 503 once the hub is closed.
Subscribe(r) ==
  /\ IF phase = "serving" THEN Enter(r, "stream") ELSE Reply(r, 503)
  /\ UNCHANGED relayVars

\* A request arrives and is handled up to its first wait.
Arrive(r, s) ==
  /\ Listening /\ stage[r] = "none"
  /\ \/ Answered(r, s)
     \/ Refusal(s) = 0 /\ s.path = "events" /\ Subscribe(r)
     \/ Refusal(s) = 0 /\ s.path = "connect" /\ Begin(r, "connect") /\ Enter(r, "relay")
     \/ Refusal(s) = 0 /\ s.path = "disconnect" /\ Disconnect(r) /\ Enter(r, "relay")
     \/ /\ Refusal(s) = 0 /\ s.path \in {"request", "raw"}
        /\ Enter(r, IF s.path = "request" THEN "operation" ELSE "bytes")
        /\ UNCHANGED relayVars
  /\ UNCHANGED <<phase, lastClient>>

\* readJsonBody and the check of its field: the request is relayed, or refused.
\* 400 stands for 413 too, when it is too large, and for a body that is cut off.
BodyRead(r) ==
  /\ stage[r] \in {"operation", "bytes"}
  /\ \/ Begin(r, IF stage[r] = "operation" THEN "send" ELSE "raw") /\ Enter(r, "relay")
     \/ Reply(r, 400) /\ UNCHANGED relayVars
  /\ UNCHANGED <<phase, lastClient>>

\* The tab goes away and its stream is closed.
TabCloses(r) ==
  /\ stage[r] = "stream"
  /\ Reply(r, 200)
  /\ UNCHANGED <<phase, lastClient>> /\ UNCHANGED relayVars

\* What the relay came to with a request.
Outcome == [done |-> 200, answered |-> 200, viewLost |-> 502, timeout |-> 502,
            closed |-> 502, connectFailed |-> 502]

Answer(r) ==
  /\ stage[r] = "relay" /\ call[r].at \in DOMAIN Outcome
  /\ Reply(r, Outcome[call[r].at])
  /\ UNCHANGED <<phase, lastClient>> /\ UNCHANGED relayVars

-----------------------------------------------------------------------------
(* RunningBridge.close                                                      *)

\* hub.close() ends the streams and relay.close() lets the client go: an
\* attempt under way is not stopped.
CloseBridge ==
  /\ phase = "serving" /\ phase' = "closingRelay"
  /\ stage' = [r \in Calls |-> IF stage[r] = "stream" THEN "answered" ELSE stage[r]]
  /\ reply' = [r \in Calls |-> IF stage[r] = "stream" THEN 200 ELSE reply[r]]
  /\ lastClient' = client
  /\ LetGo
  /\ UNCHANGED <<connecting, queue, rawWriteInProgress, poisoned, call, timeline, published>>

\* server.close(): nothing arrives from here on.
RelayClosed ==
  /\ phase = "closingRelay"
  /\ lastClient # NoLink => link[lastClient] = "closed"
  /\ phase' = "closingListener"
  /\ UNCHANGED <<stage, reply, lastClient>> /\ UNCHANGED relayVars

\* Its callback waits for every response to end.
ListenerClosed ==
  /\ phase = "closingListener" /\ \A r \in Calls : stage[r] \in {"none", "answered"}
  /\ phase' = "closed"
  /\ UNCHANGED <<stage, reply, lastClient>> /\ UNCHANGED relayVars

-----------------------------------------------------------------------------

\* The raw writes under way, if there is more than one: sendRaw() of the relay
\* from raising the flag to lowering it.
RawUnderWay == {c \in Calls : call[c].op = "raw" /\ call[c].at \in {"writing", "resuming"}}
Together == IF \E c, d \in RawUnderWay : c # d THEN RawUnderWay ELSE {}

Step ==
  \/ \E r \in Calls : \/ \E s \in Shapes[r] : Arrive(r, s)
                      \/ BodyRead(r) \/ TabCloses(r) \/ Answer(r)
  \/ RelayStep /\ UNCHANGED frontVars
  \/ CloseBridge \/ RelayClosed \/ ListenerClosed

Next == Step /\ met' = met \cup Together'

Spec == BridgeInit /\ [][Next]_bridgeVars

\* Attempts have a timer, a request has one, close() forces the end after one,
\* a destroyed socket calls back its writes and emits "close", and what is
\* written is read by the control server.  Bodies come and callbacks run.
FairSpec ==
  /\ Spec
  /\ \A r \in Calls : /\ WF_codeVars(BodyRead(r)) /\ WF_codeVars(Answer(r))
                      /\ WF_codeVars(RawResumes(r) /\ UNCHANGED frontVars)
                      /\ WF_codeVars((Response(r) \/ Timeout(r)) /\ UNCHANGED frontVars)
  /\ \A k \in Links : /\ WF_codeVars((Opened(k) \/ OpenFails(k)) /\ UNCHANGED frontVars)
                      /\ WF_codeVars(WriteDone(k) /\ UNCHANGED frontVars)
                      /\ WF_codeVars((LinkLost(k) \/ LinkEnded(k)) /\ UNCHANGED frontVars)
  /\ WF_codeVars(RelayClosed) /\ WF_codeVars(ListenerClosed)

-----------------------------------------------------------------------------
(* Properties.                                                              *)

\* Every variable has its type.
TypeOK ==
  /\ link \in [Links -> {"none", "connecting", "open", "dying", "ending", "closed"}]
  /\ {client, connecting, watched, lastClient} \subseteq Links \cup {NoLink}
  /\ queue \in [Links -> Seq(Calls)]
  /\ {rawWriteInProgress, poisoned, published} \subseteq BOOLEAN
  /\ views \subseteq Calls
  /\ call \in [Calls -> [op : {"none", "connect", "disconnect", "send", "raw"},
                         at : {"idle", "joining", "writing", "waiting", "resuming", "ending"}
                                \cup DOMAIN Outcome,
                         link : Links \cup {NoLink}]]
  /\ timeline \in [Calls -> Seq({"out", "in", "raw"})]
  /\ stage \in [Calls -> {"none", "operation", "bytes", "relay", "stream", "answered"}]
  /\ reply \in [Calls -> {0, 200, 400, 403, 404, 405, 502, 503}]
  /\ phase \in {"serving", "closingRelay", "closingListener", "closed"}
  /\ met \subseteq Calls

\* "Two browser tabs pressing Connect at the same moment must not open two
\* sockets" (relay.ts:140), nor does a request that connects on demand.
OneSocket == Cardinality({k \in Links : link[k] \in {"connecting", "open"}}) <= 1

\* A view that is kept belongs to a request written on the connection there
\* is: none is left behind by one that was lost or let go (sentViews).
ViewsBelongToTheClient ==
  \A c \in views : client # NoLink /\ call[c].link = client

\* An answered request finds its view, "unreachable in practice" it says of the
\* contrary (relay.ts:273), as long as no tab sends raw bytes or disconnects
\* and the bridge is not closed: connections may be lost and opened again.
ViewsAreFound ==
  (phase = "serving" /\ \A c \in Calls : call[c].op \notin {"raw", "disconnect"})
    => \A c \in Calls : call[c].at # "viewLost"

\* "Deliberately malformed bytes must not reach the sent decoder" (relay.ts:96).
\* Those that reach it belong to a write that was under way together with
\* another raw one: the first of two to resume lowers the flag of both
\* (relay.ts:305).  However often raw bytes are sent one after the other, and
\* whatever else is written meanwhile, the decoder goes on framing.
RawIsKeptApart ==
  [][ (poisoned' /\ ~poisoned) =>
        \E c \in met : call[c].at = "writing" /\ call'[c].at = "resuming" ]_bridgeVars

\* The tabs were last told what is true, but for a connection that has died
\* or been let go and whose end is yet to be heard, while the hub is open
\* (publishStatus).
TabsKnowTheState ==
  \/ phase # "serving"
  \/ published = Connected(client)
  \/ \E k \in Links : link[k] \in {"dying", "ending"}

\* No response stands in the timeline before its request, and neither stands
\* there twice (openConnection, send).
RequestsComeFirst ==
  \A c \in Calls : timeline[c] \in {<<>>, <<"raw">>, <<"out">>, <<"in">>, <<"out", "in">>}

\* Once close() has returned nothing is under way.  What the shutdown had not
\* to wait for, a connection that came up after it had let the client go, is
\* the only one that may be open (RunningBridge.close, Relay.close).
ClosedIsQuiet ==
  phase = "closed" =>
    /\ connecting = NoLink
    /\ \A c \in Calls : call[c].at \in {"idle"} \cup DOMAIN Outcome
    /\ \A k \in Links : link[k] \in {"open", "dying", "ending"} => k > lastClient

\* Every request is answered and close() returns, whatever is in flight, with
\* streams open and connections lost (handle, close).
EverythingEnds ==
  /\ \A r \in Calls : stage[r] \in {"operation", "bytes", "relay"} ~> stage[r] = "answered"
  /\ phase = "closingRelay" ~> phase = "closed"

\* There is one connection, and none that nobody looks after.
ConnectionsAreSound ==
  /\ TypeOK
  /\ OneSocket
  /\ ClosedIsQuiet

\* The views of the requests written are those of the client's connection, and
\* a response finds its own.
ViewsAreSound ==
  /\ ViewsBelongToTheClient
  /\ ViewsAreFound

\* What the tabs are shown, the state and the frames, is so and in order.
TabsAreToldTheTruth ==
  /\ TabsKnowTheState
  /\ RequestsComeFirst
=============================================================================
