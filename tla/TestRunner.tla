----------------------------- MODULE TestRunner -----------------------------
(***************************************************************************)
(* packages/core/src/test-runner.ts: one scenario, run on a connection of   *)
(* its own against a mock endpoint or against another local service, which  *)
(* may answer anything at any time.  The response, the timeout, the end of  *)
(* either side and a framing fault race for the one result.                 *)
(***************************************************************************)
EXTENDS MockEndpoint, Scenarios

CONSTANTS Runner,         \* the connection of the runner
          Transmissions,  \* scenarios that may be run
          Expectations    \* what they may expect: it is looked at only when
                          \* an exchange is over, so each of them is judged

\* A scenario: the messages its writes make up, how they are cut, the unit
\* disconnectAfterBytes stops at, whether its target is permitted, and
\* whether that is the mock endpoint, with other clients or without.
Scenario == [messages : Seq(Kinds) \ {<<>>}, mode : Modes, sizes : Seq(Nat \ {0}), count : Nat,
             pause : BOOLEAN, abort : Nat,
             permitted : BOOLEAN, mock : BOOLEAN, company : BOOLEAN]

ASSUME RunnerAssumption ==
  /\ Runner \in Conns
  /\ Transmissions \subseteq {t \in Scenario : ValidTransmission(t)}
  /\ Expectations \subseteq Expectation(1 .. Len(Edits))

NoAbort == 99

VARIABLES scenario,       \* the scenario
          phase,          \* "connecting", "open", "aborted" (destroyed by the
                          \* runner, no close event yet), "settled"
          writer,         \* the loop over the chunks: "ready" for the next, "paused"
                          \* before it, "writing" it, or "done"
          up,             \* units handed to the kernel
          segments,       \* the reads and writes recorded, in order
          got,            \* units of wire[Runner] read
          fault,          \* frameErrorMessage is set
          result          \* <<>>, then the one result

runVars == <<scenario, phase, writer, up, segments, got, fault, result>>
vars == <<mockVars, runVars>>

Total(t) == Units * Len(t.messages)

\* planWrites()
PlanWrites(t) ==
  CASE t.mode # "fragmented" -> {Total(t)}
    [] t.mode = "fragmented" /\ t.sizes # <<>> -> SplitBuffer(Total(t), t.sizes)
    [] OTHER -> SplitIntoParts(Total(t), t.count)

ExpectedResponses(t) == IF t.mode = "coalesced" /\ Len(t.messages) = 2 THEN 2 ELSE 1

\* A target that is not permitted is never connected to.
RunnerInit ==
  /\ scenario \in Transmissions
  /\ phase = IF scenario.permitted THEN "connecting" ELSE "settled"
  /\ writer = "ready"
  /\ up = 0 /\ segments = <<>> /\ got = 0 /\ fault = FALSE
  /\ result = IF scenario.permitted THEN <<>>
              ELSE << [response |-> <<>>, timedOut |-> FALSE, disconnected |-> FALSE,
                       error |-> TRUE, why |-> "refused", responses |-> 0,
                       sentSegments |-> 0] >>

Init == MockInit /\ RunnerInit

\* Where the responses end that the decoder reports of the first n units.  A
\* fault is one unit that it reports as an error, "fatal" if it ends the
\* decoding: nothing after it is a response.
FatalIn(n) == \E k \in 1 .. n : wire[Runner][k].code = "fatal"
CompleteIn(n) ==
  {k \in 1 .. n : /\ wire[Runner][k].part = Units /\ wire[Runner][k].code # "fault"
                  /\ ~FatalIn(k)}
SentCount(s) == Cardinality({k \in DOMAIN s : s[k] = "sent"})

\* What finish() reports of the n units read.
Observed(why, n, error) ==
  LET responses == CompleteIn(n)
      count == Cardinality(responses)
  IN [response |-> IF responses = {} THEN <<>> ELSE <<wire[Runner][Min(responses)]>>,
      timedOut |-> why = "timeout" /\ responses = {},
      disconnected |-> why = "close" /\ count < ExpectedResponses(scenario),
      error |-> error, why |-> why, responses |-> count,
      sentSegments |-> SentCount(segments)]

\* Mutant of Finish: settled is set by the caller that waits.
FinishAgain(why, n, error) ==
  /\ phase' = IF writer = "writing" THEN phase ELSE "settled"
  /\ result' = <<Observed(why, n, error)>>

\* finish(): the first to call it makes the result.
Finish(why, n, error) ==
  /\ result = <<>>
  /\ phase' = "settled"
  /\ result' = <<Observed(why, n, error)>>

-----------------------------------------------------------------------------
(* The connection and the timer.                                            *)

\* The endpoint listens, or the other service does.
Connect ==
  /\ phase = "connecting"
  /\ Accept(Runner)
  /\ phase' = "open"
  /\ UNCHANGED <<scenario, writer, up, segments, got, fault, result>>

ConnectFails ==
  /\ phase = "connecting"
  /\ listener # "up" \/ ~scenario.mock
  /\ Finish("failure", 0, TRUE)
  /\ UNCHANGED <<mockVars, scenario, writer, up, segments, got, fault>>

\* Mutant of Timeout: an exchange that heard something is not ended.
TimeoutOfSilence ==
  /\ phase # "settled" /\ CompleteIn(got) = {}
  /\ Finish("timeout", got, fault)
  /\ UNCHANGED <<mockVars, scenario, writer, up, segments, got, fault>>

\* The timer, armed until the exchange is settled.
Timeout ==
  /\ phase # "settled"
  /\ Finish("timeout", got, fault)
  /\ UNCHANGED <<mockVars, scenario, writer, up, segments, got, fault>>

\* The data handler: any amount of what has been written arrives; a fatal
\* fault ends the reading, enough responses end the exchange.
Data(n) ==
  LET responses == CompleteIn(n) IN
  /\ phase = "open" /\ n \in got + 1 .. Len(wire[Runner])
  /\ got' = n
  /\ fault' = \E k \in 1 .. n : wire[Runner][k].code \in {"fault", "fatal"}
  /\ IF FatalIn(n) \/ Cardinality(responses) >= ExpectedResponses(scenario)
       THEN Finish(IF FatalIn(n) THEN "fatal" ELSE "enough", n, fault')
       ELSE UNCHANGED <<phase, result>>
  /\ segments' = Append(segments, "received")
  /\ UNCHANGED <<mockVars, scenario, writer, up>>

\* The close event after everything was read: the peer has ended, or the
\* runner has destroyed its socket.  Half a response is a fault then.
CloseEvent ==
  /\ \/ /\ phase = "open" /\ got = Len(wire[Runner]) /\ writer # "writing"
        /\ sock[Runner] \in {"ended", "destroyed", "closed"}
     \/ phase = "aborted" /\ writer # "writing"
  /\ fault' = (fault \/ got % Units # 0)
  /\ Finish("close", got, fault' \/ phase = "aborted")
  /\ UNCHANGED <<mockVars, scenario, writer, up, segments, got>>

\* A peer that is gone resets the connection, and what it wrote may be
\* lost; or a write fails after its end.
SocketError ==
  /\ phase = "open"
  /\ \/ sock[Runner] \in {"destroyed", "closed"}
     \/ sock[Runner] = "ended" /\ got = Len(wire[Runner]) /\ writer = "writing"
  /\ Finish("failure", got, TRUE)
  /\ UNCHANGED <<mockVars, scenario, writer, up, segments, got, fault>>

-----------------------------------------------------------------------------
(* The loop that writes the chunks.                                         *)

\* The next chunk, cut by disconnectAfterBytes; or the abort it asks for.
PutChunk ==
  IF scenario.abort <= up
    THEN /\ phase' = "aborted"
         /\ writer' = "done"
         /\ UNCHANGED up
    ELSE \E end \in NextEnd(PlanWrites(scenario), up) :
           /\ up' = IF scenario.abort < end THEN scenario.abort ELSE end
           /\ writer' = "writing"
           /\ UNCHANGED phase

WriteChunk ==
  /\ phase = "open" /\ writer = "ready"
  /\ IF up > 0 /\ scenario.pause
       THEN writer' = "paused" /\ UNCHANGED <<phase, up>>
       ELSE PutChunk
  /\ UNCHANGED <<mockVars, scenario, segments, got, fault, result>>

PauseEnds ==
  /\ writer = "paused"
  /\ IF phase = "open"
       THEN PutChunk
       ELSE writer' = "done" /\ UNCHANGED <<phase, up>>
  /\ UNCHANGED <<mockVars, scenario, segments, got, fault, result>>

\* The callback of a write.  What was written is recorded whether or not the
\* exchange is settled meanwhile.
ChunkWritten ==
  /\ writer = "writing"
  /\ segments' = Append(segments, "sent")
  /\ LET last == NextEnd(PlanWrites(scenario), up) = {}
         abort == up >= scenario.abort
     IN /\ writer' = IF last \/ abort \/ phase = "settled" THEN "done" ELSE "ready"
        /\ phase' = IF abort /\ phase = "open" THEN "aborted" ELSE phase
  /\ UNCHANGED <<mockVars, scenario, up, got, fault, result>>

-----------------------------------------------------------------------------
(* What the peer sees of the runner.                                        *)

\* The next message is complete at the peer.
Arrives ==
  /\ scenario.mock
  /\ LET id == Len(items[Runner]) + 1 IN
       /\ id <= Len(scenario.messages) /\ up >= id * Units
       /\ Receive(Runner, scenario.messages[id])
  /\ UNCHANGED runVars

\* The end of the runner arrives, after what it sent, or as a reset.
RunnerGone ==
  /\ phase \in {"aborted", "settled"}
  /\ \/ PeerEnds(Runner) /\ (up < (Len(items[Runner]) + 1) * Units \/ poisoned[Runner])
     \/ PeerResets(Runner)
  /\ UNCHANGED runVars

\* Another service answers what it likes, complete or not, or ends.
StrangerWrites(code, n) ==
  /\ ~scenario.mock /\ sock[Runner] = "open" /\ Len(wire[Runner]) % Units = 0
  /\ Len(wire[Runner]) < Units * MaxItems[Runner]
  /\ wire' = [wire EXCEPT ![Runner] = @ \o
                [k \in 1 .. n |-> [to |-> 1 + Len(@) \div Units, part |-> k,
                                   code |-> code, edition |-> 0]]]
  /\ UNCHANGED <<listener, sock, items, poisoned, chain, edition, hits, runVars>>

StrangerEnds ==
  /\ ~scenario.mock
  /\ sock[Runner] = "open" /\ (SockBecomes(Runner, "ended") \/ SockBecomes(Runner, "destroyed"))
  /\ UNCHANGED runVars

\* Other clients of the endpoint.
OtherClient(c) ==
  /\ scenario.mock /\ scenario.company
  /\ \/ Accept(c) \/ PeerEnds(c) \/ PeerResets(c)
     \/ Receive(c, "request")
  /\ UNCHANGED runVars

RunnerStep ==
  \/ Connect \/ ConnectFails \/ Timeout \/ CloseEvent \/ SocketError
  \/ \E n \in 1 .. Len(wire[Runner]) : Data(n)
  \/ WriteChunk \/ PauseEnds \/ ChunkWritten

Next ==
  \/ RunnerStep
  \/ Arrives \/ RunnerGone
  \/ \E code \in {"other", "fault", "fatal"}, n \in 1 .. Units : StrangerWrites(code, n)
  \/ StrangerEnds
  \/ \E c \in Conns \ {Runner} : OtherClient(c)
  \/ /\ \/ \E c \in Conns : MockStep(c) \/ EndCompletes(c) \/ OnClose(c)
        \/ scenario.mock /\ (EditRule \/ CloseEndpoint \/ ListenerClosed)
     /\ UNCHANGED runVars

Spec == Init /\ [][Next]_vars

\* Timers fire, promise chains and callbacks run, and a destroyed socket
\* emits its close event.  Peers that read let writes be called back.
FairSpec ==
  /\ Spec
  /\ WF_vars(Timeout) /\ WF_vars(ChunkWritten)
  /\ WF_vars(phase = "aborted" /\ CloseEvent)
  /\ WF_vars(ListenerClosed /\ UNCHANGED runVars)
  /\ \A c \in Conns : /\ WF_vars(OnClose(c) /\ UNCHANGED runVars)
                      /\ WF_vars(MockStep(c) /\ UNCHANGED runVars)

-----------------------------------------------------------------------------
(* Properties.                                                              *)

\* Every variable has its type.
TypeOK ==
  /\ MockTypeOK
  /\ scenario \in Transmissions
  /\ phase \in {"connecting", "open", "aborted", "settled"}
  /\ writer \in {"ready", "writing", "paused", "done"}
  /\ up \in 0 .. Total(scenario) /\ got \in 0 .. Len(wire[Runner])
  /\ segments \in Seq({"sent", "received"}) /\ fault \in BOOLEAN
  /\ (result = <<>>) = (phase # "settled")

Passes(e) == result # <<>> /\ EvaluateExchange(e, result[1]) = "passed"

\* A verdict "passed" is earned, whatever came first.  A scenario that
\* expects a timeout read no whole response before its timer fired; one that
\* expects a disconnect read too few before the connection was closed; any
\* other read a response of the target that is complete, is the one to its
\* first message and has the expected content (runScenario, performExchange,
\* evaluateExchange).
PassIsEarned ==
  \A e \in Expectations : (ValidExpectation(e) /\ Passes(e)) =>
    LET r == result[1]
        whole == CompleteIn(got)
        first == wire[Runner][Min(whole)]
    IN CASE e.timeout -> r.why = "timeout" /\ whole = {}
         [] e.disconnect -> /\ r.why = "close"
                            /\ Cardinality(whole) < ExpectedResponses(scenario)
         [] OTHER -> /\ whole # {} /\ r.response = <<first>>
                     /\ e.statusCode \in {"any", first.code}
                     /\ scenario.mock => first.to = 1
                     /\ \A f \in DOMAIN e.content : e.content[f] = first.edition

\* A coalesced scenario that did not hear both responses passes on the first
\* alone only when a timeout, a fault or an error of the socket ended it,
\* never when the connection was closed (finish).
ShortPassIsNoDisconnect ==
  \A e \in Expectations :
    (ValidExpectation(e) /\ Passes(e) /\ ~e.timeout /\ ~e.disconnect
       /\ result[1].responses < ExpectedResponses(scenario))
      => result[1].why \in {"timeout", "fatal", "failure"}

\* The result is made once.  Afterwards nothing is read, and of all writes at
\* most the one that was waiting is still recorded (finish, settled).
ResultIsFinal ==
  [][result # <<>> =>
       /\ result' = result /\ got' = got /\ up' = up
       /\ segments' # segments =>
            /\ segments' = Append(segments, "sent")
            /\ SentCount(segments) = result[1].sentSegments]_vars

\* A scenario that asks to be cut off stops exactly there, however its chunks
\* are cut, and any other has sent its whole payload when its loop ends
\* before the result (planWrites, the connect handler).
WritesThePayload ==
  /\ up <= scenario.abort
  /\ phase = "aborted" => up = scenario.abort
  /\ (phase = "open" /\ writer = "done") => up = Total(scenario)
  /\ writer \in {"ready", "paused"} => up < Total(scenario)

\* Every run ends with a result, whatever its target does, and so does the
\* closing of the endpoint (the timer of performExchange, close).
RunsEnd ==
  /\ <>(phase = "settled")
  /\ listener = "closing" ~> listener = "down"

\* What the endpoint has received is answered in the end, unless the
\* connection ends first (the chain of handleConnection).
AnswersCome ==
  \A c \in Conns : chain[c] # <<>> ~> (chain[c] = <<>> \/ sock[c] # "open")

\* What the mock endpoint writes is in order, counted as hits, and ends with the
\* response that asks for the end, also when the rule changes in between, the
\* connection ends or other clients come.
AnswersAreSound ==
  /\ TypeOK
  /\ AnswersInOrder
  /\ NothingAfterTheLast
  /\ HitsCoverAnswers

\* Of all that races for the verdict - the responses, the timer, the close, an
\* error - what came first decides, and "passed" is said only of what was read.
PassesAreEarned ==
  /\ PassIsEarned
  /\ ShortPassIsNoDisconnect

\* No scenario, no answer and no closing endpoint is left waiting.
EveryExchangeEnds ==
  /\ RunsEnd
  /\ AnswersCome
=============================================================================
