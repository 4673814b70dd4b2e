---------------------------- MODULE BridgeProofs ----------------------------
(***************************************************************************)
(* Theorems about Bridge and the Relay below it, for any calls, routes and  *)
(* number of connection attempts.  The invariant is a conjunction of what   *)
(* holds of the connections, of the calls, of the writes under way, of the  *)
(* views and of the timelines; each is shown to be kept from all of them.   *)
(* What holds of raw bytes follows by itself from the rest.                 *)
(***************************************************************************)
EXTENDS Bridge, FiniteSetTheorems, SequenceTheorems, TLAPS

\* The client is the one connection that is open or dying, the attempt the one
\* link that is connecting; attempts are made one after another, and a link is
\* younger than those it replaces.
LinksAreSound ==
  /\ watched = client
  /\ \A k \in Links : link[k] \in {"open", "dying"} <=> k = client
  /\ \A k \in Links : link[k] = "connecting" <=> k = connecting
  /\ connecting # NoLink => \A k \in Links : link[k] # "open"
  /\ \A j, k \in Links : j < k /\ link[j] = "none" => link[k] = "none"
  /\ connecting # NoLink => client < connecting /\ lastClient < connecting
  /\ client # NoLink => lastClient < client

\* What the shutdown waits for.
ShutdownIsSound ==
  /\ phase = "serving" => lastClient = NoLink
  /\ lastClient # NoLink => link[lastClient] \in {"ending", "closed"}
  /\ phase \in {"closingListener", "closed"} /\ lastClient # NoLink =>
       link[lastClient] = "closed"
  /\ phase = "closed" => \A r \in Calls : stage[r] \in {"none", "answered"}

\* Where a call is, and the link it is there for.
Busy == {"joining", "writing", "waiting", "resuming", "ending"}

CallIsSound(c) ==
  /\ call[c].at = "idle" => call[c].op = "none"
  /\ call[c].at = "joining" =>
       /\ call[c].op \in {"connect", "send", "raw"}
       /\ connecting # NoLink /\ call[c].link = connecting
  /\ call[c].at = "writing" => call[c].op \in {"send", "raw"} /\ call[c].link \in Links
  /\ call[c].at = "waiting" =>
       /\ call[c].op = "send" /\ call[c].link \in Links
       /\ link[call[c].link] \in {"open", "dying", "ending"}
  /\ call[c].at = "resuming" => call[c].op = "raw"
  /\ call[c].at = "ending" =>
       /\ call[c].op = "disconnect" /\ call[c].link \in Links
       /\ link[call[c].link] = "ending"
  /\ call[c].at \in Busy => stage[c] = "relay"

\* An attempt has someone who waits for it, and so has a connection let go.
CallsAreSound ==
  /\ \A c \in Calls : CallIsSound(c)
  /\ connecting # NoLink => \E c \in Calls : call[c].at = "joining"
  /\ \A k \in Links : link[k] = "ending" =>
       k = lastClient \/ \E c \in Calls : call[c].at = "ending" /\ call[c].link = k

\* What a link has to write is written there, once, while it is not closed.
QueueIsSound(k) ==
  /\ queue[k] # <<>> => link[k] \in {"open", "dying", "ending"}
  /\ \A i \in 1 .. Len(queue[k]) : /\ call[queue[k][i]].at = "writing"
                                   /\ call[queue[k][i]].link = k
  /\ \A i, j \in 1 .. Len(queue[k]) : i # j => queue[k][i] # queue[k][j]

\* ViewsAreFound, with what the next response relies on.
Undisturbed == phase = "serving" /\ \A c \in Calls : call[c].op \notin {"raw", "disconnect"}

ViewsAreKept ==
  /\ \A c \in views : /\ client # NoLink /\ call[c].link = client
                      /\ call[c].at # "idle"
  /\ Undisturbed =>
       /\ ~poisoned /\ ~rawWriteInProgress
       /\ \A k \in Links : link[k] # "ending"
       /\ \A c \in Calls : /\ call[c].at # "viewLost"
                           /\ call[c].at = "waiting" => c \in views

TimelineIsSound(c) ==
  /\ timeline[c] \in {<<>>, <<"raw">>, <<"out">>, <<"in">>, <<"out", "in">>}
  /\ call[c].at \in {"idle", "joining", "writing", "resuming"} => timeline[c] = <<>>
  /\ call[c].at = "waiting" => timeline[c] \in {<<>>, <<"out">>}

LinkStates == {"none", "connecting", "open", "dying", "ending", "closed"}
Outcomes == {"done", "answered", "viewLost", "timeout", "closed", "connectFailed"}
CallRec == [op : {"none", "connect", "disconnect", "send", "raw"},
            at : {"idle"} \cup Busy \cup Outcomes,
            link : Links \cup {NoLink}]

\* The types of the variables of the code, those of the relay and of the front.
RelayTypes ==
  /\ link \in [Links -> LinkStates]
  /\ client \in Links \cup {NoLink} /\ connecting \in Links \cup {NoLink}
  /\ watched \in Links \cup {NoLink}
  /\ queue \in [Links -> Seq(Calls)]
  /\ rawWriteInProgress \in BOOLEAN /\ poisoned \in BOOLEAN /\ published \in BOOLEAN
  /\ views \subseteq Calls
  /\ call \in [Calls -> CallRec]
  /\ timeline \in [Calls -> Seq({"out", "in", "raw"})]

FrontTypes ==
  /\ stage \in [Calls -> {"none", "operation", "bytes", "relay", "stream", "answered"}]
  /\ reply \in [Calls -> {0, 200, 400, 403, 404, 405, 502, 503}]
  /\ phase \in {"serving", "closingRelay", "closingListener", "closed"}
  /\ lastClient \in Links \cup {NoLink}

CodeTypes == RelayTypes /\ FrontTypes

BridgeInv ==
  /\ CodeTypes
  /\ LinksAreSound
  /\ ShutdownIsSound
  /\ CallsAreSound
  /\ \A k \in Links : QueueIsSound(k)
  /\ ViewsAreKept
  /\ TabsKnowTheState
  /\ \A c \in Calls : TimelineIsSound(c)

LEMMA OutcomeFacts ==
  /\ DOMAIN Outcome = Outcomes
  /\ \A at \in Outcomes : Outcome[at] \in {200, 502}
BY DEF Outcome, Outcomes

LEMMA LinkFacts == NoLink \notin Links /\ Links \subseteq Nat /\ NoLink \in Nat
BY RelayAssumption DEF Links, NoLink

LEMMA TypeFacts ==
  /\ CodeTypes <=> RelayTypes /\ FrontTypes
  /\ CodeTypes' <=> RelayTypes' /\ FrontTypes'
BY DEF CodeTypes

\* TypeOK has the outcomes as the domain of their statuses, and the history.
LEMMA TypeOKFacts == TypeOK <=> CodeTypes /\ met \subseteq Calls
<1>1. CallRec = [op : {"none", "connect", "disconnect", "send", "raw"},
                 at : {"idle", "joining", "writing", "waiting", "resuming", "ending"}
                        \cup DOMAIN Outcome,
                 link : Links \cup {NoLink}]
  <2>1. {"idle"} \cup Busy \cup Outcomes
          = {"idle", "joining", "writing", "waiting", "resuming", "ending"} \cup DOMAIN Outcome
    BY OutcomeFacts DEF Busy
  <2> QED BY <2>1 DEF CallRec
<1> HIDE DEF CallRec
<1> QED BY <1>1 DEF TypeOK, CodeTypes, RelayTypes, FrontTypes, LinkStates

-----------------------------------------------------------------------------
(* Steps of the HTTP side that the relay does not hear of.                  *)

LEMMA FrontKeepsInvariant ==
  ASSUME BridgeInv, UNCHANGED relayVars, FrontTypes', ShutdownIsSound',
         lastClient' = lastClient,
         phase' = "serving" => phase = "serving",
         phase = "serving" => phase' = "serving",
         \A c \in Calls : call[c].at \in Busy => stage'[c] = "relay"
  PROVE  BridgeInv'
<1> USE DEF relayVars
<1>1. CodeTypes'
  BY TypeFacts DEF BridgeInv, RelayTypes
<1>2. LinksAreSound'
  BY DEF BridgeInv, LinksAreSound
<1>3. CallsAreSound'
  BY DEF BridgeInv, CallsAreSound, CallIsSound
<1>4. \A k \in Links : QueueIsSound(k)'
  BY DEF BridgeInv, QueueIsSound
<1>5. ViewsAreKept'
  BY DEF BridgeInv, ViewsAreKept, Undisturbed
<1>6. \A c \in Calls : TimelineIsSound(c)'
  BY DEF BridgeInv, TimelineIsSound
<1>7. TabsKnowTheState'
  BY DEF BridgeInv, TabsKnowTheState, Connected
<1> QED BY <1>1, <1>2, <1>3, <1>4, <1>5, <1>6, <1>7 DEF BridgeInv

\* All that the front and the shutdown do by themselves, CloseBridge aside.
FrontStep ==
  \/ \E r \in Calls :
       \/ \E s \in Shapes[r] :
            /\ Listening /\ stage[r] = "none" /\ UNCHANGED <<phase, lastClient>>
            /\ \/ Answered(r, s)
               \/ Subscribe(r)
               \/ /\ Enter(r, IF s.path = "request" THEN "operation" ELSE "bytes")
                  /\ UNCHANGED relayVars
       \/ /\ stage[r] \in {"operation", "bytes"} /\ UNCHANGED <<phase, lastClient>>
          /\ Reply(r, 400) /\ UNCHANGED relayVars
       \/ TabCloses(r) \/ Answer(r)
  \/ RelayClosed \/ ListenerClosed

LEMMA RefusalFacts == \A s : Refusal(s) \in {0, 403, 404, 405}
BY DEF Refusal

LEMMA FrontStepKeepsInvariant ==
  ASSUME BridgeInv, FrontStep
  PROVE  BridgeInv'
<1>1. FrontTypes /\ RelayTypes /\ CallsAreSound /\ ShutdownIsSound
  BY TypeFacts DEF BridgeInv
\* One request changes its stage, and it is not one the relay is busy with.
<1>2. ASSUME NEW r \in Calls, NEW at \in {"operation", "bytes", "stream"},
             stage' = [stage EXCEPT ![r] = at], call[r].at \notin Busy,
             phase # "closed", UNCHANGED <<phase, lastClient>>, UNCHANGED relayVars,
             reply' \in [Calls -> {0, 200, 400, 403, 404, 405, 502, 503}]
      PROVE  BridgeInv'
  <2>1. FrontTypes'
    BY <1>1, <1>2 DEF FrontTypes
  <2>2. ShutdownIsSound'
    BY <1>1, <1>2 DEF ShutdownIsSound, FrontTypes, relayVars
  <2>3. \A c \in Calls : call[c].at \in Busy => stage'[c] = "relay"
    BY <1>1, <1>2 DEF CallsAreSound, CallIsSound, FrontTypes
  <2> QED BY <1>2, <2>1, <2>2, <2>3, FrontKeepsInvariant
<1>3. \A r \in Calls : stage[r] # "relay" => call[r].at \notin Busy
  BY <1>1 DEF CallsAreSound, CallIsSound
<1>4. ASSUME NEW r \in Calls, NEW status \in {200, 400, 403, 404, 405, 502, 503},
             Reply(r, status), call[r].at \notin Busy,
             UNCHANGED <<phase, lastClient>>, UNCHANGED relayVars
      PROVE  BridgeInv'
  <2>1. stage' = [stage EXCEPT ![r] = "answered"] /\ reply' = [reply EXCEPT ![r] = status]
    BY <1>4 DEF Reply
  <2>2. FrontTypes'
    BY <1>1, <1>4, <2>1 DEF FrontTypes
  <2>3. ShutdownIsSound'
    BY <1>1, <1>4, <2>1 DEF ShutdownIsSound, FrontTypes, relayVars
  <2>4. \A c \in Calls : call[c].at \in Busy => stage'[c] = "relay"
    BY <1>1, <1>4, <2>1 DEF CallsAreSound, CallIsSound, FrontTypes
  <2> QED BY <1>4, <2>2, <2>3, <2>4, FrontKeepsInvariant
<1>5. ASSUME NEW r \in Calls, NEW s \in Shapes[r], Listening, stage[r] = "none",
             UNCHANGED <<phase, lastClient>>,
             \/ Answered(r, s)
             \/ Subscribe(r)
             \/ /\ Enter(r, IF s.path = "request" THEN "operation" ELSE "bytes")
                /\ UNCHANGED relayVars
      PROVE  BridgeInv'
  <2>1. CASE Answered(r, s)
    <3>1. \E status \in {200, 400, 403, 404, 405, 502, 503} : Reply(r, status)
      BY <2>1, RefusalFacts DEF Answered, Page
    <3> QED BY <1>3, <1>4, <1>5, <2>1, <3>1 DEF Answered
  <2>2. CASE Subscribe(r)
    BY <1>1, <1>2, <1>3, <1>4, <1>5, <2>2 DEF Subscribe, Enter, Listening, FrontTypes
  <2>3. CASE /\ Enter(r, IF s.path = "request" THEN "operation" ELSE "bytes")
             /\ UNCHANGED relayVars
    BY <1>1, <1>2, <1>3, <1>5, <2>3 DEF Enter, Listening, FrontTypes
  <2> QED BY <1>5, <2>1, <2>2, <2>3
<1>6. ASSUME NEW r \in Calls, stage[r] \in {"operation", "bytes"},
             UNCHANGED <<phase, lastClient>>, Reply(r, 400), UNCHANGED relayVars
      PROVE  BridgeInv'
  BY <1>3, <1>4, <1>6
<1>7. ASSUME NEW r \in Calls, TabCloses(r) PROVE BridgeInv'
  BY <1>3, <1>4, <1>7 DEF TabCloses
<1>8. ASSUME NEW r \in Calls, Answer(r) PROVE BridgeInv'
  <2>1. call[r].at \in Outcomes /\ Outcome[call[r].at] \in {200, 502}
    BY <1>8, OutcomeFacts DEF Answer
  <2>2. call[r].at \notin Busy
    BY <2>1 DEF Outcomes, Busy
  <2> QED BY <1>4, <1>8, <2>1, <2>2 DEF Answer
<1>9. CASE RelayClosed \/ ListenerClosed
  <2>1. /\ UNCHANGED <<stage, reply, lastClient>> /\ UNCHANGED relayVars
        /\ phase # "serving" /\ phase' \in {"closingListener", "closed"}
    BY <1>9 DEF RelayClosed, ListenerClosed
  <2>2. FrontTypes'
    BY <1>1, <2>1 DEF FrontTypes
  <2>3. ShutdownIsSound'
    BY <1>1, <1>9, <2>1 DEF ShutdownIsSound, RelayClosed, ListenerClosed, relayVars
  <2>4. \A c \in Calls : call[c].at \in Busy => stage'[c] = "relay"
    BY <1>1, <2>1 DEF CallsAreSound, CallIsSound
  <2> QED BY <2>1, <2>2, <2>3, <2>4, FrontKeepsInvariant
<1> QED BY <1>5, <1>6, <1>7, <1>8, <1>9 DEF FrontStep

-----------------------------------------------------------------------------
(* Calls begin.                                                             *)

LEMMA QueueFacts ==
  ASSUME BridgeInv, NEW k \in Links
  PROVE  /\ queue[k] \in Seq(Calls) /\ Len(queue[k]) \in Nat
         /\ \A i \in 1 .. Len(queue[k]) : queue[k][i] \in Calls
<1>1. queue[k] \in Seq(Calls)
  BY TypeFacts DEF BridgeInv, RelayTypes
<1> QED BY <1>1, LenProperties, ElementOfSeq

\* A queue stays sound while its calls stay where they are.
LEMMA QueueStaysSound ==
  ASSUME BridgeInv, NEW k \in Links, queue'[k] = queue[k],
         queue[k] # <<>> => link'[k] \in {"open", "dying", "ending"},
         \A c \in Calls : call[c].at = "writing" =>
           call'[c].at = "writing" /\ call'[c].link = call[c].link
  PROVE  QueueIsSound(k)'
BY QueueFacts DEF BridgeInv, QueueIsSound

\* What the beginning of any call leaves as it is.
BeginFrame(c, rec) ==
  /\ call[c].at = "idle" /\ phase # "closed"
  /\ call' = [call EXCEPT ![c] = rec]
  /\ stage' = [stage EXCEPT ![c] = "relay"]
  /\ UNCHANGED <<reply, phase, lastClient, timeline>>

LEMMA BeginFacts ==
  ASSUME BridgeInv, NEW c \in Calls, NEW rec \in CallRec, BeginFrame(c, rec)
  PROVE  /\ call' \in [Calls -> CallRec] /\ FrontTypes'
         /\ call'[c] = rec /\ \A d \in Calls : d # c => call'[d] = call[d]
         /\ stage'[c] = "relay" /\ \A d \in Calls : d # c => stage'[d] = stage[d]
         /\ call[c].at = "idle" /\ call[c].op = "none" /\ timeline[c] = <<>>
         /\ c \notin views
         /\ phase # "closed" /\ phase' = phase /\ lastClient' = lastClient
         /\ timeline' = timeline
         /\ \A d \in Calls : call[d].at = "writing" =>
              call'[d].at = "writing" /\ call'[d].link = call[d].link
<1>1. RelayTypes /\ FrontTypes /\ CallIsSound(c) /\ TimelineIsSound(c) /\ ViewsAreKept
  BY TypeFacts DEF BridgeInv, CallsAreSound
<1>2. /\ call' \in [Calls -> CallRec]
      /\ call'[c] = rec /\ \A d \in Calls : d # c => call'[d] = call[d]
  BY <1>1 DEF RelayTypes, BeginFrame
<1>3. /\ FrontTypes'
      /\ stage'[c] = "relay" /\ \A d \in Calls : d # c => stage'[d] = stage[d]
  BY <1>1 DEF FrontTypes, BeginFrame
<1> QED BY <1>1, <1>2, <1>3 DEF BeginFrame, CallIsSound, TimelineIsSound, ViewsAreKept

\* connect(), send() or sendRaw() on the connection there is.
LEMMA BeginOnClientKeepsInvariant ==
  ASSUME BridgeInv, NEW c \in Calls, NEW op \in {"connect", "send", "raw"},
         Connected(client), BeginFrame(c, Begun(c, client, op)),
         queue' = IF op = "connect" THEN queue ELSE [queue EXCEPT ![client] = Append(@, c)],
         rawWriteInProgress' = (rawWriteInProgress \/ op = "raw"),
         UNCHANGED <<link, client, connecting, watched, poisoned, views, published>>
  PROVE  BridgeInv'
<1> DEFINE rec == Begun(c, client, op)
           queued == Append(queue[client], c)
<1>1. RelayTypes /\ FrontTypes /\ LinksAreSound /\ ShutdownIsSound /\ CallsAreSound
  BY TypeFacts DEF BridgeInv
<1>2. client \in Links /\ link[client] = "open"
  BY <1>1 DEF Connected, LinksAreSound, RelayTypes, NoLink
<1>3. /\ rec \in CallRec /\ rec.op = op /\ rec.link = client
      /\ rec.at = IF op = "connect" THEN "done" ELSE "writing"
  BY <1>2 DEF Begun, CallRec, Busy, Outcomes
<1>4. /\ queue[client] \in Seq(Calls) /\ Len(queue[client]) \in Nat
      /\ \A i \in 1 .. Len(queue[client]) : queue[client][i] \in Calls
  BY <1>2, QueueFacts
<1>5. /\ queued \in Seq(Calls) /\ Len(queued) = Len(queue[client]) + 1
      /\ \A i \in 1 .. Len(queue[client]) : queued[i] = queue[client][i]
      /\ queued[Len(queue[client]) + 1] = c
  BY <1>4, AppendProperties
<1> HIDE DEF rec, queued
<1>6. /\ call' \in [Calls -> CallRec] /\ FrontTypes'
      /\ call'[c] = rec /\ \A d \in Calls : d # c => call'[d] = call[d]
      /\ stage'[c] = "relay" /\ \A d \in Calls : d # c => stage'[d] = stage[d]
      /\ call[c].at = "idle" /\ call[c].op = "none" /\ timeline[c] = <<>>
      /\ c \notin views
      /\ phase # "closed" /\ phase' = phase /\ lastClient' = lastClient
      /\ timeline' = timeline
      /\ \A d \in Calls : call[d].at = "writing" =>
           call'[d].at = "writing" /\ call'[d].link = call[d].link
  BY <1>3, BeginFacts DEF rec
<1>7. /\ queue' \in [Links -> Seq(Calls)]
      /\ \A k \in Links : k # client \/ op = "connect" => queue'[k] = queue[k]
      /\ op # "connect" => queue'[client] = queued
  BY <1>1, <1>2, <1>5 DEF RelayTypes, queued
<1>8. CodeTypes'
  <2>1. rawWriteInProgress' \in BOOLEAN
    BY <1>1 DEF RelayTypes
  <2> QED BY <1>1, <1>6, <1>7, <2>1, TypeFacts DEF RelayTypes
<1>9. LinksAreSound' /\ ShutdownIsSound'
  BY <1>1, <1>6 DEF LinksAreSound, ShutdownIsSound
<1>10. CallsAreSound'
  <2>1. \A d \in Calls : CallIsSound(d)'
    BY <1>1, <1>2, <1>3, <1>6 DEF CallsAreSound, CallIsSound
  <2> QED BY <1>1, <1>6, <2>1 DEF CallsAreSound
<1>11. ASSUME NEW k \in Links PROVE QueueIsSound(k)'
  <2>1. CASE k # client \/ op = "connect"
    BY <1>6, <1>7, <2>1, QueueStaysSound DEF BridgeInv, QueueIsSound
  <2>2. CASE k = client /\ op # "connect"
    <3>1. QueueIsSound(client)
      BY <1>2 DEF BridgeInv
    <3>2. \A i \in 1 .. Len(queued) : i \in 1 .. Len(queue[client]) \/ i = Len(queue[client]) + 1
      BY <1>4, <1>5
    <3>3. \A i \in 1 .. Len(queue[client]) : queue[client][i] # c
      BY <1>6, <3>1 DEF QueueIsSound
    <3>4. \A i \in 1 .. Len(queued) : /\ call'[queued[i]].at = "writing"
                                      /\ call'[queued[i]].link = client
      BY <1>3, <1>4, <1>5, <1>6, <2>2, <3>1, <3>2, <3>3 DEF QueueIsSound
    <3>5. \A i, j \in 1 .. Len(queued) : i # j => queued[i] # queued[j]
      BY <1>4, <1>5, <3>1, <3>2, <3>3 DEF QueueIsSound
    <3> QED BY <1>2, <1>7, <2>2, <3>4, <3>5 DEF QueueIsSound
  <2> QED BY <2>1, <2>2
<1>12. ViewsAreKept'
  <2>1. \A d \in views' : client' # NoLink /\ call'[d].link = client' /\ call'[d].at # "idle"
    BY <1>1, <1>3, <1>6 DEF BridgeInv, ViewsAreKept, RelayTypes
  <2>2. Undisturbed' => Undisturbed /\ op # "raw"
    BY <1>3, <1>6 DEF Undisturbed
  <2>3. Undisturbed' =>
          /\ ~poisoned' /\ ~rawWriteInProgress'
          /\ \A k \in Links : link'[k] # "ending"
          /\ \A d \in Calls : /\ call'[d].at # "viewLost"
                              /\ call'[d].at = "waiting" => d \in views'
    BY <1>3, <1>6, <2>2 DEF BridgeInv, ViewsAreKept
  <2> QED BY <2>1, <2>3 DEF ViewsAreKept
<1>14. \A d \in Calls : TimelineIsSound(d)'
  BY <1>3, <1>6 DEF BridgeInv, TimelineIsSound
<1>15. TabsKnowTheState'
  BY <1>6 DEF BridgeInv, TabsKnowTheState, Connected
<1> QED BY <1>8, <1>9, <1>10, <1>11, <1>12, <1>14, <1>15 DEF BridgeInv

\* The same without one, while an attempt is under way.
LEMMA JoinKeepsInvariant ==
  ASSUME BridgeInv, NEW c \in Calls, NEW op \in {"connect", "send", "raw"},
         connecting # NoLink,
         BeginFrame(c, [op |-> op, at |-> "joining", link |-> connecting]),
         UNCHANGED <<link, client, connecting, watched, queue, rawWriteInProgress, poisoned,
                     views, published>>
  PROVE  BridgeInv'
<1> DEFINE rec == [op |-> op, at |-> "joining", link |-> connecting]
<1>1. RelayTypes /\ FrontTypes /\ LinksAreSound /\ ShutdownIsSound /\ CallsAreSound
  BY TypeFacts DEF BridgeInv
<1>2. /\ rec \in CallRec /\ rec.op = op /\ rec.link = connecting /\ rec.at = "joining"
  BY <1>1 DEF CallRec, Busy, RelayTypes
<1> HIDE DEF rec
<1>3. /\ call' \in [Calls -> CallRec] /\ FrontTypes'
      /\ call'[c] = rec /\ \A d \in Calls : d # c => call'[d] = call[d]
      /\ stage'[c] = "relay" /\ \A d \in Calls : d # c => stage'[d] = stage[d]
      /\ call[c].at = "idle" /\ call[c].op = "none" /\ timeline[c] = <<>>
      /\ c \notin views
      /\ phase # "closed" /\ phase' = phase /\ lastClient' = lastClient
      /\ timeline' = timeline
      /\ \A d \in Calls : call[d].at = "writing" =>
           call'[d].at = "writing" /\ call'[d].link = call[d].link
  BY <1>2, BeginFacts DEF rec
<1>4. CodeTypes'
  BY <1>1, <1>3, TypeFacts DEF RelayTypes
<1>5. LinksAreSound' /\ ShutdownIsSound'
  BY <1>1, <1>3 DEF LinksAreSound, ShutdownIsSound
<1>6. CallsAreSound'
  BY <1>1, <1>2, <1>3 DEF CallsAreSound, CallIsSound
<1>7. \A k \in Links : QueueIsSound(k)'
  BY <1>3, QueueStaysSound DEF BridgeInv, QueueIsSound
<1>8. ViewsAreKept'
  <2>1. \A d \in views' : client' # NoLink /\ call'[d].link = client' /\ call'[d].at # "idle"
    BY <1>1, <1>2, <1>3 DEF BridgeInv, ViewsAreKept, RelayTypes
  <2>2. Undisturbed' => Undisturbed /\ op # "raw"
    BY <1>2, <1>3 DEF Undisturbed
  <2>3. Undisturbed' =>
          /\ ~poisoned' /\ ~rawWriteInProgress'
          /\ \A k \in Links : link'[k] # "ending"
          /\ \A d \in Calls : /\ call'[d].at # "viewLost"
                              /\ call'[d].at = "waiting" => d \in views'
    BY <1>2, <1>3, <2>2 DEF BridgeInv, ViewsAreKept
  <2> QED BY <2>1, <2>3 DEF ViewsAreKept
<1>10. \A d \in Calls : TimelineIsSound(d)'
  BY <1>2, <1>3 DEF BridgeInv, TimelineIsSound
<1>11. TabsKnowTheState'
  BY <1>3 DEF BridgeInv, TabsKnowTheState, Connected
<1> QED BY <1>4, <1>5, <1>6, <1>7, <1>8, <1>10, <1>11 DEF BridgeInv

\* The same with neither: an attempt is made on the next link.
LEMMA AttemptKeepsInvariant ==
  ASSUME BridgeInv, NEW c \in Calls, NEW op \in {"connect", "send", "raw"}, NEW k \in Links,
         connecting = NoLink, ~Connected(client),
         link[k] = "none", \A j \in 1 .. k - 1 : link[j] # "none",
         BeginFrame(c, [op |-> op, at |-> "joining", link |-> k]),
         link' = [link EXCEPT ![k] = "connecting"], connecting' = k, poisoned' = FALSE,
         UNCHANGED <<client, watched, queue, rawWriteInProgress, views, published>>
  PROVE  BridgeInv'
<1> DEFINE rec == [op |-> op, at |-> "joining", link |-> k]
<1>1. RelayTypes /\ FrontTypes /\ LinksAreSound /\ ShutdownIsSound /\ CallsAreSound
  BY TypeFacts DEF BridgeInv
<1>2. /\ rec \in CallRec /\ rec.op = op /\ rec.link = k /\ rec.at = "joining"
  BY DEF CallRec, Busy
<1> HIDE DEF rec
<1>3. /\ call' \in [Calls -> CallRec] /\ FrontTypes'
      /\ call'[c] = rec /\ \A d \in Calls : d # c => call'[d] = call[d]
      /\ stage'[c] = "relay" /\ \A d \in Calls : d # c => stage'[d] = stage[d]
      /\ call[c].at = "idle" /\ call[c].op = "none" /\ timeline[c] = <<>>
      /\ c \notin views
      /\ phase # "closed" /\ phase' = phase /\ lastClient' = lastClient
      /\ timeline' = timeline
      /\ \A d \in Calls : call[d].at = "writing" =>
           call'[d].at = "writing" /\ call'[d].link = call[d].link
  BY <1>2, BeginFacts DEF rec
<1>4. /\ link' \in [Links -> LinkStates]
      /\ link'[k] = "connecting" /\ \A j \in Links : j # k => link'[j] = link[j]
  BY <1>1 DEF RelayTypes, LinkStates
<1>5. client # k /\ lastClient # k
  BY <1>1 DEF LinksAreSound, ShutdownIsSound, RelayTypes, NoLink, Links
<1>6. /\ client # NoLink => client < k
      /\ lastClient # NoLink => lastClient < k
      /\ \A j \in Links : link[j] # "none" => j < k
      /\ \A j \in Links : link[j] # "open"
  <2>1. \A j \in Links : link[j] # "none" => j < k
    BY <1>1, LinkFacts DEF LinksAreSound
  <2>2. client # NoLink => client \in Links /\ link[client] = "dying"
    BY <1>1 DEF LinksAreSound, RelayTypes, Connected
  <2>3. lastClient # NoLink => lastClient \in Links /\ link[lastClient] # "none"
    BY <1>1 DEF ShutdownIsSound, FrontTypes
  <2>4. \A j \in Links : link[j] # "open"
    BY <1>1, <2>2 DEF LinksAreSound, NoLink
  <2> QED BY <2>1, <2>2, <2>3, <2>4
<1>7. CodeTypes'
  BY <1>1, <1>3, <1>4, TypeFacts DEF RelayTypes
<1>8. LinksAreSound'
  <2>1. k \in Nat /\ k > 0 /\ client \in Nat /\ lastClient \in Nat /\ NoLink = 0
    BY <1>1, LinkFacts DEF RelayTypes, FrontTypes, NoLink, Links
  <2>2. client < k /\ lastClient < k
    BY <1>6, <2>1
  <2>3. \A i \in Links : i < k => link[i] # "none"
    BY DEF Links
  <2>4. \A i, j \in Links : i < j /\ link'[i] = "none" => link'[j] = "none"
    <3> SUFFICES ASSUME NEW i \in Links, NEW j \in Links, i < j, link'[i] = "none"
                 PROVE  link'[j] = "none"
      OBVIOUS
    <3>1. i # k /\ link[i] = "none"
      BY <1>4
    <3>2. link[j] = "none"
      BY <1>1, <3>1 DEF LinksAreSound
    <3>3. j # k
      BY <2>3, <3>1
    <3> QED BY <1>4, <3>2, <3>3
  <2>5. \A j \in Links : link'[j] \in {"open", "dying"} <=> j = client'
    BY <1>1, <1>4, <1>5 DEF LinksAreSound
  <2>6. \A j \in Links : link'[j] = "connecting" <=> j = connecting'
    BY <1>1, <1>4, LinkFacts DEF LinksAreSound
  <2>7. \A j \in Links : link'[j] # "open"
    BY <1>4, <1>6
  <2> QED BY <1>1, <1>3, <2>2, <2>4, <2>5, <2>6, <2>7 DEF LinksAreSound
<1>9. ShutdownIsSound'
  BY <1>1, <1>3, <1>4, <1>5 DEF ShutdownIsSound, FrontTypes
<1>10. CallsAreSound'
  <2>1. \A d \in Calls : CallIsSound(d)'
    BY <1>1, <1>2, <1>3, <1>4, LinkFacts DEF CallsAreSound, CallIsSound
  <2> QED BY <1>1, <1>2, <1>3, <1>4, <2>1 DEF CallsAreSound
<1>11. \A j \in Links : QueueIsSound(j)'
  BY <1>3, <1>4, QueueStaysSound DEF BridgeInv, QueueIsSound
<1>12. ViewsAreKept'
  <2>1. \A d \in views' : client' # NoLink /\ call'[d].link = client' /\ call'[d].at # "idle"
    <3>1. \A d \in views : d # c /\ d \in Calls
      BY <1>1, <1>3 DEF RelayTypes
    <3>2. \A d \in views : client # NoLink /\ call[d].link = client /\ call[d].at # "idle"
      BY DEF BridgeInv, ViewsAreKept
    <3> QED BY <1>3, <3>1, <3>2
  <2>2. Undisturbed' => Undisturbed /\ op # "raw"
    BY <1>2, <1>3, <1>4 DEF Undisturbed
  <2>3. Undisturbed' =>
          /\ ~poisoned' /\ ~rawWriteInProgress'
          /\ \A j \in Links : link'[j] # "ending"
          /\ \A d \in Calls : /\ call'[d].at # "viewLost"
                              /\ call'[d].at = "waiting" => d \in views'
    BY <1>2, <1>3, <1>4, <2>2 DEF BridgeInv, ViewsAreKept
  <2> QED BY <2>1, <2>3 DEF ViewsAreKept
<1>14. \A d \in Calls : TimelineIsSound(d)'
  BY <1>2, <1>3 DEF BridgeInv, TimelineIsSound
<1>15. TabsKnowTheState'
  BY <1>1, <1>3, <1>4, <1>5 DEF BridgeInv, TabsKnowTheState, Connected, RelayTypes
<1> QED BY <1>7, <1>8, <1>9, <1>10, <1>11, <1>12, <1>14, <1>15 DEF BridgeInv

\* disconnect() without a client has nothing to do.
LEMMA DisconnectNothingKeepsInvariant ==
  ASSUME BridgeInv, NEW c \in Calls,
         BeginFrame(c, [op |-> "disconnect", at |-> "done", link |-> NoLink]),
         UNCHANGED <<link, client, connecting, watched, queue, rawWriteInProgress, poisoned,
                     views, published>>
  PROVE  BridgeInv'
<1> DEFINE rec == [op |-> "disconnect", at |-> "done", link |-> NoLink]
<1>1. RelayTypes /\ FrontTypes /\ LinksAreSound /\ ShutdownIsSound /\ CallsAreSound
  BY TypeFacts DEF BridgeInv
<1>2. rec \in CallRec /\ rec.op = "disconnect" /\ rec.at = "done"
  BY DEF CallRec, Outcomes
<1> HIDE DEF rec
<1>3. /\ call' \in [Calls -> CallRec] /\ FrontTypes'
      /\ call'[c] = rec /\ \A d \in Calls : d # c => call'[d] = call[d]
      /\ stage'[c] = "relay" /\ \A d \in Calls : d # c => stage'[d] = stage[d]
      /\ call[c].at = "idle" /\ call[c].op = "none" /\ timeline[c] = <<>>
      /\ c \notin views
      /\ phase # "closed" /\ phase' = phase /\ lastClient' = lastClient
      /\ timeline' = timeline
      /\ \A d \in Calls : call[d].at = "writing" =>
           call'[d].at = "writing" /\ call'[d].link = call[d].link
  BY <1>2, BeginFacts DEF rec
<1>4. CodeTypes'
  BY <1>1, <1>3, TypeFacts DEF RelayTypes
<1>5. LinksAreSound' /\ ShutdownIsSound'
  BY <1>1, <1>3 DEF LinksAreSound, ShutdownIsSound
<1>6. CallsAreSound'
  <2>1. \A d \in Calls : CallIsSound(d)'
    BY <1>1, <1>2, <1>3 DEF CallsAreSound, CallIsSound
  <2> QED BY <1>1, <1>3, <2>1 DEF CallsAreSound
<1>7. \A k \in Links : QueueIsSound(k)'
  BY <1>3, QueueStaysSound DEF BridgeInv, QueueIsSound
<1>8. ViewsAreKept'
  <2>1. \A d \in views' : client' # NoLink /\ call'[d].link = client' /\ call'[d].at # "idle"
    BY <1>1, <1>2, <1>3 DEF BridgeInv, ViewsAreKept, RelayTypes
  <2>2. ~Undisturbed'
    BY <1>2, <1>3 DEF Undisturbed
  <2> QED BY <2>1, <2>2 DEF ViewsAreKept
<1>10. \A d \in Calls : TimelineIsSound(d)'
  BY <1>2, <1>3 DEF BridgeInv, TimelineIsSound
<1>11. TabsKnowTheState'
  BY <1>3 DEF BridgeInv, TabsKnowTheState, Connected
<1> QED BY <1>4, <1>5, <1>6, <1>7, <1>8, <1>10, <1>11 DEF BridgeInv

LEMMA BeginKeepsInvariant ==
  ASSUME BridgeInv, NEW c \in Calls, NEW op \in {"connect", "send", "raw"},
         Begin(c, op), Enter(c, "relay"), UNCHANGED <<phase, lastClient>>, phase # "closed"
  PROVE  BridgeInv'
<1>1. ASSUME NEW rec, call' = [call EXCEPT ![c] = rec] PROVE BeginFrame(c, rec)
  BY <1>1 DEF Begin, Enter, BeginFrame
<1>2. CASE Connected(client)
  BY <1>1, <1>2, BeginOnClientKeepsInvariant DEF Begin
<1>3. CASE ~Connected(client) /\ connecting # NoLink
  BY <1>1, <1>3, JoinKeepsInvariant DEF Begin, StartAttempt
<1>4. CASE ~Connected(client) /\ connecting = NoLink
  <2>1. PICK k \in Links :
          /\ link[k] = "none" /\ \A j \in 1 .. k - 1 : link[j] # "none"
          /\ link' = [link EXCEPT ![k] = "connecting"]
          /\ connecting' = k
          /\ poisoned' = FALSE
          /\ call' = [call EXCEPT ![c] = [op |-> op, at |-> "joining", link |-> k]]
    BY <1>4 DEF Begin, StartAttempt
  <2>2. UNCHANGED <<client, watched, queue, rawWriteInProgress, views, published>>
    BY <1>4 DEF Begin
  <2> QED BY <1>1, <1>4, <2>1, <2>2, AttemptKeepsInvariant
<1> QED BY <1>2, <1>3, <1>4

-----------------------------------------------------------------------------
(* Calls go on.                                                             *)

LEMMA TimelineFacts ==
  /\ Append(<<>>, "out") = <<"out">> /\ Append(<<>>, "raw") = <<"raw">>
  /\ Append(<<>>, "in") = <<"in">> /\ Append(<<"out">>, "in") = <<"out", "in">>
  /\ {<<>>, <<"raw">>, <<"out">>, <<"in">>, <<"out", "in">>} \subseteq Seq({"out", "in", "raw"})
<1>1. /\ Append(<<>>, "out") = <<"out">> /\ Append(<<>>, "raw") = <<"raw">>
      /\ Append(<<>>, "in") = <<"in">>
  OBVIOUS
<1>2. Append(<<"out">>, "in") = <<"out", "in">>
  <2>1. <<"out">> \in Seq({"out", "in"}) /\ <<"out", "in">> \in Seq({"out", "in"})
    OBVIOUS
  <2>2. PICK s : s = Append(<<"out">>, "in")
    OBVIOUS
  <2>3. PICK t : t = <<"out", "in">>
    OBVIOUS
  <2>4. s \in Seq({"out", "in"}) /\ Len(s) = 2 /\ s[1] = "out" /\ s[2] = "in"
    BY <2>1, <2>2, AppendProperties
  <2>5. t \in Seq({"out", "in"}) /\ Len(t) = 2 /\ t[1] = "out" /\ t[2] = "in"
    BY <2>1, <2>3
  <2>6. \A i \in 1 .. Len(s) : s[i] = t[i]
    BY <2>4, <2>5
  <2>7. s = t
    BY <2>4, <2>5, <2>6, SeqEqual
  <2> QED BY <2>2, <2>3, <2>7
<1>3. /\ <<>> \in Seq({"out", "in", "raw"}) /\ <<"raw">> \in Seq({"out", "in", "raw"})
      /\ <<"out">> \in Seq({"out", "in", "raw"}) /\ <<"in">> \in Seq({"out", "in", "raw"})
  OBVIOUS
<1>4. <<"out", "in">> \in Seq({"out", "in", "raw"})
  OBVIOUS
<1> QED BY <1>1, <1>2, <1>3, <1>4

\* A call comes to an end that holds up nobody else.
LEMMA EndKeepsInvariant ==
  ASSUME BridgeInv, NEW c \in Calls, NEW at \in Outcomes,
         call[c].at \in {"waiting", "resuming"},
         call' = At(c, at),
         timeline' = [timeline EXCEPT ![c] = timeline'[c]],
         timeline'[c] \in {<<>>, <<"raw">>, <<"out">>, <<"in">>, <<"out", "in">>},
         views' \subseteq views, views \subseteq views' \cup {c},
         at = "viewLost" => c \notin views /\ call[c].at = "waiting",
         \/ rawWriteInProgress' = rawWriteInProgress
         \/ rawWriteInProgress' = FALSE /\ call[c].op = "raw",
         UNCHANGED <<link, client, connecting, watched, queue, poisoned, published, frontVars>>
  PROVE  BridgeInv'
<1>1. RelayTypes /\ FrontTypes /\ LinksAreSound /\ ShutdownIsSound /\ CallsAreSound
  BY TypeFacts DEF BridgeInv
<1> DEFINE rec == [call[c] EXCEPT !.at = at]
<1>2. rec \in CallRec /\ rec.op = call[c].op /\ rec.at = at /\ rec.link = call[c].link
  BY <1>1 DEF RelayTypes, CallRec
<1>3. call' = [call EXCEPT ![c] = rec]
  BY <1>1 DEF At, RelayTypes
<1> HIDE DEF rec
<1>4. /\ call' \in [Calls -> CallRec]
      /\ call'[c] = rec /\ \A d \in Calls : d # c => call'[d] = call[d]
      /\ \A d \in Calls : call'[d].op = call[d].op /\ call'[d].link = call[d].link
      /\ \A d \in Calls : call[d].at = "writing" => call'[d].at = "writing"
      /\ at \notin Busy \cup {"idle"}
  BY <1>1, <1>2, <1>3 DEF RelayTypes, Busy, Outcomes
<1>5. timeline' \in [Calls -> Seq({"out", "in", "raw"})]
      /\ \A d \in Calls : d # c => timeline'[d] = timeline[d]
  BY <1>1, TimelineFacts DEF RelayTypes
<1>6. CodeTypes'
  BY <1>1, <1>4, <1>5, TypeFacts DEF RelayTypes, FrontTypes, frontVars
<1>7. LinksAreSound' /\ ShutdownIsSound'
  BY <1>1 DEF LinksAreSound, ShutdownIsSound, frontVars
<1>8. CallsAreSound'
  <2>1. \A d \in Calls : CallIsSound(d)'
    BY <1>1, <1>2, <1>4 DEF CallsAreSound, CallIsSound, Busy, frontVars
  <2> QED BY <1>1, <1>4, <2>1 DEF CallsAreSound, frontVars
<1>9. \A k \in Links : QueueIsSound(k)'
  BY <1>4, QueueStaysSound DEF BridgeInv, QueueIsSound
<1>10. ViewsAreKept'
  <2>0. \A d \in Calls : call[d].at # "idle" => call'[d].at # "idle"
    BY <1>2, <1>4
  <2>1. \A d \in views' : client' # NoLink /\ call'[d].link = client' /\ call'[d].at # "idle"
    <3>1. \A d \in views : client # NoLink /\ call[d].link = client /\ call[d].at # "idle"
      BY DEF BridgeInv, ViewsAreKept
    <3>2. views' \subseteq Calls
      BY <1>1 DEF RelayTypes
    <3> QED BY <1>4, <2>0, <3>1, <3>2
  <2>2. Undisturbed' => Undisturbed
    BY <1>4 DEF Undisturbed, frontVars
  <2>3. Undisturbed' => call[c].op # "raw"
    BY <2>2 DEF Undisturbed
  <2>4. Undisturbed' => call'[c].at # "viewLost"
    BY <1>2, <1>4, <2>2 DEF BridgeInv, ViewsAreKept
  <2>5. Undisturbed' =>
          /\ ~poisoned' /\ ~rawWriteInProgress'
          /\ \A k \in Links : link'[k] # "ending"
          /\ \A d \in Calls : /\ call'[d].at # "viewLost"
                              /\ call'[d].at = "waiting" => d \in views'
    BY <1>2, <1>4, <2>2, <2>3, <2>4 DEF BridgeInv, ViewsAreKept, Busy
  <2> QED BY <2>1, <2>5 DEF ViewsAreKept
<1>12. \A d \in Calls : TimelineIsSound(d)'
  BY <1>2, <1>4, <1>5 DEF BridgeInv, TimelineIsSound, Busy
<1>13. TabsKnowTheState'
  BY DEF BridgeInv, TabsKnowTheState, Connected, frontVars
<1> QED BY <1>6, <1>7, <1>8, <1>9, <1>10, <1>12, <1>13 DEF BridgeInv

LEMMA RelayCallKeepsInvariant ==
  ASSUME BridgeInv, NEW c \in Calls, RawResumes(c) \/ Response(c) \/ Timeout(c),
         UNCHANGED frontVars
  PROVE  BridgeInv'
<1>1. /\ RelayTypes /\ CallIsSound(c) /\ TimelineIsSound(c)
  BY TypeFacts DEF BridgeInv, CallsAreSound
<1>2. timeline = [timeline EXCEPT ![c] = timeline[c]]
  BY <1>1 DEF RelayTypes
<1>3. CASE RawResumes(c)
  <2>1. /\ call[c].op = "raw" /\ timeline[c] = <<>>
        /\ timeline'[c] = <<"raw">>
        /\ timeline' = [timeline EXCEPT ![c] = timeline'[c]]
    BY <1>1, <1>3, TimelineFacts DEF RawResumes, CallIsSound, TimelineIsSound, RelayTypes
  <2>2. PICK at \in Outcomes : at = "done"
    BY DEF Outcomes
  <2>3. call[c].at \in {"waiting", "resuming"} /\ call' = At(c, at) /\ at # "viewLost"
    BY <1>3, <2>2 DEF RawResumes
  <2>4. /\ rawWriteInProgress' = FALSE
        /\ UNCHANGED <<link, client, connecting, watched, queue, poisoned, published, frontVars>>
        /\ views' \subseteq views /\ views \subseteq views' \cup {c}
    BY <1>3 DEF RawResumes
  <2> QED BY <2>1, <2>3, <2>4, EndKeepsInvariant
<1>4. CASE Response(c)
  <2>1. /\ timeline' = [timeline EXCEPT ![c] = timeline'[c]]
        /\ timeline'[c] \in {<<>>, <<"raw">>, <<"out">>, <<"in">>, <<"out", "in">>}
    BY <1>1, <1>2, <1>4, TimelineFacts DEF Response, TimelineIsSound, RelayTypes
  <2>2. PICK at \in Outcomes : /\ call' = At(c, at)
                               /\ at = "viewLost" => c \notin views
    BY <1>4 DEF Response, Outcomes
  <2>3. call[c].at = "waiting" /\ views' \subseteq views /\ views \subseteq views' \cup {c}
    BY <1>4 DEF Response, Take
  <2>4. UNCHANGED <<link, client, connecting, watched, queue, rawWriteInProgress, poisoned,
                    published, frontVars>>
    BY <1>4 DEF Response
  <2> QED BY <2>1, <2>2, <2>3, <2>4, EndKeepsInvariant
<1>5. CASE Timeout(c)
  BY <1>1, <1>2, <1>5, EndKeepsInvariant DEF Timeout, Outcomes, TimelineIsSound
<1> QED BY <1>3, <1>4, <1>5

-----------------------------------------------------------------------------
(* Attempts succeed or fail.                                                *)

LEMMA OpenedKeepsInvariant ==
  ASSUME BridgeInv, NEW k \in Links, Opened(k), UNCHANGED frontVars
  PROVE  BridgeInv'
<1>1. RelayTypes /\ FrontTypes /\ LinksAreSound /\ ShutdownIsSound /\ CallsAreSound
  BY TypeFacts DEF BridgeInv
<1>2. /\ link[k] = "connecting" /\ connecting = k /\ client = NoLink /\ lastClient < k
      /\ views = {} /\ queue[k] = <<>> /\ k # NoLink
      /\ \A j \in Links : link[j] \notin {"open", "dying"}
  <2>1. link[k] = "connecting" /\ \A j \in Links : link[j] # "dying"
    BY DEF Opened
  <2>2. connecting = k /\ k # NoLink
    BY <1>1, <2>1, LinkFacts DEF LinksAreSound
  <2>3. \A j \in Links : link[j] \notin {"open", "dying"}
    BY <1>1, <2>1, <2>2 DEF LinksAreSound
  <2>4. client = NoLink /\ lastClient < k
    BY <1>1, <2>2, <2>3 DEF LinksAreSound, RelayTypes
  <2> QED BY <2>1, <2>2, <2>3, <2>4 DEF BridgeInv, ViewsAreKept, QueueIsSound
<1>3. /\ link' \in [Links -> LinkStates]
      /\ link'[k] = "open" /\ \A j \in Links : j # k => link'[j] = link[j]
  BY <1>1 DEF Opened, RelayTypes, LinkStates
<1>4. /\ client' = k /\ watched' = k /\ connecting' = NoLink /\ published' = TRUE
      /\ UNCHANGED <<poisoned, views, timeline, stage, reply, phase, lastClient>>
  BY DEF Opened, frontVars
<1> DEFINE writers == {c \in On(k, "joining") : call[c].op # "connect"}
<1>5. /\ \A c \in Calls : call[c].at = "joining" => call'[c] = Begun(c, k, call[c].op)
      /\ \A c \in Calls : call[c].at # "joining" => call'[c] = call[c]
  BY <1>1, <1>2 DEF Opened, On, CallsAreSound, CallIsSound
<1>6. \A c \in Calls : call[c].at = "joining" =>
        /\ call[c].op \in {"connect", "send", "raw"} /\ call'[c].op = call[c].op
        /\ call'[c].link = k
        /\ call'[c].at = IF call[c].op = "connect" THEN "done" ELSE "writing"
  <2>1. \A c \in Calls : call[c].at = "joining" => call[c].op \in {"connect", "send", "raw"}
    BY <1>1 DEF CallsAreSound, CallIsSound
  <2>2. \A c, op : /\ Begun(c, k, op).op = op /\ Begun(c, k, op).link = k
                   /\ Begun(c, k, op).at = IF op = "connect" THEN "done" ELSE "writing"
    BY DEF Begun
  <2> QED BY <1>5, <2>1, <2>2
<1>7. call' \in [Calls -> CallRec]
  <2>1. \A c, op : op \in {"connect", "send", "raw"} => Begun(c, k, op) \in CallRec
    BY DEF Begun, CallRec, Busy, Outcomes
  <2>2. \A c \in Calls : call'[c] \in CallRec
    <3> SUFFICES ASSUME NEW c \in Calls PROVE call'[c] \in CallRec
      OBVIOUS
    <3>1. CASE call[c].at = "joining"
      BY <1>5, <1>6, <2>1, <3>1
    <3>2. CASE call[c].at # "joining"
      BY <1>1, <1>5, <3>2 DEF RelayTypes
    <3> QED BY <3>1, <3>2
  <2>3. call' = [c \in Calls |-> call'[c]]
    BY DEF Opened
  <2> QED BY <2>2, <2>3
<1>8. PICK order \in SetToSeqs(writers) : queue' = [queue EXCEPT ![k] = order]
  BY DEF Opened
<1>9. /\ writers \subseteq Calls
      /\ \A c \in writers : call'[c].at = "writing" /\ call'[c].link = k
      /\ \A c \in Calls : call[c].at = "joining" /\ call[c].op = "raw" => c \in writers
  BY <1>1, <1>2, <1>6 DEF On, CallsAreSound, CallIsSound
<1>10. rawWriteInProgress' = (rawWriteInProgress \/ \E c \in writers : call[c].op = "raw")
  BY DEF Opened
<1> HIDE DEF writers
<1>11. /\ order \in Seq(Calls) /\ Len(order) = Cardinality(writers)
       /\ \A i \in 1 .. Len(order) : order[i] \in writers
       /\ \A i, j \in 1 .. Len(order) : i # j => order[i] # order[j]
  <2>1. Cardinality(writers) \in Nat
    BY <1>9, RelayAssumption, FS_Subset, FS_CardinalityType
  <2>2. /\ order \in [1 .. Cardinality(writers) -> writers]
        /\ \A i, j \in 1 .. Cardinality(writers) : i # j => order[i] # order[j]
    BY <1>8 DEF SetToSeqs
  <2>3. order \in Seq(writers) /\ Len(order) = Cardinality(writers)
    BY <2>1, <2>2
  <2> QED BY <1>9, <2>2, <2>3, SeqMonotonic
<1>12. /\ queue' \in [Links -> Seq(Calls)]
       /\ queue'[k] = order /\ \A j \in Links : j # k => queue'[j] = queue[j]
  BY <1>1, <1>8, <1>11 DEF RelayTypes
<1>13. \A c \in Calls : /\ call'[c].op = call[c].op
                        /\ call[c].at # "idle" => call'[c].at # "idle"
                        /\ call'[c].at \in {call[c].at, "done", "writing"}
                        /\ call'[c].at # "joining"
  BY <1>5, <1>6
<1>14. CodeTypes'
  BY <1>1, <1>3, <1>4, <1>7, <1>10, <1>12, TypeFacts DEF RelayTypes, FrontTypes
<1>15. LinksAreSound' /\ ShutdownIsSound'
  <2>1. \A j \in Links : link'[j] = "none" <=> link[j] = "none"
    BY <1>2, <1>3
  <2>2. LinksAreSound'
    BY <1>1, <1>2, <1>3, <1>4, <2>1, LinkFacts DEF LinksAreSound
  <2>3. ShutdownIsSound'
    BY <1>1, <1>2, <1>3, <1>4 DEF ShutdownIsSound, FrontTypes
  <2> QED BY <2>2, <2>3
<1>16. CallsAreSound'
  <2>1. ASSUME NEW c \in Calls PROVE CallIsSound(c)'
    <3>1. CASE call[c].at = "joining"
      BY <1>1, <1>4, <1>6, <3>1 DEF CallsAreSound, CallIsSound, Busy
    <3>2. CASE call[c].at # "joining"
      BY <1>1, <1>2, <1>3, <1>4, <1>5, <3>2 DEF CallsAreSound, CallIsSound
    <3> QED BY <3>1, <3>2
  <2>2. \A j \in Links : link'[j] = "ending" =>
          j = lastClient' \/ \E c \in Calls : call'[c].at = "ending" /\ call'[c].link = j
    BY <1>1, <1>3, <1>4, <1>5 DEF CallsAreSound
  <2> QED BY <1>4, <2>1, <2>2 DEF CallsAreSound
<1>17. ASSUME NEW j \in Links PROVE QueueIsSound(j)'
  <2>1. CASE j = k
    <3>1. queue'[j] = order /\ link'[j] = "open"
      BY <1>3, <1>12, <2>1
    <3>2. \A i \in 1 .. Len(order) : call'[order[i]].at = "writing" /\ call'[order[i]].link = j
      BY <1>9, <1>11, <2>1
    <3> QED BY <1>11, <3>1, <3>2 DEF QueueIsSound
  <2>2. CASE j # k
    <3>1. queue[j] # <<>> => link[j] \in {"open", "dying", "ending"}
      BY DEF BridgeInv, QueueIsSound
    <3>2. \A c \in Calls : call[c].at = "writing" =>
            call'[c].at = "writing" /\ call'[c].link = call[c].link
      BY <1>5
    <3> QED BY <1>3, <1>12, <2>2, <3>1, <3>2, QueueStaysSound
  <2> QED BY <2>1, <2>2
<1>18. ViewsAreKept'
  <2>1. Undisturbed' => Undisturbed
    BY <1>4, <1>13 DEF Undisturbed
  <2>2. Undisturbed' =>
          /\ ~poisoned' /\ ~rawWriteInProgress'
          /\ \A j \in Links : link'[j] # "ending"
          /\ \A c \in Calls : /\ call'[c].at # "viewLost"
                              /\ call'[c].at = "waiting" => c \in views'
    <3>1. Undisturbed => \A c \in writers : call[c].op # "raw"
      BY <1>9 DEF Undisturbed
    <3> QED BY <1>3, <1>4, <1>10, <1>13, <2>1, <3>1 DEF BridgeInv, ViewsAreKept
  <2> QED BY <1>2, <1>4, <2>2 DEF ViewsAreKept
<1>20. \A c \in Calls : TimelineIsSound(c)'
  BY <1>4, <1>5, <1>6 DEF BridgeInv, TimelineIsSound
<1>21. TabsKnowTheState'
  BY <1>2, <1>3, <1>4 DEF TabsKnowTheState, Connected
<1> QED BY <1>14, <1>15, <1>16, <1>17, <1>18, <1>20, <1>21 DEF BridgeInv

LEMMA OpenFailsKeepsInvariant ==
  ASSUME BridgeInv, NEW k \in Links, OpenFails(k), UNCHANGED frontVars
  PROVE  BridgeInv'
<1>1. RelayTypes /\ FrontTypes /\ LinksAreSound /\ ShutdownIsSound /\ CallsAreSound
  BY TypeFacts DEF BridgeInv
<1>2. link[k] = "connecting" /\ connecting = k /\ k # NoLink /\ client # k /\ lastClient # k
  <2>1. link[k] = "connecting" /\ k # NoLink
    BY LinkFacts DEF OpenFails
  <2>2. connecting = k /\ client # k
    BY <1>1, <2>1 DEF LinksAreSound
  <2> QED BY <1>1, <2>1, <2>2 DEF ShutdownIsSound
<1>3. /\ link' \in [Links -> LinkStates]
      /\ link'[k] = "closed" /\ \A j \in Links : j # k => link'[j] = link[j]
  BY <1>1 DEF OpenFails, RelayTypes, LinkStates
<1>4. /\ connecting' = NoLink /\ published' = Connected(client)
      /\ UNCHANGED <<client, watched, queue, rawWriteInProgress, poisoned, views, timeline,
                     stage, reply, phase, lastClient>>
  BY DEF OpenFails, frontVars
<1>5. /\ \A c \in Calls : call[c].at = "joining" =>
           call'[c] = [call[c] EXCEPT !.at = "connectFailed"]
      /\ \A c \in Calls : call[c].at # "joining" => call'[c] = call[c]
  BY <1>1, <1>2 DEF OpenFails, On, CallsAreSound, CallIsSound
<1>6. \A c \in Calls :
        /\ call'[c] \in CallRec /\ call'[c].op = call[c].op /\ call'[c].link = call[c].link
        /\ call[c].at = "joining" => call'[c].at = "connectFailed"
  <2> SUFFICES ASSUME NEW c \in Calls
               PROVE  /\ call'[c] \in CallRec
                      /\ call'[c].op = call[c].op /\ call'[c].link = call[c].link
                      /\ call[c].at = "joining" => call'[c].at = "connectFailed"
    OBVIOUS
  <2>1. call[c] \in CallRec
    BY <1>1 DEF RelayTypes
  <2> QED BY <1>5, <2>1 DEF CallRec, Outcomes
<1>7. call' \in [Calls -> CallRec]
  <2>1. call' = [c \in Calls |-> call'[c]]
    BY DEF OpenFails
  <2> QED BY <1>6, <2>1
<1>8. CodeTypes'
  <2>1. published' \in BOOLEAN
    BY <1>4 DEF Connected
  <2> QED BY <1>1, <1>3, <1>4, <1>7, <2>1, TypeFacts DEF RelayTypes, FrontTypes
<1>9. LinksAreSound' /\ ShutdownIsSound'
  <2>1. \A j \in Links : link'[j] = "none" <=> link[j] = "none"
    BY <1>2, <1>3
  <2>2. LinksAreSound'
    BY <1>1, <1>2, <1>3, <1>4, <2>1, LinkFacts DEF LinksAreSound
  <2>3. ShutdownIsSound'
    BY <1>1, <1>2, <1>3, <1>4 DEF ShutdownIsSound, FrontTypes
  <2> QED BY <2>2, <2>3
<1>10. CallsAreSound'
  <2>1. ASSUME NEW c \in Calls PROVE CallIsSound(c)'
    <3>1. CASE call[c].at = "joining"
      BY <1>6, <3>1 DEF CallIsSound, Busy
    <3>2. CASE call[c].at # "joining"
      BY <1>1, <1>2, <1>3, <1>4, <1>5, <3>2 DEF CallsAreSound, CallIsSound
    <3> QED BY <3>1, <3>2
  <2>2. \A j \in Links : link'[j] = "ending" =>
          j = lastClient' \/ \E c \in Calls : call'[c].at = "ending" /\ call'[c].link = j
    BY <1>1, <1>3, <1>4, <1>5 DEF CallsAreSound
  <2> QED BY <1>4, <2>1, <2>2 DEF CallsAreSound
<1>11. \A j \in Links : QueueIsSound(j)'
  <2> SUFFICES ASSUME NEW j \in Links PROVE QueueIsSound(j)'
    OBVIOUS
  <2>1. queue[j] # <<>> => link[j] \in {"open", "dying", "ending"}
    BY DEF BridgeInv, QueueIsSound
  <2>2. \A c \in Calls : call[c].at = "writing" =>
          call'[c].at = "writing" /\ call'[c].link = call[c].link
    BY <1>5
  <2> QED BY <1>2, <1>3, <1>4, <2>1, <2>2, QueueStaysSound
<1>12. ViewsAreKept'
  <2>1. \A c \in views' : client' # NoLink /\ call'[c].link = client' /\ call'[c].at # "idle"
    BY <1>1, <1>4, <1>5, <1>6 DEF BridgeInv, ViewsAreKept, RelayTypes
  <2>2. Undisturbed' => Undisturbed
    BY <1>4, <1>6 DEF Undisturbed
  <2>3. Undisturbed' =>
          /\ ~poisoned' /\ ~rawWriteInProgress'
          /\ \A j \in Links : link'[j] # "ending"
          /\ \A c \in Calls : /\ call'[c].at # "viewLost"
                              /\ call'[c].at = "waiting" => c \in views'
    BY <1>3, <1>4, <1>5, <1>6, <2>2 DEF BridgeInv, ViewsAreKept
  <2> QED BY <2>1, <2>3 DEF ViewsAreKept
<1>14. \A c \in Calls : TimelineIsSound(c)'
  BY <1>4, <1>5, <1>6 DEF BridgeInv, TimelineIsSound
<1>15. TabsKnowTheState'
  BY <1>1, <1>2, <1>3, <1>4 DEF TabsKnowTheState, Connected, RelayTypes
<1> QED BY <1>8, <1>9, <1>10, <1>11, <1>12, <1>14, <1>15 DEF BridgeInv

-----------------------------------------------------------------------------
(* Writes call back.                                                        *)

LEMMA WriteDoneKeepsInvariant ==
  ASSUME BridgeInv, NEW k \in Links, WriteDone(k), UNCHANGED frontVars
  PROVE  BridgeInv'
<1>1. RelayTypes /\ FrontTypes /\ LinksAreSound /\ ShutdownIsSound /\ CallsAreSound
  BY TypeFacts DEF BridgeInv
<1>2. /\ queue[k] \in Seq(Calls) /\ queue[k] # <<>> /\ QueueIsSound(k)
      /\ link[k] \in {"open", "dying", "ending"}
  BY QueueFacts DEF WriteDone, BridgeInv, QueueIsSound
<1>3. PICK c \in Calls : c = Head(queue[k])
  BY <1>2, HeadTailProperties
<1>4. /\ Len(queue[k]) \in Nat \ {0} /\ c = queue[k][1]
      /\ call[c].at = "writing" /\ call[c].link = k /\ call[c].op \in {"send", "raw"}
      /\ timeline[c] = <<>>
  <2>1. Len(queue[k]) \in Nat \ {0} /\ c = queue[k][1]
    BY <1>2, <1>3, EmptySeq
  <2>2. call[c].at = "writing" /\ call[c].link = k
    BY <1>2, <2>1 DEF QueueIsSound
  <2> QED BY <1>1, <2>1, <2>2
          DEF CallsAreSound, CallIsSound, BridgeInv, TimelineIsSound
<1> DEFINE sees == watched = k /\ ~rawWriteInProgress
           at == IF call[c].op = "raw" THEN "resuming" ELSE "waiting"
<1>5. /\ queue' = [queue EXCEPT ![k] = Tail(queue[k])]
      /\ call' = At(c, at)
      /\ poisoned' = (poisoned \/ (sees /\ call[c].op = "raw"))
      /\ IF sees /\ call[c].op = "send" /\ ~poisoned
           THEN /\ views' = views \cup {c}
                /\ timeline' = [timeline EXCEPT ![c] = Append(timeline[c], "out")]
           ELSE UNCHANGED <<views, timeline>>
      /\ UNCHANGED <<link, client, connecting, watched, rawWriteInProgress, published,
                     stage, reply, phase, lastClient>>
  BY <1>3 DEF WriteDone, Tapped, frontVars
<1>6. /\ call' \in [Calls -> CallRec]
      /\ call'[c].at = at /\ call'[c].op = call[c].op /\ call'[c].link = k
      /\ \A d \in Calls : d # c => call'[d] = call[d]
  <2>1. call[c] \in CallRec /\ at \in Busy
    BY <1>1 DEF RelayTypes, Busy
  <2>2. [call[c] EXCEPT !.at = at] \in CallRec
    BY <2>1 DEF CallRec
  <2> QED BY <1>1, <1>4, <1>5, <2>1, <2>2 DEF At, RelayTypes, CallRec
<1>7. \A d \in Calls : call'[d].op = call[d].op /\ call'[d].link = call[d].link
  BY <1>4, <1>6
<1>8. /\ timeline' \in [Calls -> Seq({"out", "in", "raw"})]
      /\ timeline'[c] \in {<<>>, <<"out">>} /\ (call[c].op = "raw" => timeline'[c] = <<>>)
      /\ \A d \in Calls : d # c => timeline'[d] = timeline[d]
  <2>1. CASE UNCHANGED timeline
    <3>1. timeline'[c] = <<>>
      BY <1>4, <2>1
    <3> QED BY <1>1, <2>1, <3>1 DEF RelayTypes
  <2>2. CASE sees /\ call[c].op = "send" /\ ~poisoned
    <3>1. Append(timeline[c], "out") = <<"out">>
      BY <1>4, TimelineFacts
    <3>2. timeline' = [timeline EXCEPT ![c] = <<"out">>]
      BY <1>5, <2>2, <3>1
    <3>3. <<"out">> \in Seq({"out", "in", "raw"})
      BY TimelineFacts
    <3>4. timeline \in [Calls -> Seq({"out", "in", "raw"})]
      BY <1>1 DEF RelayTypes
    <3>5. timeline'[c] = <<"out">>
      BY <3>2, <3>4
    <3>6. timeline' \in [Calls -> Seq({"out", "in", "raw"})]
      BY <3>2, <3>3, <3>4
    <3> QED BY <2>2, <3>2, <3>4, <3>5, <3>6
  <2> QED BY <1>5, <2>1, <2>2
<1> HIDE DEF at
<1>9. /\ queue' \in [Links -> Seq(Calls)]
      /\ queue'[k] = Tail(queue[k]) /\ \A j \in Links : j # k => queue'[j] = queue[j]
  BY <1>1, <1>2, <1>5, HeadTailProperties DEF RelayTypes
<1>10. CodeTypes'
  BY <1>1, <1>5, <1>6, <1>8, <1>9, TypeFacts DEF RelayTypes, FrontTypes
<1>11. LinksAreSound' /\ ShutdownIsSound'
  BY <1>1, <1>5 DEF LinksAreSound, ShutdownIsSound
<1>12. CallsAreSound'
  <2>1. CallIsSound(c)'
    BY <1>1, <1>2, <1>4, <1>5, <1>6 DEF at, CallsAreSound, CallIsSound, Busy
  <2>2. \A d \in Calls : d # c => CallIsSound(d)'
    BY <1>1, <1>5, <1>6 DEF CallsAreSound, CallIsSound
  <2>3. \A d \in Calls : call[d].at \in {"joining", "ending"} => call'[d] = call[d]
    BY <1>4, <1>6
  <2> QED BY <1>1, <1>5, <2>1, <2>2, <2>3 DEF CallsAreSound
<1>13. ASSUME NEW j \in Links PROVE QueueIsSound(j)'
  <2>1. QueueIsSound(j) /\ Len(queue[j]) \in Nat
        /\ \A i \in 1 .. Len(queue[j]) : queue[j][i] \in Calls
    BY QueueFacts DEF BridgeInv
  <2>2. CASE j = k
    <3>1. /\ Len(queue'[k]) = Len(queue[k]) - 1
          /\ \A i \in 1 .. Len(queue'[k]) : queue'[k][i] = queue[k][i + 1]
      BY <1>2, <1>9, HeadTailProperties
    <3>2. \A i \in 1 .. Len(queue'[k]) : i + 1 \in 1 .. Len(queue[k]) /\ i + 1 # 1
      BY <1>4, <3>1
    <3>3. \A i \in 1 .. Len(queue'[k]) :
            queue'[k][i] \in Calls /\ queue'[k][i] # c
            /\ call[queue'[k][i]].at = "writing" /\ call[queue'[k][i]].link = k
      BY <1>4, <2>1, <2>2, <3>1, <3>2 DEF QueueIsSound
    <3>4. ASSUME NEW i \in 1 .. Len(queue'[k]), NEW h \in 1 .. Len(queue'[k]), i # h
          PROVE  queue'[k][i] # queue'[k][h]
      <4>1. i + 1 # h + 1
        BY <3>4
      <4>2. queue[k][i + 1] # queue[k][h + 1]
        BY <1>2, <3>2, <4>1 DEF QueueIsSound
      <4> QED BY <3>1, <4>2
    <3>5. \A i \in 1 .. Len(queue'[k]) : /\ call'[queue'[k][i]].at = "writing"
                                         /\ call'[queue'[k][i]].link = k
      BY <1>6, <3>3
    <3>6. queue'[k] # <<>> => link'[k] \in {"open", "dying", "ending"}
      BY <1>2, <1>5
    <3> QED BY <2>2, <3>4, <3>5, <3>6 DEF QueueIsSound
  <2>3. CASE j # k
    <3>1. \A i \in 1 .. Len(queue[j]) : queue[j][i] # c
      BY <1>4, <2>1, <2>3 DEF QueueIsSound
    <3> QED BY <1>5, <1>6, <1>9, <2>1, <2>3, <3>1 DEF QueueIsSound
  <2> QED BY <2>2, <2>3
<1>14. Undisturbed => client = k /\ watched = k /\ sees /\ ~poisoned /\ call[c].op = "send"
  BY <1>1, <1>2, <1>4 DEF BridgeInv, ViewsAreKept, Undisturbed, LinksAreSound
<1>15. ViewsAreKept'
  <2>1. ASSUME NEW d \in views'
        PROVE  client' # NoLink /\ call'[d].link = client' /\ call'[d].at # "idle"
    <3>1. CASE d = c
      <4>1. client = k
        BY <1>1, <1>4, <1>5, <2>1, <3>1 DEF LinksAreSound, BridgeInv, ViewsAreKept
      <4> QED BY <1>5, <1>6, <3>1, <4>1, LinkFacts DEF at
    <3>2. CASE d # c
      BY <1>1, <1>5, <1>6, <2>1, <3>2 DEF BridgeInv, ViewsAreKept, RelayTypes
    <3> QED BY <3>1, <3>2
  <2>2. Undisturbed' => Undisturbed
    BY <1>5, <1>7 DEF Undisturbed
  <2>3. Undisturbed => ~poisoned' /\ views' = views \cup {c}
    BY <1>5, <1>14
  <2>4. Undisturbed' =>
          /\ ~poisoned' /\ ~rawWriteInProgress'
          /\ \A j \in Links : link'[j] # "ending"
          /\ \A d \in Calls : /\ call'[d].at # "viewLost"
                              /\ call'[d].at = "waiting" => d \in views'
    BY <1>5, <1>6, <2>2, <2>3 DEF at, BridgeInv, ViewsAreKept
  <2> QED BY <2>1, <2>4 DEF ViewsAreKept
<1>17. \A d \in Calls : TimelineIsSound(d)'
  BY <1>6, <1>8 DEF at, BridgeInv, TimelineIsSound
<1>18. TabsKnowTheState'
  BY <1>5 DEF BridgeInv, TabsKnowTheState, Connected
<1> QED BY <1>10, <1>11, <1>12, <1>13, <1>15, <1>17, <1>18 DEF BridgeInv

-----------------------------------------------------------------------------
(* Links end.                                                               *)

LEMMA DiesKeepsInvariant ==
  ASSUME BridgeInv, NEW k \in Links, Dies(k), UNCHANGED frontVars
  PROVE  BridgeInv'
<1>1. RelayTypes /\ FrontTypes /\ LinksAreSound /\ ShutdownIsSound /\ CallsAreSound
  BY TypeFacts DEF BridgeInv
<1>2. link[k] = "open" /\ client = k /\ lastClient # k
  BY <1>1 DEF Dies, LinksAreSound, ShutdownIsSound
<1>3. /\ link' \in [Links -> LinkStates]
      /\ link'[k] = "dying" /\ \A j \in Links : j # k => link'[j] = link[j]
  BY <1>1 DEF Dies, RelayTypes, LinkStates
<1>4. UNCHANGED <<client, connecting, watched, queue, rawWriteInProgress, poisoned, views,
                  call, timeline, published, stage, reply, phase, lastClient>>
  BY DEF Dies, frontVars
<1>5. CodeTypes'
  BY <1>1, <1>3, <1>4, TypeFacts DEF RelayTypes, FrontTypes
<1>6. LinksAreSound' /\ ShutdownIsSound'
  <2>1. /\ \A j \in Links : link'[j] = "none" <=> link[j] = "none"
        /\ \A j \in Links : link'[j] = "connecting" <=> link[j] = "connecting"
        /\ \A j \in Links : link'[j] \in {"open", "dying"} <=> link[j] \in {"open", "dying"}
        /\ \A j \in Links : link'[j] = "open" => link[j] = "open"
    BY <1>2, <1>3
  <2>2. LinksAreSound'
    BY <1>1, <1>4, <2>1 DEF LinksAreSound
  <2>3. ShutdownIsSound'
    BY <1>1, <1>2, <1>3, <1>4 DEF ShutdownIsSound, FrontTypes
  <2> QED BY <2>2, <2>3
<1>7. CallsAreSound'
  <2>1. \A c \in Calls : CallIsSound(c)'
    BY <1>1, <1>2, <1>3, <1>4 DEF CallsAreSound, CallIsSound
  <2> QED BY <1>1, <1>3, <1>4, <2>1 DEF CallsAreSound
<1>8. \A j \in Links : QueueIsSound(j)'
  <2> SUFFICES ASSUME NEW j \in Links PROVE QueueIsSound(j)'
    OBVIOUS
  <2>1. queue[j] # <<>> => link[j] \in {"open", "dying", "ending"}
    BY DEF BridgeInv, QueueIsSound
  <2> QED BY <1>3, <1>4, <2>1, QueueStaysSound
<1>9. ViewsAreKept'
  BY <1>3, <1>4 DEF BridgeInv, ViewsAreKept, Undisturbed
<1>10. \A c \in Calls : TimelineIsSound(c)'
  BY <1>4 DEF BridgeInv, TimelineIsSound
<1>11. TabsKnowTheState'
  BY <1>3 DEF TabsKnowTheState
<1> QED BY <1>5, <1>6, <1>7, <1>8, <1>9, <1>10, <1>11 DEF BridgeInv

\* Who loses a connection: nobody who still writes.
LEMMA LostFacts ==
  ASSUME RelayTypes, NEW k \in Links, call' = Lost(k)
  PROVE  /\ call' \in [Calls -> CallRec]
         /\ \A c \in Calls :
              /\ call'[c].op = call[c].op /\ call'[c].link = call[c].link
              /\ call'[c].at \in {call[c].at, "closed", "done"}
              /\ call[c].link = k => call'[c].at \notin {"waiting", "ending"}
              /\ call[c].link # k \/ call[c].at \notin {"waiting", "ending"} =>
                   call'[c] = call[c]
<1>1. ASSUME NEW c \in Calls
      PROVE  /\ call'[c] \in CallRec
             /\ call'[c].op = call[c].op /\ call'[c].link = call[c].link
             /\ call'[c].at \in {call[c].at, "closed", "done"}
             /\ call[c].link = k => call'[c].at \notin {"waiting", "ending"}
             /\ call[c].link # k \/ call[c].at \notin {"waiting", "ending"} =>
                  call'[c] = call[c]
  <2>1. call[c] \in CallRec
    BY DEF RelayTypes
  <2>2. call'[c] = IF call[c].link = k /\ call[c].at = "waiting"
                     THEN [call[c] EXCEPT !.at = "closed"]
                   ELSE IF call[c].link = k /\ call[c].at = "ending"
                     THEN [call[c] EXCEPT !.at = "done"]
                   ELSE call[c]
    BY DEF Lost
  <2> QED BY <2>1, <2>2 DEF CallRec, Outcomes
<1>2. call' = [c \in Calls |-> call'[c]]
  BY DEF Lost
<1> QED BY <1>1, <1>2

\* A connection ends by itself or after it was let go.
LEMMA ClosedKeepsInvariant ==
  ASSUME BridgeInv, NEW k \in Links, link[k] \in {"dying", "ending"}, queue[k] = <<>>,
         link' = [link EXCEPT ![k] = "closed"], call' = Lost(k),
         client' = (IF link[k] = "dying" THEN NoLink ELSE client), watched' = client',
         views' = (IF link[k] = "dying" THEN {} ELSE views),
         published' \in BOOLEAN, TabsKnowTheState',
         UNCHANGED <<connecting, queue, rawWriteInProgress, poisoned, timeline, frontVars>>
  PROVE  BridgeInv'
<1>1. RelayTypes /\ FrontTypes /\ LinksAreSound /\ ShutdownIsSound /\ CallsAreSound
  BY TypeFacts DEF BridgeInv
<1>2. link[k] = "dying" <=> client = k
  BY <1>1 DEF LinksAreSound
<1>3. /\ link' \in [Links -> LinkStates]
      /\ link'[k] = "closed" /\ \A j \in Links : j # k => link'[j] = link[j]
  BY <1>1 DEF RelayTypes, LinkStates
<1>4. /\ call' \in [Calls -> CallRec]
      /\ \A c \in Calls :
           /\ call'[c].op = call[c].op /\ call'[c].link = call[c].link
           /\ call'[c].at \in {call[c].at, "closed", "done"}
           /\ call[c].link = k => call'[c].at \notin {"waiting", "ending"}
           /\ call[c].link # k \/ call[c].at \notin {"waiting", "ending"} =>
                call'[c] = call[c]
  BY <1>1, LostFacts
<1>5. UNCHANGED <<connecting, queue, rawWriteInProgress, poisoned, timeline,
                  stage, reply, phase, lastClient>>
  BY DEF frontVars
<1>6. CodeTypes'
  <2>1. client' \in Links \cup {NoLink} /\ views' \subseteq Calls
    BY <1>1 DEF RelayTypes
  <2> QED BY <1>1, <1>3, <1>4, <1>5, <2>1, TypeFacts DEF RelayTypes, FrontTypes
<1>7. LinksAreSound' /\ ShutdownIsSound'
  <2>1. /\ \A j \in Links : link'[j] = "none" <=> link[j] = "none"
        /\ \A j \in Links : link'[j] = "connecting" <=> link[j] = "connecting"
        /\ \A j \in Links : link'[j] = "open" => link[j] = "open"
    BY <1>3
  <2>2. \A j \in Links : link'[j] \in {"open", "dying"} <=> j = client'
    BY <1>1, <1>2, <1>3, LinkFacts DEF LinksAreSound
  <2>3. connecting' # NoLink => client' < connecting' /\ lastClient' < connecting'
    BY <1>1, <1>5, LinkFacts DEF LinksAreSound, RelayTypes, NoLink, Links
  <2>4. client' # NoLink => lastClient' < client'
    BY <1>1, <1>5 DEF LinksAreSound
  <2>5. LinksAreSound'
    BY <1>1, <1>5, <2>1, <2>2, <2>3, <2>4 DEF LinksAreSound
  <2>6. ShutdownIsSound'
    BY <1>1, <1>3, <1>5 DEF ShutdownIsSound, FrontTypes
  <2> QED BY <2>5, <2>6
<1>8. CallsAreSound'
  <2>1. ASSUME NEW c \in Calls PROVE CallIsSound(c)'
    <3>1. CASE call[c].link # k \/ call[c].at \notin {"waiting", "ending"}
      <4>1. call'[c] = call[c]
        BY <1>4, <3>1
      <4> QED BY <1>1, <1>3, <1>5, <3>1, <4>1 DEF CallsAreSound, CallIsSound
    <3>2. CASE call[c].link = k /\ call[c].at \in {"waiting", "ending"}
      BY <1>4, <3>2 DEF CallIsSound, Busy
    <3> QED BY <3>1, <3>2
  <2>2. connecting' # NoLink => \E c \in Calls : call'[c].at = "joining"
    BY <1>1, <1>4, <1>5 DEF CallsAreSound
  <2>3. \A j \in Links : link'[j] = "ending" =>
          j = lastClient' \/ \E c \in Calls : call'[c].at = "ending" /\ call'[c].link = j
    BY <1>1, <1>3, <1>4, <1>5 DEF CallsAreSound
  <2> QED BY <2>1, <2>2, <2>3 DEF CallsAreSound
<1>9. \A j \in Links : QueueIsSound(j)'
  <2> SUFFICES ASSUME NEW j \in Links PROVE QueueIsSound(j)'
    OBVIOUS
  <2>1. queue[j] # <<>> => link'[j] \in {"open", "dying", "ending"}
    BY <1>3 DEF BridgeInv, QueueIsSound
  <2>2. \A c \in Calls : call[c].at = "writing" =>
          call'[c].at = "writing" /\ call'[c].link = call[c].link
    BY <1>4
  <2> QED BY <1>5, <2>1, <2>2, QueueStaysSound
<1>10. ViewsAreKept'
  <2>0. \A c \in Calls : call[c].at # "idle" => call'[c].at # "idle"
    BY <1>4
  <2>1. ASSUME NEW c \in views'
        PROVE  client' # NoLink /\ call'[c].link = client' /\ call'[c].at # "idle"
    <3>1. client # NoLink /\ call[c].link = client /\ call[c].at # "idle"
      BY <2>1 DEF BridgeInv, ViewsAreKept
    <3>2. c \in Calls /\ client' = client
      BY <1>1, <2>1 DEF RelayTypes
    <3> QED BY <1>4, <2>0, <3>1, <3>2
  <2>2. Undisturbed' => Undisturbed /\ link[k] = "dying"
    BY <1>4, <1>5 DEF Undisturbed, BridgeInv, ViewsAreKept
  <2>3. Undisturbed' => \A c \in Calls : call'[c].at # "waiting"
    <3>1. Undisturbed' => \A c \in Calls : call[c].at = "waiting" => call[c].link = k
      BY <1>2, <2>2 DEF BridgeInv, ViewsAreKept
    <3> QED BY <1>4, <3>1
  <2>4. Undisturbed' =>
          /\ ~poisoned' /\ ~rawWriteInProgress'
          /\ \A j \in Links : link'[j] # "ending"
          /\ \A c \in Calls : call'[c].at # "viewLost"
    <3>1. \A c \in Calls : call[c].at # "viewLost" => call'[c].at # "viewLost"
      BY <1>4
    <3> QED BY <1>3, <1>5, <2>2, <3>1 DEF BridgeInv, ViewsAreKept
  <2> QED BY <2>1, <2>3, <2>4 DEF ViewsAreKept
<1>12. \A c \in Calls : TimelineIsSound(c)'
  <2>1. ASSUME NEW c \in Calls PROVE TimelineIsSound(c)'
    <3>1. call'[c].at \in {"idle", "joining", "writing", "resuming", "waiting"} =>
            call'[c].at = call[c].at
      BY <1>4
    <3> QED BY <1>5, <3>1 DEF BridgeInv, TimelineIsSound
  <2> QED BY <2>1
<1> QED BY <1>6, <1>7, <1>8, <1>9, <1>10, <1>12 DEF BridgeInv

LEMMA LinkLostKeepsInvariant ==
  ASSUME BridgeInv, NEW k \in Links, LinkLost(k), UNCHANGED frontVars
  PROVE  BridgeInv'
<1>1. /\ link[k] = "dying" /\ queue[k] = <<>> /\ client' = NoLink /\ published' = FALSE
      /\ link' = [link EXCEPT ![k] = "closed"] /\ call' = Lost(k)
      /\ watched' = NoLink /\ views' = {}
      /\ UNCHANGED <<connecting, queue, rawWriteInProgress, poisoned, timeline, frontVars>>
  BY DEF LinkLost
<1>2. TabsKnowTheState'
  BY <1>1 DEF TabsKnowTheState, Connected
<1> QED BY <1>1, <1>2, ClosedKeepsInvariant

LEMMA LinkEndedKeepsInvariant ==
  ASSUME BridgeInv, NEW k \in Links, LinkEnded(k), UNCHANGED frontVars
  PROVE  BridgeInv'
<1>1. RelayTypes /\ LinksAreSound /\ ShutdownIsSound /\ CallsAreSound
  BY TypeFacts DEF BridgeInv
<1>2. /\ link[k] = "ending" /\ queue[k] = <<>>
      /\ link' = [link EXCEPT ![k] = "closed"] /\ call' = Lost(k)
      /\ published' = IF On(k, "ending") = {} THEN published ELSE Connected(client)
      /\ UNCHANGED <<client, watched, views>>
      /\ UNCHANGED <<connecting, queue, rawWriteInProgress, poisoned, timeline, frontVars>>
  BY DEF LinkEnded
<1>3. published' \in BOOLEAN /\ watched' = client'
  BY <1>1, <1>2 DEF RelayTypes, Connected, LinksAreSound
<1>4. TabsKnowTheState'
  <2>1. CASE phase = "serving"
    <3>1. lastClient # k
      BY <1>1, <2>1, LinkFacts DEF ShutdownIsSound
    <3>2. On(k, "ending") # {}
      BY <1>1, <1>2, <3>1 DEF CallsAreSound, On
    <3>3. client # k /\ (client # NoLink => link'[client] = link[client])
      BY <1>1, <1>2 DEF LinksAreSound, RelayTypes
    <3> QED BY <1>2, <3>2, <3>3 DEF TabsKnowTheState, Connected
  <2>2. CASE phase # "serving"
    BY <1>2, <2>2 DEF TabsKnowTheState, frontVars
  <2> QED BY <2>1, <2>2
<1> QED BY <1>2, <1>3, <1>4, ClosedKeepsInvariant

\* What letting the client go does to the links.
LEMMA LetGoFacts ==
  ASSUME BridgeInv, LetGo, client # NoLink
  PROVE  /\ client \in Links /\ link[client] \in {"open", "dying"} /\ lastClient # client
         /\ link' \in [Links -> LinkStates]
         /\ link'[client] = "ending" /\ \A j \in Links : j # client => link'[j] = link[j]
         /\ \A j \in Links : link'[j] = "none" <=> link[j] = "none"
         /\ \A j \in Links : link'[j] = "connecting" <=> link[j] = "connecting"
         /\ \A j \in Links : link'[j] \notin {"open", "dying"}
         /\ client' = NoLink /\ watched' = NoLink /\ views' = {}
<1>1. RelayTypes /\ LinksAreSound /\ ShutdownIsSound
  BY TypeFacts DEF BridgeInv
<1>2. client \in Links /\ link[client] \in {"open", "dying"} /\ lastClient # client
  BY <1>1 DEF RelayTypes, LinksAreSound, ShutdownIsSound
<1>3. /\ link' = [link EXCEPT ![client] = "ending"]
      /\ client' = NoLink /\ watched' = NoLink /\ views' = {}
  BY DEF LetGo
<1>4. /\ link' \in [Links -> LinkStates]
      /\ link'[client] = "ending" /\ \A j \in Links : j # client => link'[j] = link[j]
  BY <1>1, <1>2, <1>3 DEF RelayTypes, LinkStates
<1> QED BY <1>1, <1>2, <1>3, <1>4 DEF LinksAreSound

LEMMA DisconnectClientKeepsInvariant ==
  ASSUME BridgeInv, NEW c \in Calls, client # NoLink, LetGo,
         BeginFrame(c, [op |-> "disconnect", at |-> "ending", link |-> client]),
         UNCHANGED <<connecting, queue, rawWriteInProgress, poisoned, published>>
  PROVE  BridgeInv'
<1> DEFINE rec == [op |-> "disconnect", at |-> "ending", link |-> client]
<1>1. RelayTypes /\ FrontTypes /\ LinksAreSound /\ ShutdownIsSound /\ CallsAreSound
  BY TypeFacts DEF BridgeInv
<1>2. /\ client \in Links /\ link[client] \in {"open", "dying"} /\ lastClient # client
      /\ link' \in [Links -> LinkStates]
      /\ link'[client] = "ending" /\ \A j \in Links : j # client => link'[j] = link[j]
      /\ \A j \in Links : link'[j] = "none" <=> link[j] = "none"
      /\ \A j \in Links : link'[j] = "connecting" <=> link[j] = "connecting"
      /\ \A j \in Links : link'[j] \notin {"open", "dying"}
      /\ client' = NoLink /\ watched' = NoLink /\ views' = {}
  BY LetGoFacts
<1>3. rec \in CallRec /\ rec.op = "disconnect" /\ rec.at = "ending" /\ rec.link = client
  BY <1>2 DEF CallRec, Busy
<1> HIDE DEF rec
<1>4. /\ call' \in [Calls -> CallRec] /\ FrontTypes'
      /\ call'[c] = rec /\ \A d \in Calls : d # c => call'[d] = call[d]
      /\ stage'[c] = "relay" /\ \A d \in Calls : d # c => stage'[d] = stage[d]
      /\ call[c].at = "idle" /\ call[c].op = "none" /\ timeline[c] = <<>>
      /\ phase' = phase /\ lastClient' = lastClient /\ timeline' = timeline
      /\ phase # "closed"
      /\ \A d \in Calls : call[d].at = "writing" =>
           call'[d].at = "writing" /\ call'[d].link = call[d].link
  BY <1>3, BeginFacts DEF rec
<1>5. CodeTypes'
  BY <1>1, <1>2, <1>4, TypeFacts DEF RelayTypes
<1>6. LinksAreSound' /\ ShutdownIsSound'
  <2>1. LinksAreSound'
    <3>1. connecting' # NoLink => client' < connecting' /\ lastClient' < connecting'
      BY <1>1, <1>2, <1>4, LinkFacts DEF LinksAreSound, RelayTypes, NoLink, Links
    <3>2. \A j \in Links : link'[j] \in {"open", "dying"} <=> j = client'
      BY <1>2, LinkFacts
    <3>3. \A j \in Links : link'[j] = "connecting" <=> j = connecting'
      BY <1>1, <1>2 DEF LinksAreSound
    <3>4. \A i, j \in Links : i < j /\ link'[i] = "none" => link'[j] = "none"
      BY <1>1, <1>2 DEF LinksAreSound
    <3> QED BY <1>2, <3>1, <3>2, <3>3, <3>4 DEF LinksAreSound
  <2>2. ShutdownIsSound'
    BY <1>1, <1>2, <1>4 DEF ShutdownIsSound, FrontTypes
  <2> QED BY <2>1, <2>2
<1>7. CallsAreSound'
  <2>1. CallIsSound(c)'
    BY <1>2, <1>3, <1>4 DEF CallIsSound
  <2>2. ASSUME NEW d \in Calls, d # c PROVE CallIsSound(d)'
    BY <1>1, <1>2, <1>4, <2>2 DEF CallsAreSound, CallIsSound
  <2>3. connecting' # NoLink => \E d \in Calls : call'[d].at = "joining"
    BY <1>1, <1>4 DEF CallsAreSound
  <2>4. ASSUME NEW j \in Links, link'[j] = "ending"
        PROVE  j = lastClient' \/ \E d \in Calls : call'[d].at = "ending" /\ call'[d].link = j
    <3>1. CASE j = client
      BY <1>3, <1>4, <3>1
    <3>2. CASE j # client
      BY <1>1, <1>2, <1>4, <2>4, <3>2 DEF CallsAreSound
    <3> QED BY <3>1, <3>2
  <2> QED BY <2>1, <2>2, <2>3, <2>4 DEF CallsAreSound
<1>8. \A j \in Links : QueueIsSound(j)'
  <2> SUFFICES ASSUME NEW j \in Links PROVE QueueIsSound(j)'
    OBVIOUS
  <2>1. queue[j] # <<>> => link'[j] \in {"open", "dying", "ending"}
    BY <1>2 DEF BridgeInv, QueueIsSound
  <2> QED BY <1>4, <2>1, QueueStaysSound
<1>9. ViewsAreKept'
  BY <1>2, <1>3, <1>4 DEF ViewsAreKept, Undisturbed
<1>11. \A d \in Calls : TimelineIsSound(d)'
  BY <1>3, <1>4 DEF BridgeInv, TimelineIsSound
<1>12. TabsKnowTheState'
  BY <1>2 DEF TabsKnowTheState
<1> QED BY <1>5, <1>6, <1>7, <1>8, <1>9, <1>11, <1>12 DEF BridgeInv

LEMMA DisconnectKeepsInvariant ==
  ASSUME BridgeInv, NEW c \in Calls,
         Disconnect(c), Enter(c, "relay"), UNCHANGED <<phase, lastClient>>, phase # "closed"
  PROVE  BridgeInv'
<1>1. ASSUME NEW rec, call' = [call EXCEPT ![c] = rec] PROVE BeginFrame(c, rec)
  BY <1>1 DEF Disconnect, Enter, BeginFrame
<1>2. CASE client = NoLink
  BY <1>1, <1>2, DisconnectNothingKeepsInvariant DEF Disconnect
<1>3. CASE client # NoLink
  BY <1>1, <1>3, DisconnectClientKeepsInvariant DEF Disconnect
<1> QED BY <1>2, <1>3

-----------------------------------------------------------------------------
(* The shutdown.                                                            *)

LEMMA CloseBridgeKeepsInvariant ==
  ASSUME BridgeInv, CloseBridge
  PROVE  BridgeInv'
<1>1. RelayTypes /\ FrontTypes /\ LinksAreSound /\ ShutdownIsSound /\ CallsAreSound
  BY TypeFacts DEF BridgeInv
<1>2. /\ phase = "serving" /\ phase' = "closingRelay" /\ lastClient' = client /\ LetGo
      /\ lastClient = NoLink
      /\ UNCHANGED <<connecting, queue, rawWriteInProgress, poisoned, call, timeline, published>>
  BY <1>1 DEF CloseBridge, ShutdownIsSound
<1>3. /\ client' = NoLink /\ watched' = NoLink /\ views' = {}
      /\ link' \in [Links -> LinkStates]
      /\ client # NoLink => client \in Links /\ link'[client] = "ending"
      /\ \A j \in Links : j # client => link'[j] = link[j]
      /\ \A j \in Links : link'[j] = "none" <=> link[j] = "none"
      /\ \A j \in Links : link'[j] = "connecting" <=> link[j] = "connecting"
      /\ \A j \in Links : link'[j] \notin {"open", "dying"}
  <2>1. CASE client = NoLink
    BY <1>1, <1>2, <2>1, LinkFacts DEF LetGo, LinksAreSound, RelayTypes
  <2>2. CASE client # NoLink
    BY <1>2, <2>2, LetGoFacts
  <2> QED BY <2>1, <2>2
<1>4. FrontTypes' /\ \A c \in Calls : stage[c] = "relay" => stage'[c] = "relay"
  <2>1. /\ stage' = [r \in Calls |-> IF stage[r] = "stream" THEN "answered" ELSE stage[r]]
        /\ reply' = [r \in Calls |-> IF stage[r] = "stream" THEN 200 ELSE reply[r]]
    BY DEF CloseBridge
  <2> QED BY <1>1, <1>2, <2>1 DEF FrontTypes, RelayTypes
<1>5. CodeTypes'
  BY <1>1, <1>2, <1>3, <1>4, TypeFacts DEF RelayTypes
<1>6. LinksAreSound' /\ ShutdownIsSound'
  <2>1. LinksAreSound'
    BY <1>1, <1>2, <1>3, LinkFacts DEF LinksAreSound, RelayTypes, NoLink, Links
  <2>2. ShutdownIsSound'
    BY <1>2, <1>3 DEF ShutdownIsSound
  <2> QED BY <2>1, <2>2
<1>7. CallsAreSound'
  <2>1. ASSUME NEW c \in Calls PROVE CallIsSound(c)'
    <3>1. CallIsSound(c) /\ (call[c].at \in Busy => stage'[c] = "relay")
      BY <1>1, <1>4 DEF CallsAreSound, CallIsSound
    <3>2. \A j \in Links : /\ link[j] = "ending" => link'[j] = "ending"
                           /\ link[j] \in {"open", "dying"} => link'[j] = "ending"
      BY <1>1, <1>3, LinkFacts DEF LinksAreSound
    <3>3. call[c].at = "waiting" => link'[call[c].link] \in {"open", "dying", "ending"}
      BY <3>1, <3>2 DEF CallIsSound
    <3> QED BY <1>2, <3>1, <3>2, <3>3 DEF CallIsSound
  <2>2. \A j \in Links : link'[j] = "ending" =>
          j = lastClient' \/ \E c \in Calls : call'[c].at = "ending" /\ call'[c].link = j
    BY <1>1, <1>2, <1>3, LinkFacts DEF CallsAreSound
  <2> QED BY <1>1, <1>2, <2>1, <2>2 DEF CallsAreSound
<1>8. \A j \in Links : QueueIsSound(j)'
  <2> SUFFICES ASSUME NEW j \in Links PROVE QueueIsSound(j)'
    OBVIOUS
  <2>1. queue[j] # <<>> => link'[j] \in {"open", "dying", "ending"}
    BY <1>3, LinkFacts DEF BridgeInv, QueueIsSound
  <2> QED BY <1>2, <2>1, QueueStaysSound
<1>9. ViewsAreKept'
  BY <1>2, <1>3 DEF ViewsAreKept, Undisturbed
<1>10. \A c \in Calls : TimelineIsSound(c)'
  BY <1>2 DEF BridgeInv, TimelineIsSound
<1>11. TabsKnowTheState'
  BY <1>2 DEF TabsKnowTheState
<1> QED BY <1>5, <1>6, <1>7, <1>8, <1>9, <1>10, <1>11 DEF BridgeInv

LEMMA InitMeetsInvariant ==
  ASSUME BridgeInit
  PROVE  BridgeInv
<1> USE DEF BridgeInit, RelayInit
<1>1. CodeTypes
  <2>1. RelayTypes
    <3>1. [op |-> "none", at |-> "idle", link |-> NoLink] \in CallRec
      BY DEF CallRec
    <3>2. <<>> \in Seq(Calls) /\ <<>> \in Seq({"out", "in", "raw"})
      OBVIOUS
    <3> QED BY <3>1, <3>2 DEF RelayTypes, LinkStates
  <2>2. FrontTypes
    BY DEF FrontTypes
  <2> QED BY <2>1, <2>2, TypeFacts
<1>2. LinksAreSound
  BY LinkFacts DEF LinksAreSound
<1>3. ShutdownIsSound
  BY DEF ShutdownIsSound
<1>4. CallsAreSound
  BY DEF CallsAreSound, CallIsSound, Busy
<1>5. \A k \in Links : QueueIsSound(k)
  BY EmptySeq DEF QueueIsSound
<1>6. ViewsAreKept
  BY DEF ViewsAreKept
<1>8. TabsKnowTheState
  BY DEF TabsKnowTheState, Connected
<1>9. \A c \in Calls : TimelineIsSound(c)
  BY DEF TimelineIsSound
<1> QED BY <1>1, <1>2, <1>3, <1>4, <1>5, <1>6, <1>8, <1>9 DEF BridgeInv

LEMMA StepKeepsInvariant ==
  ASSUME BridgeInv, Step \/ UNCHANGED codeVars
  PROVE  BridgeInv'
<1>1. ASSUME NEW r \in Calls, NEW s \in Shapes[r], Arrive(r, s) PROVE BridgeInv'
  <2>1. phase # "closed" /\ UNCHANGED <<phase, lastClient>>
    BY <1>1 DEF Arrive, Listening
  <2>2. CASE Begin(r, "connect") /\ Enter(r, "relay")
    BY <2>1, <2>2, BeginKeepsInvariant
  <2>3. CASE Disconnect(r) /\ Enter(r, "relay")
    BY <2>1, <2>3, DisconnectKeepsInvariant
  <2>4. CASE \/ Answered(r, s)
             \/ Subscribe(r)
             \/ /\ Enter(r, IF s.path = "request" THEN "operation" ELSE "bytes")
                /\ UNCHANGED relayVars
    <3>1. FrontStep
      BY <1>1, <2>1, <2>4 DEF FrontStep, Arrive
    <3> QED BY <3>1, FrontStepKeepsInvariant
  <2> QED BY <1>1, <2>2, <2>3, <2>4 DEF Arrive
<1>2. ASSUME NEW r \in Calls, BodyRead(r) PROVE BridgeInv'
  <2>1. /\ stage[r] \in {"operation", "bytes"} /\ phase # "closed"
        /\ UNCHANGED <<phase, lastClient>>
    BY <1>2 DEF BodyRead, BridgeInv, ShutdownIsSound
  <2>2. CASE Begin(r, IF stage[r] = "operation" THEN "send" ELSE "raw") /\ Enter(r, "relay")
    BY <2>1, <2>2, BeginKeepsInvariant
  <2>3. CASE Reply(r, 400) /\ UNCHANGED relayVars
    <3>1. FrontStep
      BY <2>1, <2>3 DEF FrontStep
    <3> QED BY <3>1, FrontStepKeepsInvariant
  <2> QED BY <1>2, <2>2, <2>3 DEF BodyRead
<1>3. ASSUME NEW r \in Calls, TabCloses(r) \/ Answer(r) PROVE BridgeInv'
  BY <1>3, FrontStepKeepsInvariant DEF FrontStep
<1>4. CASE RelayStep /\ UNCHANGED frontVars
  BY <1>4, RelayCallKeepsInvariant, OpenedKeepsInvariant, OpenFailsKeepsInvariant,
     WriteDoneKeepsInvariant, DiesKeepsInvariant, LinkLostKeepsInvariant, LinkEndedKeepsInvariant
     DEF RelayStep
<1>5. CASE RelayClosed \/ ListenerClosed
  BY <1>5, FrontStepKeepsInvariant DEF FrontStep
<1>6. CASE CloseBridge
  BY <1>6, CloseBridgeKeepsInvariant
<1>7. CASE UNCHANGED codeVars
  <2>1. UNCHANGED relayVars /\ UNCHANGED frontVars
    BY <1>7 DEF codeVars
  <2>2. FrontTypes' /\ ShutdownIsSound'
    BY <2>1, TypeFacts DEF BridgeInv, FrontTypes, ShutdownIsSound, frontVars, relayVars
  <2>3. \A c \in Calls : call[c].at \in Busy => stage'[c] = "relay"
    BY <2>1 DEF BridgeInv, CallsAreSound, CallIsSound, frontVars
  <2>4. lastClient' = lastClient /\ phase' = phase
    BY <2>1 DEF frontVars
  <2> QED BY <2>1, <2>2, <2>3, <2>4, FrontKeepsInvariant
<1> QED BY <1>1, <1>2, <1>3, <1>4, <1>5, <1>6, <1>7 DEF Step

-----------------------------------------------------------------------------
(* Raw bytes, and those that were under way together.                       *)

\* A raw write that never was under way with another is marked from its
\* beginning to its end.
RawIsMarked ==
  /\ met \subseteq Calls /\ Together \subseteq met
  /\ \A c \in Calls \ met : call[c].op = "raw" /\ call[c].at = "writing" => rawWriteInProgress

RawWriting == {c \in Calls : call[c].op = "raw" /\ call[c].at = "writing"}

\* What a step does that begins no raw write and ends none.
RawIsLeft ==
  /\ RawWriting' \subseteq RawWriting
  /\ rawWriteInProgress' = rawWriteInProgress

LEMMA BeginRaisesTheFlag ==
  ASSUME BridgeInv, NEW c \in Calls, NEW op \in {"connect", "send", "raw"}, Begin(c, op)
  PROVE  /\ rawWriteInProgress => rawWriteInProgress'
         /\ RawWriting' \subseteq RawWriting \/ rawWriteInProgress'
         /\ poisoned' => poisoned
<1>1. call \in [Calls -> CallRec] /\ poisoned \in BOOLEAN
  BY TypeFacts DEF BridgeInv, RelayTypes
<1>2. CASE Connected(client)
  <2>1. /\ call' = [call EXCEPT ![c] = Begun(c, client, op)]
        /\ rawWriteInProgress' = (rawWriteInProgress \/ op = "raw") /\ poisoned' = poisoned
    BY <1>2 DEF Begin
  <2>2. Begun(c, client, op).op = op
    BY DEF Begun
  <2>3. op # "raw" => RawWriting' \subseteq RawWriting
    BY <1>1, <2>1, <2>2 DEF RawWriting
  <2> QED BY <2>1, <2>3
<1>3. CASE ~Connected(client)
  <2>1. rawWriteInProgress' = rawWriteInProgress /\ StartAttempt(c, op)
    BY <1>3 DEF Begin
  <2>2. \E k : call' = [call EXCEPT ![c] = [op |-> op, at |-> "joining", link |-> k]]
    BY <2>1 DEF StartAttempt
  <2>3. RawWriting' \subseteq RawWriting
    BY <1>1, <2>2 DEF RawWriting
  <2>4. poisoned' => poisoned
    BY <2>1 DEF StartAttempt
  <2> QED BY <2>1, <2>3, <2>4
<1> QED BY <1>2, <1>3

LEMMA OpenedRaisesTheFlag ==
  ASSUME BridgeInv, NEW k \in Links, Opened(k)
  PROVE  /\ rawWriteInProgress => rawWriteInProgress'
         /\ RawWriting' \subseteq RawWriting \/ rawWriteInProgress'
         /\ poisoned' = poisoned
<1> DEFINE writers == {c \in On(k, "joining") : call[c].op # "connect"}
<1>1. /\ rawWriteInProgress' = (rawWriteInProgress \/ \E c \in writers : call[c].op = "raw")
      /\ poisoned' = poisoned
  BY DEF Opened
<1>2. /\ \A c \in Calls : c \notin On(k, "joining") => call'[c] = call[c]
      /\ \A c \in Calls : c \in On(k, "joining") => call'[c] = Begun(c, k, call[c].op)
  BY DEF Opened
<1>3. ASSUME NEW c \in Calls, c \in RawWriting', c \notin RawWriting PROVE rawWriteInProgress'
  <2>0. call'[c] # call[c]
    BY <1>3 DEF RawWriting
  <2>1. c \in On(k, "joining")
    BY <1>2, <2>0
  <2>2. call'[c].op = call[c].op
    <3>1. call'[c] = Begun(c, k, call[c].op)
      BY <1>2, <2>1
    <3>2. \A op : Begun(c, k, op).op = op
      BY DEF Begun
    <3> QED BY <3>1, <3>2
  <2>3. c \in writers /\ call[c].op = "raw"
    BY <1>3, <2>1, <2>2 DEF RawWriting
  <2> QED BY <1>1, <2>3
<1>4. RawWriting' \subseteq Calls
  BY DEF RawWriting
<1> QED BY <1>1, <1>3, <1>4

\* The end of a raw write is the one step that lowers the flag, and the
\* callback of one that is not marked the one that poisons the decoder.
LEMMA StepsOfRaw ==
  ASSUME BridgeInv, Step \/ UNCHANGED codeVars
  PROVE  /\ rawWriteInProgress => rawWriteInProgress' \/ \E c \in Calls : RawResumes(c)
         /\ RawWriting' \subseteq RawWriting \/ rawWriteInProgress'
         /\ poisoned' => poisoned \/ \E k \in Links : WriteDone(k)
<1>0. call \in [Calls -> CallRec]
  BY TypeFacts DEF BridgeInv, RelayTypes
<1>1. ASSUME UNCHANGED <<call, rawWriteInProgress, poisoned>>
      PROVE  RawIsLeft /\ poisoned' = poisoned
  BY <1>1 DEF RawIsLeft, RawWriting
\* A call that is not there, or where it cannot write, is where it cannot write.
<1>2. ASSUME NEW c \in Calls, NEW rec, call' = [call EXCEPT ![c] = rec], rec.at # "writing",
             UNCHANGED <<rawWriteInProgress, poisoned>>
      PROVE  RawIsLeft /\ poisoned' = poisoned
  BY <1>0, <1>2 DEF RawIsLeft, RawWriting
<1>3. ASSUME NEW c \in Calls, NEW op \in {"connect", "send", "raw"}, Begin(c, op)
      PROVE  /\ rawWriteInProgress => rawWriteInProgress'
             /\ RawWriting' \subseteq RawWriting \/ rawWriteInProgress'
             /\ poisoned' => poisoned
  BY <1>3, BeginRaisesTheFlag
<1>4. ASSUME NEW r \in Calls, NEW s \in Shapes[r], Arrive(r, s)
      PROVE  /\ rawWriteInProgress => rawWriteInProgress'
             /\ RawWriting' \subseteq RawWriting \/ rawWriteInProgress'
             /\ poisoned' => poisoned
  <2>1. CASE Begin(r, "connect")
    BY <1>3, <2>1
  <2>2. CASE Disconnect(r)
    <3>1. \E k : \E at \in {"done", "ending"} :
            call' = [call EXCEPT ![r] = [op |-> "disconnect", at |-> at, link |-> k]]
      BY <2>2 DEF Disconnect
    <3> QED BY <1>2, <2>2, <3>1 DEF Disconnect, RawIsLeft
  <2>3. CASE UNCHANGED relayVars
    BY <1>1, <2>3 DEF relayVars, RawIsLeft
  <2> QED BY <1>4, <2>1, <2>2, <2>3 DEF Arrive, Answered, Subscribe
<1>5. ASSUME NEW r \in Calls, BodyRead(r)
      PROVE  /\ rawWriteInProgress => rawWriteInProgress'
             /\ RawWriting' \subseteq RawWriting \/ rawWriteInProgress'
             /\ poisoned' => poisoned
  <2>1. CASE UNCHANGED relayVars
    BY <1>1, <2>1 DEF relayVars, RawIsLeft
  <2> QED BY <1>3, <1>5, <2>1 DEF BodyRead
<1>6. CASE \/ \E r \in Calls : TabCloses(r) \/ Answer(r)
           \/ RelayClosed \/ ListenerClosed \/ UNCHANGED codeVars
  <2>1. UNCHANGED relayVars
    BY <1>6 DEF TabCloses, Answer, RelayClosed, ListenerClosed, codeVars
  <2> QED BY <1>1, <2>1 DEF relayVars, RawIsLeft
<1>7. CASE CloseBridge
  BY <1>1, <1>7 DEF CloseBridge, RawIsLeft
<1>8. ASSUME NEW c \in Calls, RawResumes(c)
      PROVE  RawWriting' \subseteq RawWriting /\ poisoned' = poisoned
  <2>1. \A d \in Calls : d # c => call'[d] = call[d]
    BY <1>8 DEF RawResumes, At
  <2>2. call'[c].at = "done"
    <3>1. call[c] \in CallRec
      BY <1>0
    <3> QED BY <1>0, <1>8, <3>1 DEF RawResumes, At, CallRec
  <2> QED BY <1>8, <2>1, <2>2 DEF RawResumes, RawWriting
<1>9. ASSUME NEW c \in Calls, Response(c) \/ Timeout(c)
      PROVE  RawIsLeft /\ poisoned' = poisoned
  <2>1. PICK at : call' = At(c, at) /\ at # "writing"
    BY <1>9 DEF Response, Timeout
  <2>2. PICK rec : rec = [call[c] EXCEPT !.at = at]
    OBVIOUS
  <2>3. call' = [call EXCEPT ![c] = rec]
    BY <2>1, <2>2 DEF At
  <2>4. rec.at # "writing"
    <3>1. call[c] \in CallRec
      BY <1>0
    <3> QED BY <2>1, <2>2, <3>1 DEF CallRec
  <2> QED BY <1>2, <1>9, <2>3, <2>4 DEF Response, Timeout
<1>10. ASSUME NEW k \in Links, OpenFails(k) \/ LinkLost(k) \/ LinkEnded(k) \/ Dies(k)
       PROVE  RawIsLeft /\ poisoned' = poisoned
  <2>1. \A c \in Calls : call'[c] = call[c] \/ call'[c].at # "writing"
    <3> SUFFICES ASSUME NEW c \in Calls PROVE call'[c] = call[c] \/ call'[c].at # "writing"
      OBVIOUS
    <3>1. call[c] \in CallRec
      BY <1>0
    <3> QED BY <1>10, <3>1 DEF OpenFails, LinkLost, LinkEnded, Dies, Lost, CallRec
  <2>2. UNCHANGED <<rawWriteInProgress, poisoned>>
    BY <1>10 DEF OpenFails, LinkLost, LinkEnded, Dies
  <2> QED BY <2>1, <2>2 DEF RawIsLeft, RawWriting
<1>11. ASSUME NEW k \in Links, WriteDone(k) PROVE RawIsLeft
  <2>1. Head(queue[k]) \in Calls
    BY <1>11, QueueFacts, HeadTailProperties DEF WriteDone
  <2>2. PICK c \in Calls : c = Head(queue[k])
    BY <2>1
  <2>3. /\ call' = At(c, IF call[c].op = "raw" THEN "resuming" ELSE "waiting")
        /\ rawWriteInProgress' = rawWriteInProgress
    BY <1>11, <2>2 DEF WriteDone
  <2> QED BY <1>0, <2>3 DEF At, RawIsLeft, RawWriting
<1>12. CASE RelayStep
  BY <1>8, <1>9, <1>10, <1>11, <1>12, OpenedRaisesTheFlag DEF RelayStep, RawIsLeft
<1> QED BY <1>4, <1>5, <1>6, <1>7, <1>12 DEF Step, RawIsLeft

LEMMA RawStaysMarked ==
  ASSUME BridgeInv, RawIsMarked, [Next]_bridgeVars
  PROVE  RawIsMarked'
<1>1. (Step \/ UNCHANGED codeVars) /\ (met' = met \cup Together' \/ UNCHANGED <<call, met>>)
  BY DEF Next, bridgeVars, codeVars, relayVars
<1>2. met \subseteq met' /\ met' \subseteq Calls /\ Together' \subseteq met'
  <2>1. Together' \subseteq Calls
    BY DEF Together, RawUnderWay
  <2>2. CASE UNCHANGED <<call, met>>
    BY <2>2 DEF RawIsMarked, Together, RawUnderWay
  <2> QED BY <1>1, <2>1, <2>2 DEF RawIsMarked
<1>3. ASSUME NEW c \in Calls \ met', c \in RawWriting' PROVE rawWriteInProgress'
  <2>1. CASE c \notin RawWriting
    BY <1>1, <1>3, <2>1, StepsOfRaw
  <2>2. CASE c \in RawWriting
    <3>1. rawWriteInProgress /\ c \notin Together
      BY <1>2, <1>3, <2>2 DEF RawIsMarked, RawWriting
    <3>2. ASSUME NEW d \in Calls, RawResumes(d) PROVE FALSE
      <4>1. call[d].at = "resuming" /\ call[d].op = "raw"
        BY <3>2 DEF RawResumes, BridgeInv, CallsAreSound, CallIsSound
      <4>2. c \in RawUnderWay /\ d \in RawUnderWay /\ c # d
        BY <2>2, <4>1 DEF RawUnderWay, RawWriting
      <4> QED BY <3>1, <4>2 DEF Together
    <3> QED BY <1>1, <3>1, <3>2, StepsOfRaw
  <2> QED BY <2>1, <2>2
<1> QED BY <1>2, <1>3 DEF RawIsMarked, RawWriting

-----------------------------------------------------------------------------
(* The theorems.                                                            *)

LEMMA InvariantHolds == Spec => [](BridgeInv /\ RawIsMarked)
<1>1. BridgeInit => BridgeInv /\ RawIsMarked
  <2> SUFFICES ASSUME BridgeInit PROVE RawIsMarked
    BY InitMeetsInvariant
  <2>1. met = {} /\ \A c \in Calls : call[c].at = "idle"
    BY DEF BridgeInit, RelayInit
  <2> QED BY <2>1 DEF RawIsMarked, Together, RawUnderWay
<1>2. BridgeInv /\ RawIsMarked /\ [Next]_bridgeVars => (BridgeInv /\ RawIsMarked)'
  BY StepKeepsInvariant, RawStaysMarked DEF Next, bridgeVars
<1> QED BY <1>1, <1>2, PTL DEF Spec

\* There is one connection at a time, whoever presses Connect and whenever, and
\* once the shutdown has returned nothing is under way (relay.ts openConnection,
\* RunningBridge.close).
THEOREM OneConnection == Spec => []ConnectionsAreSound
<1>1. BridgeInv => OneSocket
  <2> SUFFICES ASSUME BridgeInv PROVE OneSocket
    OBVIOUS
  <2> DEFINE S == {k \in Links : link[k] \in {"connecting", "open"}}
  <2>1. RelayTypes /\ LinksAreSound
    BY TypeFacts DEF BridgeInv
  <2>2. PICK one : S \subseteq {one}
    <3>1. CASE connecting = NoLink
      <4>1. S \subseteq {client}
        BY <2>1, <3>1, LinkFacts DEF LinksAreSound
      <4> QED BY <4>1
    <3>2. CASE connecting # NoLink
      <4>1. S \subseteq {connecting}
        BY <2>1, <3>2 DEF LinksAreSound
      <4> QED BY <4>1
    <3> QED BY <3>1, <3>2
  <2>3. Cardinality(S) <= Cardinality({one})
    BY <2>2, FS_Singleton, FS_Subset
  <2>4. Cardinality({one}) = 1
    BY FS_Singleton
  <2> QED BY <2>3, <2>4 DEF OneSocket
<1>2. BridgeInv => ClosedIsQuiet
  <2> SUFFICES ASSUME BridgeInv, phase = "closed"
               PROVE  /\ connecting = NoLink
                      /\ \A c \in Calls : call[c].at \in {"idle"} \cup DOMAIN Outcome
                      /\ \A k \in Links : link[k] \in {"open", "dying", "ending"} => k > lastClient
    BY DEF ClosedIsQuiet
  <2>1. RelayTypes /\ FrontTypes /\ LinksAreSound /\ ShutdownIsSound /\ CallsAreSound
    BY TypeFacts DEF BridgeInv
  <2>2. \A c \in Calls : call[c].at \notin Busy
    BY <2>1 DEF ShutdownIsSound, CallsAreSound, CallIsSound
  <2>3. \A c \in Calls : call[c].at \in {"idle"} \cup DOMAIN Outcome
    <3>1. \A c \in Calls : call[c].at \in {"idle"} \cup Busy \cup Outcomes
      BY <2>1 DEF RelayTypes, CallRec
    <3> QED BY <2>2, <3>1, OutcomeFacts
  <2>4. connecting = NoLink
    BY <2>1, <2>2 DEF CallsAreSound, Busy
  <2>5. ASSUME NEW k \in Links, link[k] \in {"open", "dying", "ending"}
        PROVE  k > lastClient
    <3>1. link[k] # "ending"
      BY <2>1, <2>2, <2>5, LinkFacts DEF CallsAreSound, Busy, ShutdownIsSound
    <3>2. k = client
      BY <2>1, <2>5, <3>1 DEF LinksAreSound
    <3> QED BY <2>1, <3>2, LinkFacts DEF LinksAreSound, FrontTypes
  <2> QED BY <2>3, <2>4, <2>5
<1>3. BridgeInv /\ RawIsMarked => ConnectionsAreSound
  BY <1>1, <1>2, TypeOKFacts DEF BridgeInv, RawIsMarked, ConnectionsAreSound
<1> QED BY <1>3, InvariantHolds, PTL

\* A view that is kept belongs to a request written on the client's connection,
\* and while nobody disconnects, sends raw bytes or closes the bridge every
\* response finds the view of its request (relay.ts sentViews, takeSentView).
THEOREM ViewsMatchRequests == Spec => []ViewsAreSound
<1>1. BridgeInv => ViewsAreSound
  BY DEF BridgeInv, ViewsAreKept, Undisturbed, ViewsAreSound, ViewsBelongToTheClient, ViewsAreFound
<1> QED BY <1>1, InvariantHolds, PTL

\* Raw bytes that reach the decoder of what was sent are of a write that was
\* under way together with another raw one: all others are marked until they are
\* written (relay.ts sendRaw, rawWriteInProgress).
THEOREM RawStaysApart == Spec => RawIsKeptApart
<1>1. BridgeInv /\ RawIsMarked /\ [Next]_bridgeVars =>
        [(poisoned' /\ ~poisoned) =>
           \E c \in met : call[c].at = "writing" /\ call'[c].at = "resuming"]_bridgeVars
  <2> SUFFICES ASSUME BridgeInv, RawIsMarked, Step, poisoned', ~poisoned
               PROVE  \E c \in met : call[c].at = "writing" /\ call'[c].at = "resuming"
    BY DEF Next
  <2>1. PICK k \in Links : WriteDone(k)
    BY StepsOfRaw
  <2>2. PICK c \in Calls : c = Head(queue[k])
    BY <2>1, QueueFacts, HeadTailProperties DEF WriteDone
  <2>3. call[c].at = "writing"
    <3>1. QueueIsSound(k) /\ Len(queue[k]) \in Nat \ {0} /\ c = queue[k][1]
      BY <2>1, <2>2, QueueFacts, EmptySeq DEF WriteDone, BridgeInv
    <3> QED BY <3>1 DEF QueueIsSound
  <2>4. /\ call' = At(c, IF call[c].op = "raw" THEN "resuming" ELSE "waiting")
        /\ ~rawWriteInProgress /\ call[c].op = "raw"
    BY <2>1, <2>2 DEF WriteDone, Tapped
  <2>5. call'[c].at = "resuming"
    <3>1. call \in [Calls -> CallRec] /\ call[c] \in CallRec
      BY TypeFacts DEF BridgeInv, RelayTypes
    <3> QED BY <2>4, <3>1 DEF At, CallRec
  <2>6. c \in met
    BY <2>3, <2>4 DEF RawIsMarked
  <2> QED BY <2>3, <2>5, <2>6
<1> QED BY <1>1, InvariantHolds, PTL DEF Spec, RawIsKeptApart

\* The tabs were last told whether there is a connection, and hear of a request
\* before its response and of neither twice (relay.ts publishStatus, events.ts).
THEOREM TabsHearTheTruth == Spec => []TabsAreToldTheTruth
<1>1. BridgeInv => TabsAreToldTheTruth
  BY DEF BridgeInv, TabsAreToldTheTruth, TimelineIsSound, RequestsComeFirst
<1> QED BY <1>1, InvariantHolds, PTL
=============================================================================
