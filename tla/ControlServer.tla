--------------------------- MODULE ControlServer ---------------------------
(***************************************************************************)
(* The control server, apps/server/src/server.ts, over SessionStore: its    *)
(* connections, the requests in flight on each, deferred closing and the    *)
(* shutdown.  A request is one call of the store, or one that needs no call *)
(* (it is limited, invalid, or answered from what is there).  What a chunk  *)
(* decodes to is SltpDecoder's matter: here whole messages arrive.          *)
(***************************************************************************)
EXTENDS SessionStore

CONSTANTS Conns,               \* the TCP connections clients make
          MaxConnections,
          GraceExpires         \* may handlers outlast the grace period?

ASSUME ServerAssumption ==
  /\ IsFiniteSet(Conns)
  /\ MaxConnections \in Nat
  /\ GraceExpires \in BOOLEAN

Requests == Calls
NoConn == "no connection"

VARIABLES conn,                \* the ConnectionStates and their sockets
          request,             \* where each request is
          phase                \* of the server: see Shutdown below

serverVars == <<conn, request, phase>>
vars == <<storeVars, serverVars>>

Unconnected ==
  [socket |-> "none",          \* "open", "destroyed", then "closed" ('close' event)
   ended |-> FALSE,            \* end() was called on it, by us or by the stream
   peerEnded |-> FALSE,        \* the peer's FIN was read
   tracked |-> FALSE,          \* it is in this.connections
   fault |-> "none",           \* the response that ends it, to no request:
                               \* "writing", "late" (after end()), "done"
   inFlight |-> 0,
   closeWhenIdle |-> FALSE]

Unreceived == [conn |-> NoConn, pc |-> "none", close |-> FALSE]

Init ==
  /\ StoreInit
  /\ conn = [c \in Conns |-> Unconnected]
  /\ request = [r \in Requests |-> Unreceived]
  /\ phase = "listening"

Tracked == {c \in Conns : conn[c].tracked}

\* Mutant of EndIfIdle: does not look at what is in flight.
EndAtOnce(k) ==
  IF k.closeWhenIdle /\ k.socket = "open" THEN [k EXCEPT !.ended = TRUE] ELSE k

\* endSocket() once a response has asked for it and nothing is in flight.
EndIfIdle(k) ==
  IF k.closeWhenIdle /\ k.inFlight = 0 /\ k.socket = "open"
  THEN [k EXCEPT !.ended = TRUE] ELSE k

-----------------------------------------------------------------------------
(* Connections.                                                             *)

Crowded == Cardinality(Tracked) >= MaxConnections

\* accept(): a connection over the maximum is written a 503 and never tracked.
Accept(c) ==
  /\ phase = "listening"
  /\ conn[c].socket = "none"
  /\ conn' = [conn EXCEPT ![c].socket = "open", ![c].tracked = ~Crowded,
                          ![c].fault = IF Crowded THEN "writing" ELSE "none"]
  /\ UNCHANGED <<storeVars, request, phase>>

\* A refused connection is not read, and a decoder that has failed is deaf.
Hears(c) ==
  conn[c].socket = "open" /\ ~conn[c].peerEnded /\ conn[c].fault = "none"

\* writeResponse() on connection state k: nothing is written to a destroyed
\* socket, and what is written after end() is lost.
Respond(k) ==
  CASE k.socket # "open" -> "lost"
    [] k.socket = "open" /\ k.ended -> "late"
    [] OTHER -> "writing"

\* Bytes that do not decode: the fault is fatal, and nothing is read after it.
ReceiveFault(c) ==
  /\ Hears(c)
  /\ conn' = [conn EXCEPT ![c].fault = Respond(conn[c])]
  /\ UNCHANGED <<storeVars, request, phase>>

\* The outcome of a write on connection state k: after end() it destroys.
Written(k, as) ==
  IF as = "late" /\ k.socket = "open" THEN [k EXCEPT !.socket = "destroyed"] ELSE k

FaultWritten(c) ==
  /\ conn[c].fault \in {"writing", "late"}
  /\ conn' = [conn EXCEPT ![c] =
                EndIfIdle([Written(@, @.fault) EXCEPT !.fault = "done",
                                                      !.closeWhenIdle = TRUE])]
  /\ UNCHANGED <<storeVars, request, phase>>

\* The peer ends its side, and the stream, not half-open, ends ours.
PeerEnds(c) ==
  /\ conn[c].socket = "open" /\ conn[c].tracked /\ ~conn[c].peerEnded
  /\ conn' = [conn EXCEPT ![c].peerEnded = TRUE, ![c].ended = TRUE]
  /\ UNCHANGED <<storeVars, request, phase>>

PeerResets(c) ==
  /\ conn[c].socket = "open"
  /\ conn' = [conn EXCEPT ![c].socket = "destroyed"]
  /\ UNCHANGED <<storeVars, request, phase>>

\* The peer completes the close, or the timer of endSocket() forces it.
CloseCompletes(c) ==
  /\ conn[c].socket = "open" /\ conn[c].ended
  /\ conn' = [conn EXCEPT ![c].socket = "destroyed"]
  /\ UNCHANGED <<storeVars, request, phase>>

OnClose(c) ==
  /\ conn[c].socket = "destroyed"
  /\ conn' = [conn EXCEPT ![c].socket = "closed", ![c].tracked = FALSE]
  /\ UNCHANGED <<storeVars, request, phase>>

-----------------------------------------------------------------------------
(* Requests: dispatch().                                                    *)

Handled == {r \in Requests : request[r].pc = "handling"}
InFlight(c) == {r \in Requests : /\ request[r].conn = c
                                 /\ request[r].pc \in {"handling", "writing", "late"}}

\* The request is dispatched up to its first wait.
Dispatched(c, r, pc, close) ==
  /\ request' = [request EXCEPT ![r] = [conn |-> c, pc |-> pc, close |-> close]]
  /\ conn' = [conn EXCEPT ![c].inFlight = @ + 1]
  /\ UNCHANGED phase

Arrives(c, r) == Hears(c) /\ request[r].pc = "none"

\* Shutting down: 503, and the store is not touched.
ReceiveRefused(c, r) ==
  /\ Arrives(c, r)
  /\ phase # "listening"
  /\ Dispatched(c, r, Respond(conn[c]), TRUE)
  /\ UNCHANGED storeVars

\* 429, a validation fault, PING, SERVER_INFO and the reads.
ReceiveSimple(c, r) ==
  /\ Arrives(c, r)
  /\ phase = "listening"
  /\ Dispatched(c, r, Respond(conn[c]), FALSE)
  /\ UNCHANGED storeVars

\* An operation of the store, answered at once or after a wait.
ReceiveCall(c, r) ==
  /\ Arrives(c, r)
  /\ phase = "listening"
  /\ Start(r)
  /\ Dispatched(c, r, IF call'[r].status = Pending THEN "handling" ELSE Respond(conn[c]), FALSE)

\* The store resumes: every handler that was waiting for this writes its
\* response, or is done if its socket is gone.
HandlersResume ==
  LET resumed == {r \in Handled : call'[r].status # Pending}
      dropped(c) == {r \in resumed : request[r].conn = c /\ conn[c].socket # "open"}
  IN  /\ Resume
      /\ request' = [r \in Requests |->
                       IF r \in resumed
                       THEN [request[r] EXCEPT !.pc = Respond(conn[request[r].conn])]
                       ELSE request[r]]
      /\ conn' = [c \in Conns |->
                    [conn[c] EXCEPT !.inFlight = @ - Cardinality(dropped(c))]]
      /\ UNCHANGED phase

\* Mutant of WriteDone: a failed write forgets that its handler is done.
WriteDoneIfSent(r) ==
  LET c == request[r].conn
      lost == request[r].pc = "late" \/ conn[c].socket # "open"
  IN  /\ request[r].pc \in {"writing", "late"}
      /\ request' = [request EXCEPT ![r].pc = IF lost THEN "lost" ELSE "sent"]
      /\ conn' = [conn EXCEPT ![c] =
                    IF lost THEN Written(@, request[r].pc)
                    ELSE EndIfIdle([@ EXCEPT !.inFlight = @ - 1,
                                             !.closeWhenIdle = @ \/ request[r].close])]
      /\ UNCHANGED <<storeVars, phase>>

\* The write is over, well or not, and the finally block runs.
WriteDone(r) ==
  LET c == request[r].conn
      k == Written(conn[c], request[r].pc)
      lost == request[r].pc = "late" \/ conn[c].socket # "open"
  IN  /\ request[r].pc \in {"writing", "late"}
      /\ request' = [request EXCEPT ![r].pc = IF lost THEN "lost" ELSE "sent"]
      /\ conn' = [conn EXCEPT ![c] =
                    EndIfIdle([k EXCEPT !.inFlight = @ - 1,
                                        !.closeWhenIdle = @ \/ request[r].close])]
      /\ UNCHANGED <<storeVars, phase>>

-----------------------------------------------------------------------------
(* Shutdown: close() takes the server from "listening" to "draining", where *)
(* the sweep of SessionStore runs, to "destroyed" and "closed".             *)

Close ==
  /\ phase = "listening"
  /\ phase' = "draining"
  /\ UNCHANGED <<storeVars, conn, request>>

\* The drain loop ends: no tracked connection has a request in flight, or
\* the grace period is over.
Sweep ==
  /\ phase = "draining"
  /\ GraceExpires \/ \A c \in Tracked : conn[c].inFlight = 0
  /\ CloseAll
  /\ UNCHANGED serverVars

\* Mutant of DestroySockets: waits for the listener first.
DestroySocketsLast ==
  /\ phase = "draining" /\ sweep = "done"
  /\ \A c \in Conns : conn[c].socket \in {"none", "closed"}
  /\ phase' = "destroyed"
  /\ UNCHANGED <<storeVars, conn, request>>

DestroySockets ==
  /\ phase = "draining" /\ sweep = "done"
  /\ phase' = "destroyed"
  /\ conn' = [c \in Conns |->
                [conn[c] EXCEPT !.socket = IF conn[c].tracked /\ @ = "open"
                                           THEN "destroyed" ELSE @,
                                !.tracked = FALSE]]
  /\ UNCHANGED <<storeVars, request>>

\* The listener's callback fires when its last socket has closed.
ListenerClosed ==
  /\ phase = "destroyed"
  /\ \A c \in Conns : conn[c].socket \in {"none", "closed"}
  /\ phase' = "closed"
  /\ UNCHANGED <<storeVars, conn, request>>

-----------------------------------------------------------------------------

ServerNext ==
  \/ \E c \in Conns :
       \/ Accept(c)
       \/ ReceiveFault(c)
       \/ FaultWritten(c)
       \/ PeerEnds(c)
       \/ PeerResets(c)
       \/ CloseCompletes(c)
       \/ OnClose(c)
       \/ \E r \in Requests :
            ReceiveRefused(c, r) \/ ReceiveSimple(c, r) \/ ReceiveCall(c, r)
  \/ HandlersResume
  \/ \E r \in Requests : WriteDone(r)
  \/ Close \/ Sweep \/ DestroySockets \/ ListenerClosed

\* Peers owe nothing: one that reads nothing holds up the writes of an open
\* connection, and its closing, for ever.  Not so on a refused connection: its
\* one short response fits the empty send buffer, and a timer ends it.
OutOfPeersHands(c) == conn[c].socket # "open" \/ ~conn[c].tracked

\* What the event loop owes: those writes and closings, the waits of the
\* store, and the steps of close().
Fairness ==
  /\ \A c \in Conns : /\ WF_vars(OutOfPeersHands(c) /\ FaultWritten(c))
                      /\ WF_vars(OutOfPeersHands(c) /\ CloseCompletes(c))
                      /\ WF_vars(OnClose(c))
  /\ \A r \in Requests : WF_vars(\E c \in Conns : /\ request[r].conn = c
                                                  /\ OutOfPeersHands(c)
                                                  /\ WriteDone(r))
  /\ WF_vars(HandlersResume)
  /\ WF_vars(Sweep) /\ WF_vars(DestroySockets) /\ WF_vars(ListenerClosed)

ServerSpec == Init /\ [][ServerNext]_vars /\ Fairness

-----------------------------------------------------------------------------
(* Properties *)

ServerTypeOK ==
  /\ TypeOK
  /\ conn \in [Conns -> [socket : {"none", "open", "destroyed", "closed"},
                         ended : BOOLEAN, peerEnded : BOOLEAN, tracked : BOOLEAN,
                         fault : {"none", "writing", "late", "done"},
                         inFlight : 0 .. Cardinality(Requests),
                         closeWhenIdle : BOOLEAN]]
  /\ request \in [Requests -> [conn : Conns \cup {NoConn},
                               pc : {"none", "handling", "writing", "late", "sent", "lost"},
                               close : BOOLEAN]]
  /\ phase \in {"listening", "draining", "destroyed", "closed"}
  /\ Cardinality(Tracked) <= MaxConnections

\* The counter that defers a close is exact, through handlers that resume in
\* any order, failed writes and sockets that vanish, and no connection that
\* was to close when idle stays open when idle.
InFlightIsExact ==
  \A c \in Conns :
    /\ conn[c].inFlight = Cardinality(InFlight(c))
    /\ conn[c].closeWhenIdle /\ conn[c].inFlight = 0
         => conn[c].ended \/ conn[c].socket # "open"

\* R-14.10: the server ends a connection only when every request it has read
\* from it has been answered; the peer's own FIN aside, no response is cut off.
CloseIsDeferred ==
  [][\A c \in Conns :
       /\ ~conn[c].ended /\ conn'[c].ended
       /\ ~conn'[c].peerEnded
       => InFlight(c)' = {}]_vars

\* R-14.7: the sockets are destroyed only when every session that was closing
\* is closed and its endpoint stopped, whoever began to close it.
SocketsOutliveSessions ==
  [][phase = "draining" /\ phase' = "destroyed" =>
       \A s \in SessionIds : session[s].endpoint # "stopping"]_vars

\* No handler waits for ever, and a shutdown ends whatever the peers do: idle
\* ones, ones that read nothing, ones that never close, refused ones.
EverythingSettles ==
  /\ \A r \in Requests : (request[r].pc = "handling") ~> (request[r].pc # "handling")
  /\ (phase = "draining") ~> (phase = "closed")

\* What the counters of connections and of requests in flight say is what the
\* sockets and the handlers do.
CountsAreExact ==
  /\ ServerTypeOK
  /\ InFlightIsExact
=============================================================================
