---------------------------- MODULE SltpClient ----------------------------
(***************************************************************************)
(* The client of packages/core/src/client.ts: requests in flight on one     *)
(* connection, their timers, and the end of the connection.  Its users      *)
(* connect a client once, so the connection is there from the start.  The   *)
(* server answers a request it has been sent, late or never; it may send    *)
(* bytes that do not decode, and stop reading.                              *)
(***************************************************************************)
CONSTANT Sends                 \* the calls of send() that are made

VARIABLES socket,              \* "open", "ended" by this side or "peerEnded",
                               \* "destroyed", "closed"
          pending,             \* the keys of the Map
          timers,              \* the timers that are set
          exchange,            \* the promise a call will return
          caller,              \* where send() is: "writing" until the write's
                               \* callback, then "heard": it awaits exchange
          sent,                \* requests whose bytes went to the kernel
          closing,             \* set by close()
          closer,              \* close(): "no", "waiting" or "done"
          notified,            \* the closeListeners were called
          alive                \* FALSE when a rejection nobody handles has
                               \* ended the process

vars == <<socket, pending, timers, exchange, caller, sent, closing, closer,
          notified, alive>>

Settled == {"answered", "timeout", "closed", "framing"}

Init ==
  /\ socket = "open"
  /\ pending = {} /\ timers = {}
  /\ exchange = [r \in Sends |-> "none"]
  /\ caller = [r \in Sends |-> "none"]
  /\ sent = {}
  /\ closing = FALSE /\ closer = "no" /\ notified = FALSE
  /\ alive = TRUE

\* A socket, and not destroyed.
Connected == socket \in {"open", "ended", "peerEnded"}

\* Data still comes after end() of this side, not after that of the peer.
Readable == socket \in {"open", "ended"}

\* The promises of a set are settled; one that is settled stays as it is.
Settle(rs, outcome) ==
  exchange' = [r \in Sends |-> IF r \in rs /\ exchange[r] = "pending"
                               THEN outcome ELSE exchange[r]]

\* A rejection that no caller has heard of ends the process.
Reject(rs, outcome) ==
  /\ Settle(rs, outcome)
  /\ alive' = (alive /\ \A r \in rs : caller[r] = "heard")

-----------------------------------------------------------------------------

\* send() without a connection throws.
SendRefused(r) ==
  /\ alive /\ caller[r] = "none"
  /\ ~Connected
  /\ caller' = [caller EXCEPT ![r] = "refused"]
  /\ UNCHANGED <<socket, pending, timers, exchange, sent, closing, closer, notified, alive>>

\* Mutant of Send: the timer is set when the write is done, if it ever is.
SendWithoutTimer(r) ==
  /\ alive /\ caller[r] = "none"
  /\ Connected
  /\ caller' = [caller EXCEPT ![r] = "writing"]
  /\ exchange' = [exchange EXCEPT ![r] = "pending"]
  /\ pending' = pending \cup {r}
  /\ IF socket = "open"
       THEN sent' = sent \cup {r} /\ UNCHANGED socket
       ELSE socket' = "destroyed" /\ UNCHANGED sent
  /\ UNCHANGED <<timers, closing, closer, notified, alive>>

\* send() up to its wait for the write.  A write after end() fails and
\* destroys the socket.
Send(r) ==
  /\ alive /\ caller[r] = "none"
  /\ Connected
  /\ caller' = [caller EXCEPT ![r] = "writing"]
  /\ exchange' = [exchange EXCEPT ![r] = "pending"]
  /\ pending' = pending \cup {r}
  /\ timers' = timers \cup {r}
  /\ IF socket = "open"
       THEN sent' = sent \cup {r} /\ UNCHANGED socket
       ELSE socket' = "destroyed" /\ UNCHANGED sent
  /\ UNCHANGED <<closing, closer, notified, alive>>

\* The write's callback, with or without an error.
WriteDone(r) ==
  /\ alive /\ caller[r] = "writing"
  /\ caller' = [caller EXCEPT ![r] = "heard"]
  /\ UNCHANGED <<socket, pending, timers, exchange, sent, closing, closer, notified, alive>>

\* Mutant of Timeout: leaves the request in the Map.
TimeoutKeepsEntry(r) ==
  /\ alive /\ r \in timers
  /\ timers' = timers \ {r}
  /\ Reject({r}, "timeout")
  /\ UNCHANGED <<socket, pending, caller, sent, closing, closer, notified>>

Timeout(r) ==
  /\ alive /\ r \in timers
  /\ timers' = timers \ {r}
  /\ pending' = pending \ {r}
  /\ Reject({r}, "timeout")
  /\ UNCHANGED <<socket, caller, sent, closing, closer, notified>>

\* A response to r, which was sent: on time, late, or once more.
Receive(r) ==
  /\ alive /\ Readable
  /\ r \in sent
  /\ r \in pending
  /\ pending' = pending \ {r}
  /\ timers' = timers \ {r}
  /\ Settle({r}, "answered")
  /\ UNCHANGED <<socket, caller, sent, closing, closer, notified, alive>>

\* A response that does not decode: failAll(), and the connection dies.
ReceiveFault ==
  /\ alive /\ Readable
  /\ Reject(pending, "framing")
  /\ pending' = {}
  /\ timers' = timers \ pending
  /\ socket' = "destroyed"
  /\ UNCHANGED <<caller, sent, closing, closer, notified>>

-----------------------------------------------------------------------------
(* The end of the connection.                                               *)

\* The end of the peer is answered with an end of this side.
PeerEnds ==
  /\ alive /\ socket = "open"
  /\ socket' = "peerEnded"
  /\ UNCHANGED <<pending, timers, exchange, caller, sent, closing, closer, notified, alive>>

PeerResets ==
  /\ alive /\ Connected
  /\ socket' = "destroyed"
  /\ UNCHANGED <<pending, timers, exchange, caller, sent, closing, closer, notified, alive>>

\* close() up to its wait.
Close ==
  /\ alive /\ closer = "no"
  /\ IF socket = "closed"
       THEN closer' = "done" /\ UNCHANGED <<socket, closing>>
       ELSE /\ closer' = "waiting"
            /\ closing' = TRUE
            /\ socket' = IF socket = "open" THEN "ended" ELSE socket
  /\ UNCHANGED <<pending, timers, exchange, caller, sent, notified, alive>>

\* Mutant of CloseCompletes: close() returns when its timer fires.
CloseGivesUp ==
  /\ alive /\ socket \in {"ended", "peerEnded"}
  /\ socket' = "destroyed"
  /\ closer' = IF closer = "waiting" THEN "done" ELSE closer
  /\ UNCHANGED <<pending, timers, exchange, caller, sent, closing, notified, alive>>

\* Both sides have ended, or the timer of close() forces it.
CloseCompletes ==
  /\ alive /\ socket \in {"ended", "peerEnded"}
  /\ socket' = "destroyed"
  /\ UNCHANGED <<pending, timers, exchange, caller, sent, closing, closer, notified, alive>>

\* Mutant of OnClose: what is in flight is left to its timers.
OnCloseForgetful ==
  /\ alive /\ socket = "destroyed"
  /\ \A r \in Sends : caller[r] # "writing"
  /\ socket' = "closed"
  /\ notified' = ~closing
  /\ closer' = IF closer = "waiting" THEN "done" ELSE closer
  /\ UNCHANGED <<pending, timers, exchange, caller, sent, closing, alive>>

\* The close event, which comes after the callbacks of all writes.
OnClose ==
  /\ alive /\ socket = "destroyed"
  /\ \A r \in Sends : caller[r] # "writing"
  /\ socket' = "closed"
  /\ Reject(pending, "closed")
  /\ pending' = {}
  /\ timers' = timers \ pending
  /\ notified' = ~closing
  /\ closer' = IF closer = "waiting" THEN "done" ELSE closer
  /\ UNCHANGED <<caller, sent, closing>>

-----------------------------------------------------------------------------

Next ==
  \/ \E r \in Sends : \/ SendRefused(r) \/ Send(r) \/ WriteDone(r)
                      \/ Timeout(r) \/ Receive(r)
  \/ ReceiveFault
  \/ PeerEnds \/ PeerResets
  \/ Close \/ CloseCompletes \/ OnClose

Spec == Init /\ [][Next]_vars

\* Timers fire.  A destroyed socket calls back its writes and then emits
\* "close".  The timer of close() destroys a socket that is still there; an
\* end the peer began need not complete, and a write to a peer that does not
\* read need not either.
ForcedClose == closing /\ CloseCompletes
WriteAborted(r) == socket = "destroyed" /\ WriteDone(r)

FairSpec ==
  /\ Spec
  /\ \A r \in Sends : WF_vars(Timeout(r)) /\ WF_vars(WriteAborted(r))
  /\ WF_vars(ForcedClose)
  /\ WF_vars(OnClose)

-----------------------------------------------------------------------------
(* Properties.                                                              *)

\* Every variable has its type (class SltpClient).
TypeOK ==
  /\ socket \in {"open", "ended", "peerEnded", "destroyed", "closed"}
  /\ pending \subseteq Sends /\ timers \subseteq Sends /\ sent \subseteq Sends
  /\ exchange \in [Sends -> {"none", "pending"} \cup Settled]
  /\ caller \in [Sends -> {"none", "refused", "writing", "heard"}]
  /\ closing \in BOOLEAN /\ notified \in BOOLEAN /\ alive \in BOOLEAN
  /\ closer \in {"no", "waiting", "done"}

\* The Map, the timers and the promises tell of the same requests, whatever
\* came first: the answer, the timeout, a framing fault or the end of the
\* connection.  No entry leaks, no timer outlives its request, and no request
\* outlives the connection (receive, the timer of send, failAll, attach).
InFlightAgrees ==
  /\ pending = {r \in Sends : exchange[r] = "pending"}
  /\ timers = pending
  /\ socket = "closed" => pending = {}

\* close() returns on a connection that is closed: nothing is in flight on
\* it and nothing is sent any more, also when a send() came between (close).
CloseMeansClosed ==
  closer = "done" =>
    /\ socket = "closed"
    /\ \A r \in Sends : exchange[r] # "pending" /\ caller[r] # "writing"

\* While the process lives every request is settled and close() returns, also
\* against a server that neither answers nor reads nor closes (send, close).
EveryRequestSettles ==
  /\ \A r \in Sends : exchange[r] = "pending" ~> (exchange[r] # "pending" \/ ~alive)
  /\ closer = "waiting" ~> (closer = "done" \/ ~alive)

\* A request that times out takes no connection with it: "A client MUST NOT
\* close a connection merely because one request timed out" (R-17.3).  The
\* code lets the process end when the write is still waiting.
TimeoutKeepsConnection ==
  [][\A r \in Sends :
       (exchange[r] = "pending" /\ exchange'[r] = "timeout" /\ Connected)
         => (Connected' /\ alive')]_vars
=============================================================================
