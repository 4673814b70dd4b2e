-------------------------- MODULE SltpClientProofs --------------------------
(***************************************************************************)
(* Theorems about SltpClient, for any set of calls.  That no request        *)
(* outlives the connection rests on the order of Node.js events: when       *)
(* "close" comes no write is waiting for its callback, so that a close() that *)
(* has returned finds nobody between the write and the promise.             *)
(***************************************************************************)
EXTENDS SltpClient, TLAPS

\* A caller that waits for its write has a connection, and a close() that
\* has returned has seen it end.
Waits ==
  /\ socket = "closed" => \A r \in Sends : caller[r] # "writing"
  /\ closer = "done" => socket = "closed"

IInv == TypeOK /\ InFlightAgrees /\ Waits

LEMMA InitInvariant == Init => IInv
BY DEF Init, IInv, TypeOK, InFlightAgrees, Waits, Settled

LEMMA NextKeepsInvariant == IInv /\ [Next]_vars => IInv'
<1> SUFFICES ASSUME IInv, [Next]_vars PROVE IInv'
  OBVIOUS
<1> USE DEF IInv, TypeOK, InFlightAgrees, Waits, Settled
<1>1. ASSUME NEW r \in Sends, SendRefused(r) PROVE IInv'
  BY <1>1 DEF SendRefused, Connected
<1>2. ASSUME NEW r \in Sends, Send(r) PROVE IInv'
  BY <1>2 DEF Send, Connected
<1>3. ASSUME NEW r \in Sends, WriteDone(r) PROVE IInv'
  BY <1>3 DEF WriteDone
<1>4. ASSUME NEW r \in Sends, Timeout(r) PROVE IInv'
  BY <1>4 DEF Timeout, Reject, Settle
<1>5. ASSUME NEW r \in Sends, Receive(r) PROVE IInv'
  BY <1>5 DEF Receive, Settle, Readable
<1>6. CASE ReceiveFault
  BY <1>6 DEF ReceiveFault, Reject, Settle, Readable
<1>7. CASE PeerEnds \/ PeerResets \/ Close \/ CloseCompletes
  BY <1>7 DEF PeerEnds, PeerResets, Close, CloseCompletes, Connected
<1>8. CASE OnClose
  BY <1>8 DEF OnClose, Reject, Settle
<1>9. CASE UNCHANGED vars
  BY <1>9 DEF vars
<1> QED BY <1>1, <1>2, <1>3, <1>4, <1>5, <1>6, <1>7, <1>8, <1>9 DEF Next

\* The Map, the timers and the promises agree in every interleaving of the
\* answers, timeouts, faults and ends of the connection.
THEOREM RequestsAgree == Spec => []InFlightAgrees
<1>1. Spec => []IInv
  BY InitInvariant, NextKeepsInvariant, PTL DEF Spec
<1> QED BY <1>1, PTL DEF IInv

\* close() returns on a closed connection with nothing in flight.
THEOREM CloseIsComplete == Spec => []CloseMeansClosed
<1>1. Spec => []IInv
  BY InitInvariant, NextKeepsInvariant, PTL DEF Spec
<1>2. IInv => CloseMeansClosed
  BY DEF IInv, TypeOK, InFlightAgrees, Waits, CloseMeansClosed
<1> QED BY <1>1, <1>2, PTL
=============================================================================
