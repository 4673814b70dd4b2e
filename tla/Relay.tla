------------------------------- MODULE Relay -------------------------------
(***************************************************************************)
(* apps/bridge/src/relay.ts: the one connection a bridge keeps to the       *)
(* control server, shared by the calls of all browser tabs.  A link is a    *)
(* connection attempt and the connection it becomes; the client below it is *)
(* the one of SltpClient, of which is kept what the relay sees: writes call *)
(* back in order, a response comes after the callback of its request, and a *)
(* request ends by a response, its timer or the end of the connection.      *)
(* Counts and texts of the status are left out, and timers that fire during *)
(* a write are those of SltpClient.                                         *)
(***************************************************************************)
EXTENDS Naturals, Sequences, FiniteSets, SequencesExt

CONSTANTS Calls,          \* connect(), disconnect(), send() and sendRaw()
          MaxLinks        \* bound: connection attempts

ASSUME RelayAssumption == IsFiniteSet(Calls) /\ MaxLinks \in Nat \ {0}

Links == 1 .. MaxLinks
NoLink == 0

VARIABLES link,           \* per link: "none", "connecting", "open", "dying"
                          \* (destroyed, no close event yet), "ending", "closed"
          client,         \* this.client
          connecting,     \* this.connecting
          watched,        \* the link the watchers are attached to
          queue,          \* per link: writes not called back yet
          rawWriteInProgress,
          poisoned,       \* sentDecoder has met raw bytes
          views,          \* keys of sentViews
          call,           \* per call: [op, at, link]
          timeline,       \* per call: the wire events published of it
          published       \* connected, as last published to the tabs

relayVars == <<link, client, connecting, watched, queue, rawWriteInProgress,
               poisoned, views, call, timeline, published>>


RelayInit ==
  /\ link = [k \in Links |-> "none"]
  /\ client = NoLink /\ connecting = NoLink /\ watched = NoLink
  /\ queue = [k \in Links |-> <<>>]
  /\ rawWriteInProgress = FALSE /\ poisoned = FALSE
  /\ views = {} /\ timeline = [c \in Calls |-> <<>>] /\ published = FALSE
  /\ call = [c \in Calls |-> [op |-> "none", at |-> "idle", link |-> NoLink]]

\* client.connected
Connected(k) == k # NoLink /\ link[k] \in {"open", "ending"}

At(c, at) == [call EXCEPT ![c].at = at]
On(k, at) == {c \in Calls : call[c].link = k /\ call[c].at = at}

\* Mutant of StartAttempt: an attempt for each caller.
StartAttemptAlways(c, op) ==
  \E k \in Links :
    /\ link[k] = "none" /\ \A j \in 1 .. k - 1 : link[j] # "none"
    /\ link' = [link EXCEPT ![k] = "connecting"]
    /\ connecting' = k
    /\ poisoned' = FALSE
    /\ call' = [call EXCEPT ![c] = [op |-> op, at |-> "joining", link |-> k]]

\* connect() without a connection: an attempt, or the one that is under way.
StartAttempt(c, op) ==
  IF connecting # NoLink
    THEN /\ call' = [call EXCEPT ![c] = [op |-> op, at |-> "joining", link |-> connecting]]
         /\ UNCHANGED <<link, connecting, poisoned>>
    ELSE \E k \in Links :
           /\ link[k] = "none" /\ \A j \in 1 .. k - 1 : link[j] # "none"
           /\ link' = [link EXCEPT ![k] = "connecting"]
           /\ connecting' = k
           /\ poisoned' = FALSE
           /\ call' = [call EXCEPT ![c] = [op |-> op, at |-> "joining", link |-> k]]

\* Where a call is once its write has begun on link k.
Begun(c, k, op) == [op |-> op, link |-> k, at |-> IF op = "connect" THEN "done" ELSE "writing"]

\* connect(), and send() and sendRaw() up to the callback of their write: from
\* requireClient() on nothing comes between.
Begin(c, op) ==
  /\ call[c].at = "idle"
  /\ IF Connected(client)
       THEN /\ call' = [call EXCEPT ![c] = Begun(c, client, op)]
            /\ queue' = IF op = "connect" THEN queue ELSE [queue EXCEPT ![client] = Append(@, c)]
            /\ rawWriteInProgress' = (rawWriteInProgress \/ op = "raw")
            /\ UNCHANGED <<link, connecting, poisoned>>
       ELSE StartAttempt(c, op) /\ UNCHANGED <<queue, rawWriteInProgress>>
  /\ UNCHANGED <<client, watched, views, timeline, published>>

\* openConnection(), resumed: the watchers are attached to the new client, and
\* those who joined go on.  A destroyed socket has emitted its close event
\* before a later connection is established.
Opened(k) ==
  /\ link[k] = "connecting" /\ \A j \in Links : link[j] # "dying"
  /\ link' = [link EXCEPT ![k] = "open"]
  /\ client' = k /\ watched' = k /\ connecting' = NoLink
  /\ published' = TRUE
  /\ call' = [c \in Calls |-> IF c \in On(k, "joining") THEN Begun(c, k, call[c].op) ELSE call[c]]
  /\ LET writers == {c \in On(k, "joining") : call[c].op # "connect"}
     IN /\ \E order \in SetToSeqs(writers) : queue' = [queue EXCEPT ![k] = order]
        /\ rawWriteInProgress' = (rawWriteInProgress \/ \E c \in writers : call[c].op = "raw")
  /\ UNCHANGED <<poisoned, views, timeline>>

OpenFails(k) ==
  /\ link[k] = "connecting"
  /\ link' = [link EXCEPT ![k] = "closed"]
  /\ connecting' = NoLink
  /\ published' = Connected(client)
  /\ call' = [c \in Calls |-> IF c \in On(k, "joining")
                                THEN [call[c] EXCEPT !.at = "connectFailed"] ELSE call[c]]
  /\ UNCHANGED <<client, watched, queue, rawWriteInProgress, poisoned, views, timeline>>

-----------------------------------------------------------------------------
(* Requests and raw bytes.                                                  *)

\* Mutant of Tapped: raw bytes are decoded like any.
TappedAlways(k) == watched = k

\* The write watcher looks at the bytes.
Tapped(k) == watched = k /\ ~rawWriteInProgress

\* The callback of the oldest write and its resumption in the client, which
\* calls the watchers, also of a write that failed: a request is published and its view kept, if the
\* decoder still frames; raw bytes may end its framing.
WriteDone(k) ==
  /\ queue[k] # <<>>
  /\ LET c == Head(queue[k])
         sees == Tapped(k)
     IN /\ queue' = [queue EXCEPT ![k] = Tail(@)]
        /\ call' = At(c, IF call[c].op = "raw" THEN "resuming" ELSE "waiting")
        /\ poisoned' = (poisoned \/ (sees /\ call[c].op = "raw"))
        /\ IF sees /\ call[c].op = "send" /\ ~poisoned
             THEN /\ views' = views \cup {c}
                  /\ timeline' = [timeline EXCEPT ![c] = Append(@, "out")]
             ELSE UNCHANGED <<views, timeline>>
  /\ UNCHANGED <<link, client, connecting, watched, rawWriteInProgress, published>>

\* sendRaw() of the relay, resumed.
RawResumes(c) ==
  /\ call[c].at = "resuming"
  /\ call' = At(c, "done")
  /\ rawWriteInProgress' = FALSE
  /\ timeline' = [timeline EXCEPT ![c] = Append(@, "raw")]
  /\ UNCHANGED <<link, client, connecting, watched, queue, poisoned, views, published>>

\* takeSentView()
Take(c) == views \ {c}

\* Mutant of Response: the request is published when its send() resolves.
ResponseFirst(c) ==
  /\ call[c].op = "send" /\ call[c].at = "waiting"
  /\ link[call[c].link] \in {"open", "ending"}
  /\ timeline' = [timeline EXCEPT ![c] = <<"in", "out">>]
  /\ views' = Take(c)
  /\ call' = At(c, IF c \in views THEN "answered" ELSE "viewLost")
  /\ UNCHANGED <<link, client, connecting, watched, queue, rawWriteInProgress, poisoned, published>>

\* A response: published by the read watcher, then send() resumes and
\* collects the view of its request.
Response(c) ==
  /\ call[c].op = "send" /\ call[c].at = "waiting"
  /\ link[call[c].link] \in {"open", "ending"}
  /\ timeline' = IF watched = call[c].link THEN [timeline EXCEPT ![c] = Append(@, "in")]
                                           ELSE timeline
  /\ views' = Take(c)
  /\ call' = At(c, IF c \in views THEN "answered" ELSE "viewLost")
  /\ UNCHANGED <<link, client, connecting, watched, queue, rawWriteInProgress, poisoned, published>>

\* The timer of a request: nothing collects its view.
Timeout(c) ==
  /\ call[c].op = "send" /\ call[c].at = "waiting"
  /\ call' = At(c, "timeout")
  /\ UNCHANGED <<link, client, connecting, watched, queue, rawWriteInProgress, poisoned, views,
                 timeline, published>>

-----------------------------------------------------------------------------
(* The end of a link.                                                       *)

\* The socket is destroyed: by a reset, a fault in a response, or because
\* both sides have ended.
Dies(k) ==
  /\ link[k] = "open"
  /\ link' = [link EXCEPT ![k] = "dying"]
  /\ UNCHANGED <<client, connecting, watched, queue, rawWriteInProgress, poisoned, views, call,
                 timeline, published>>

\* Calls that lose their connection, once the writes have called back.
Lost(k) ==
  [c \in Calls |->
     IF call[c].link = k /\ call[c].at = "waiting" THEN [call[c] EXCEPT !.at = "closed"]
     ELSE IF call[c].link = k /\ call[c].at = "ending" THEN [call[c] EXCEPT !.at = "done"]
     ELSE call[c]]

\* Mutant of LinkLost: the views are kept for the next connection.
LinkLostKeepsViews(k) ==
  /\ link[k] = "dying" /\ queue[k] = <<>>
  /\ link' = [link EXCEPT ![k] = "closed"]
  /\ call' = Lost(k)
  /\ client' = NoLink /\ watched' = NoLink
  /\ published' = FALSE
  /\ UNCHANGED <<connecting, queue, rawWriteInProgress, poisoned, views, timeline>>

\* The close event without close(): the close watcher forgets the client.
LinkLost(k) ==
  /\ link[k] = "dying" /\ queue[k] = <<>>
  /\ link' = [link EXCEPT ![k] = "closed"]
  /\ call' = Lost(k)
  /\ client' = NoLink /\ watched' = NoLink
  /\ views' = {}
  /\ published' = FALSE
  /\ UNCHANGED <<connecting, queue, rawWriteInProgress, poisoned, timeline>>

\* The client is let go and its close() is awaited.  One that is being
\* destroyed has its close event, without the watchers.
LetGo ==
  /\ link' = IF client = NoLink THEN link ELSE [link EXCEPT ![client] = "ending"]
  /\ client' = NoLink /\ watched' = NoLink
  /\ views' = {}

\* disconnect(): without a client, and that is during an attempt too, it has
\* nothing to do.
Disconnect(c) ==
  /\ call[c].at = "idle"
  /\ IF client = NoLink
       THEN /\ call' = [call EXCEPT ![c] = [op |-> "disconnect", at |-> "done", link |-> NoLink]]
            /\ UNCHANGED <<link, client, watched, views>>
       ELSE /\ call' = [call EXCEPT ![c] = [op |-> "disconnect", at |-> "ending", link |-> client]]
            /\ LetGo
  /\ UNCHANGED <<connecting, queue, rawWriteInProgress, poisoned, timeline, published>>

\* The close event after close(), which its peer or a timer completes; writes
\* that wait are called back before it.
LinkEnded(k) ==
  /\ link[k] = "ending" /\ queue[k] = <<>>
  /\ link' = [link EXCEPT ![k] = "closed"]
  /\ call' = Lost(k)
  /\ published' = IF On(k, "ending") = {} THEN published ELSE Connected(client)
  /\ UNCHANGED <<client, connecting, watched, queue, rawWriteInProgress, poisoned, views, timeline>>

RelayStep ==
  \/ \E c \in Calls : RawResumes(c) \/ Response(c) \/ Timeout(c)
  \/ \E k \in Links : \/ Opened(k) \/ OpenFails(k) \/ WriteDone(k)
                      \/ Dies(k) \/ LinkLost(k) \/ LinkEnded(k)
=============================================================================
