---------------------------- MODULE MockEndpoint ----------------------------
(***************************************************************************)
(* The connections of packages/core/src/mock-endpoint.ts.  Each connection  *)
(* queues the answers to what it receives on a chain of promises; an answer *)
(* may be delayed, written in fragments, cut short by a deliberate          *)
(* disconnect, or overtaken by the end of the connection.  Bytes are        *)
(* counted in units: every answer has Units of them.  The rule that matches *)
(* is edited meanwhile; which rule matches is the subject of SessionRules.  *)
(***************************************************************************)
EXTENDS Integers, Sequences, FiniteSets, SequencesExt

CONSTANTS Conns,          \* connections that may be made
          Edits,          \* the responses the matching rule has in turn, or
                          \* NoRule when no enabled rule matches
          NoRule,
          MaxItems        \* bound: items received, for each connection

Units == 2
NoCut == Units + 1

\* The sums of the first sizes, as far as they stay within n bytes.
Sums(n, sizes) ==
  LET sum[k \in 0 .. Len(sizes)] == IF k = 0 THEN 0 ELSE sum[k - 1] + sizes[k]
  IN {sum[k] : k \in 1 .. Len(sizes)} \cap 1 .. n

\* Mutant of SplitBuffer: the remaining bytes are forgotten.
SplitWithoutRest(n, sizes) == IF sizes = <<>> THEN {n} ELSE Sums(n, sizes)

\* splitBuffer(): where the pieces of n bytes end, if they have the given
\* sizes and one more takes what is left.
SplitBuffer(n, sizes) == Sums(n, sizes) \cup {n}

\* splitIntoParts(): pieces of the size that makes at most count of them.
SplitIntoParts(n, count) ==
  LET parts == Max({1, Min({count, n})})
  IN SplitBuffer(n, [k \in 1 .. parts |-> (n + parts - 1) \div parts])

\* The end of the piece that comes after the first n bytes, if one does.
NextEnd(ends, n) == {e \in ends : e > n /\ \A d \in ends : d > n => e <= d}

\* delayMs, fragment.sizes and its delayMs, disconnectAfterBytes, and
\* whether encodeResponse accepts the response.
RuleResponse == [delay : BOOLEAN, sizes : Seq(Nat \ {0}),
                 gap : BOOLEAN, cut : 0 .. NoCut, encodable : BOOLEAN]

ASSUME EditsAssumption ==
  Edits \in Seq(RuleResponse \cup {NoRule}) /\ Len(Edits) > 0 /\ MaxItems \in [Conns -> Nat]

\* The decoder of a connection reports requests and faults; a request may
\* fail validation.
Kinds == {"request", "invalid", "fault", "fatal"}

VARIABLES listener,       \* "up", "closing" or "down"
          sock,           \* per connection: "none", "open", "ended" by this
                          \* side, "peerEnded", "destroyed", "closed"
          items,          \* per connection: the kinds received so far
          poisoned,       \* the decoder has met a fatal fault
          chain,          \* the tasks not finished yet, in order
          wire,           \* what the kernel accepted for the peer
          edition,        \* index of the rule response in force
          hits            \* hit count of the rule

mockVars == <<listener, sock, items, poisoned, chain, wire, edition, hits>>

\* A task knows where the pieces of its answer end, and how much of it was
\* written.
Task(kind, id) ==
  [kind |-> kind, id |-> id, at |-> "waiting", ends |-> {}, done |-> 0, cut |-> FALSE,
   gap |-> FALSE, code |-> "none", edition |-> 0]

MockInit ==
  /\ listener = "up"
  /\ sock = [c \in Conns |-> "none"]
  /\ items = [c \in Conns |-> <<>>]
  /\ poisoned = [c \in Conns |-> FALSE]
  /\ chain = [c \in Conns |-> <<>>]
  /\ wire = [c \in Conns |-> <<>>]
  /\ edition = 1 /\ hits = 0

Live == {"open", "ended", "peerEnded"}

-----------------------------------------------------------------------------
(* Writing.                                                                 *)

Drop(c, i) == chain' = [chain EXCEPT ![c] = RemoveAt(@, i)]
Update(c, i, t) == chain' = [chain EXCEPT ![c][i] = t]

\* The units of answer t from the ones written to this one.
UnitsOf(t, end) ==
  [k \in 1 .. end - t.done |->
     [to |-> t.id, part |-> t.done + k, code |-> t.code, edition |-> t.edition]]

\* writeChunk(): the next piece of t goes to the kernel and its callback is
\* awaited.  A write after the end of this side destroys the socket, one to a
\* destroyed socket is skipped.
WritePiece(c, i, t) ==
  \E end \in NextEnd(t.ends, t.done) :
    /\ wire' = IF sock[c] = "open" THEN [wire EXCEPT ![c] = @ \o UnitsOf(t, end)] ELSE wire
    /\ sock' = IF sock[c] \in Live \ {"open"}
                 THEN [sock EXCEPT ![c] = "destroyed"] ELSE sock
    /\ Update(c, i, [t EXCEPT !.at = "writing", !.done = end])

\* All pieces are written.
Written(t) == NextEnd(t.ends, t.done) = {}

\* writeError(): one write.
ErrorTask(t, code) ==
  [t EXCEPT !.ends = {Units}, !.cut = FALSE, !.gap = FALSE, !.code = code]

\* disconnectAfterBytes: the prefix in one write, or none.
CutTask(t, r) ==
  [t EXCEPT !.ends = {r.cut} \ {0}, !.cut = TRUE, !.gap = FALSE]
PieceTask(t, r) ==
  [t EXCEPT !.ends = SplitBuffer(Units, r.sizes), !.cut = FALSE, !.gap = r.gap]

\* respond() from the encoding of the response on.
WriteResponse(c, i, t) ==
  LET r == Edits[t.edition]
      w == IF ~r.encodable THEN ErrorTask(t, "500")
           ELSE IF r.cut < NoCut THEN CutTask(t, r) ELSE PieceTask(t, r)
  IN IF Written(w)
       THEN /\ sock' = [sock EXCEPT ![c] = "destroyed"]
            /\ Drop(c, i)
            /\ UNCHANGED wire
       ELSE WritePiece(c, i, w)

-----------------------------------------------------------------------------
(* The connection.                                                          *)

Accept(c) ==
  /\ listener = "up" /\ sock[c] = "none"
  /\ sock' = [sock EXCEPT ![c] = "open"]
  /\ UNCHANGED <<listener, items, poisoned, chain, wire, edition, hits>>

\* The data handler for one event of the decoder: the chain grows.  After a
\* fatal fault comes the end of this side, and the decoder reports no more.
Receive(c, kind) ==
  LET id == Len(items[c]) + 1 IN
  /\ sock[c] \in {"open", "ended"} /\ ~poisoned[c] /\ id <= MaxItems[c]
  /\ items' = [items EXCEPT ![c] = Append(@, kind)]
  /\ chain' = [chain EXCEPT ![c] =
                 @ \o IF kind = "fatal"
                        THEN <<Task(kind, id), Task("end", id)>>
                        ELSE <<Task(kind, id)>>]
  /\ poisoned' = [poisoned EXCEPT ![c] = kind = "fatal"]
  /\ UNCHANGED <<listener, sock, wire, edition, hits>>

\* Mutant of MayStart: answers run as soon as they are received.
MayStartAtOnce(c, i) == i \in DOMAIN chain[c]

\* chain.then(): a task starts when the one before it has finished.
MayStart(c, i) == i = 1 /\ chain[c] # <<>>

\* onRuleHit()
RecordHit(c, matched) == hits' = IF matched /\ sock[c] \in Live THEN hits + 1 ELSE hits

\* A task of the chain starts: writeError(), endSocket(), or respond() up to
\* its first wait.  On a destroyed socket each of them returns.
Begin(c, i) ==
  /\ MayStart(c, i)
  /\ LET t == chain[c][i]
         matched == t.kind = "request" /\ Edits[edition] # NoRule
         r == Edits[edition]
         started == [t EXCEPT !.code = "rule", !.edition = edition]
         code == CASE t.kind = "fatal" -> "close"
                   [] t.kind = "request" -> "410"
                   [] OTHER -> "400"
     IN /\ t.at = "waiting"
        /\ RecordHit(c, matched)
        /\ CASE sock[c] \notin Live \/ t.kind = "end" ->
                  /\ Drop(c, i)
                  /\ sock' = IF sock[c] = "open" THEN [sock EXCEPT ![c] = "ended"] ELSE sock
                  /\ UNCHANGED wire
             [] matched /\ r.delay /\ sock[c] \in Live ->
                  /\ Update(c, i, [started EXCEPT !.at = "delaying"])
                  /\ UNCHANGED <<sock, wire>>
             [] matched /\ ~r.delay /\ sock[c] \in Live -> WriteResponse(c, i, started)
             [] OTHER -> WritePiece(c, i, ErrorTask(t, code))
  /\ UNCHANGED <<listener, items, poisoned, edition>>

\* delayMs has passed.
DelayEnds(c, i) ==
  /\ i \in DOMAIN chain[c] /\ chain[c][i].at = "delaying"
  /\ IF sock[c] \in Live
       THEN WriteResponse(c, i, chain[c][i])
       ELSE Drop(c, i) /\ UNCHANGED <<sock, wire>>
  /\ UNCHANGED <<listener, items, poisoned, edition, hits>>

\* The callback of a write: the next piece, now or after the gap, a
\* deliberate disconnect, or the end of the task.
WriteDone(c, i) ==
  /\ i \in DOMAIN chain[c] /\ chain[c][i].at = "writing"
  /\ LET t == chain[c][i] IN
     CASE t.cut ->
            /\ Drop(c, i)
            /\ sock' = IF sock[c] \in Live THEN [sock EXCEPT ![c] = "destroyed"] ELSE sock
            /\ UNCHANGED wire
       [] ~t.cut /\ (Written(t) \/ sock[c] \notin Live) ->
            Drop(c, i) /\ UNCHANGED <<sock, wire>>
       [] ~t.cut /\ ~Written(t) /\ sock[c] \in Live /\ t.gap ->
            Update(c, i, [t EXCEPT !.at = "gap"]) /\ UNCHANGED <<sock, wire>>
       [] OTHER -> WritePiece(c, i, t)
  /\ UNCHANGED <<listener, items, poisoned, edition, hits>>

\* fragment.delayMs has passed.
GapEnds(c, i) ==
  /\ i \in DOMAIN chain[c] /\ chain[c][i].at = "gap"
  /\ IF sock[c] \in Live
       THEN WritePiece(c, i, chain[c][i])
       ELSE Drop(c, i) /\ UNCHANGED <<sock, wire>>
  /\ UNCHANGED <<listener, items, poisoned, edition, hits>>

-----------------------------------------------------------------------------
(* The ends of a connection, and of the endpoint.                           *)

SockBecomes(c, s) ==
  /\ sock' = [sock EXCEPT ![c] = s]
  /\ UNCHANGED <<listener, items, poisoned, chain, wire, edition, hits>>

\* The socket is made without allowHalfOpen: it answers the end of the peer
\* with its own, once its writes are done.
PeerEnds(c) ==
  \/ sock[c] = "open" /\ SockBecomes(c, "peerEnded")
  \/ sock[c] = "ended" /\ SockBecomes(c, "destroyed")

PeerResets(c) == sock[c] \in Live /\ SockBecomes(c, "destroyed")

Writing(c) == \E i \in DOMAIN chain[c] : chain[c][i].at = "writing"

EndCompletes(c) == sock[c] = "peerEnded" /\ ~Writing(c) /\ SockBecomes(c, "destroyed")

OnClose(c) == sock[c] = "destroyed" /\ SockBecomes(c, "closed")

EditRule ==
  /\ edition < Len(Edits)
  /\ edition' = edition + 1
  /\ UNCHANGED <<listener, sock, items, poisoned, chain, wire, hits>>

\* close(): every open connection is destroyed and the listener stops.
CloseEndpoint ==
  /\ listener = "up"
  /\ listener' = "closing"
  /\ sock' = [c \in Conns |-> IF sock[c] \in Live THEN "destroyed" ELSE sock[c]]
  /\ UNCHANGED <<items, poisoned, chain, wire, edition, hits>>

\* The callback of server.close(), which waits for the connections.
ListenerClosed ==
  /\ listener = "closing"
  /\ \A c \in Conns : sock[c] \in {"none", "closed"}
  /\ listener' = "down"
  /\ UNCHANGED <<sock, items, poisoned, chain, wire, edition, hits>>

-----------------------------------------------------------------------------

\* What the endpoint does on its own.
MockStep(c) ==
  \E i \in DOMAIN chain[c] :
    Begin(c, i) \/ DelayEnds(c, i) \/ WriteDone(c, i) \/ GapEnds(c, i)

\* Properties, for any peers.

\* Every variable has its type.
MockTypeOK ==
  /\ listener \in {"up", "closing", "down"}
  /\ sock \in [Conns -> Live \cup {"none", "destroyed", "closed"}]
  /\ items \in [Conns -> Seq(Kinds)]
  /\ poisoned \in [Conns -> BOOLEAN]
  /\ edition \in 1 .. Len(Edits) /\ hits \in Nat
  /\ \A c \in Conns :
       /\ \A t \in Range(chain[c]) : t.kind \in Kinds \cup {"end"} /\ t.id \in 1 .. Len(items[c])
       /\ \A u \in Range(wire[c]) : u.to \in 1 .. MaxItems[c] /\ u.part \in 1 .. Units

\* Answers leave in the order of what they answer: units of an answer are
\* neither reordered, repeated nor mixed with those of another, and an answer
\* begins only when the one before it is complete.  So a delayed response is
\* never overtaken (the chain of handleConnection).
AnswersInOrder ==
  \A c \in Conns : \A k \in DOMAIN wire[c] :
    wire[c][k].to = ((k - 1) \div Units) + 1 /\ wire[c][k].part = ((k - 1) % Units) + 1

\* Once a connection has been told that it is closed, or a deliberate cut has
\* been made, it is written nothing more; and a client that has seen a newer
\* rule is never answered by an older one (the rules are read when a request
\* is taken up).
NothingAfterTheLast ==
  \A c \in Conns : \A j, k \in DOMAIN wire[c] :
    j < k => /\ wire[c][j].code = "close" => wire[c][k].to = wire[c][j].to
             /\ (wire[c][j].code = "rule" /\ wire[c][k].code = "rule")
                  => wire[c][j].edition <= wire[c][k].edition

\* The answers of which something was written in the name of a rule.
AnswersByRule ==
  UNION {{<<c, wire[c][k].to>> : k \in {j \in DOMAIN wire[c] : wire[c][j].code = "rule"}} :
           c \in Conns}

\* Each answer by a rule has counted one hit, delivered or not (onRuleHit).
HitsCoverAnswers == Cardinality(AnswersByRule) <= hits
=============================================================================
