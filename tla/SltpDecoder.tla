---------------------------- MODULE SltpDecoder ----------------------------
(***************************************************************************)
(* The incremental decoder of packages/protocol/src/decoder.ts: push() adds *)
(* a chunk to the buffer and runs the drain() loop, one action per way an   *)
(* iteration of the loop can end; end() and reset() are actions of their    *)
(* own.  JavaScript runs push() to completion, so nothing else happens      *)
(* while pc = "drain".                                                      *)
(*                                                                          *)
(* The peer is a byte stream chosen at the start and cut into chunks of any *)
(* length up to MaxChunk.                                                   *)
(***************************************************************************)
EXTENDS SltpWire

CONSTANTS Streams,         \* the byte streams a peer may send
          MaxChunk,        \* bound: bytes in one chunk
          MaxResets        \* bound: calls of reset()

ASSUME DecoderAssumption ==
  /\ Streams \subseteq Seq(Byte)
  /\ MaxChunk \in Nat
  /\ MaxResets \in Nat

VARIABLES
  buffer,                  \* bytes received and not consumed
  searchOffset,            \* bytes already scanned for a delimiter
  poisoned,                \* set by a fatal fault
  pc,                      \* "idle", or "drain" inside the loop of push()
  events,                  \* the events returned so far, in order
  \* the environment, and where the buffer begins in it
  stream,                  \* the bytes the peer sends
  received,                \* how many of them push() has been given
  base,                    \* offset in stream of the first byte of buffer
  resets                   \* calls of reset() so far

vars == <<buffer, searchOffset, poisoned, pc, events, stream, received, base,
          resets>>
env == <<stream, received>>

Init ==
  /\ buffer = <<>>
  /\ searchOffset = 0
  /\ poisoned = FALSE
  /\ pc = "idle"
  /\ events = <<>>
  /\ stream \in Streams
  /\ received = 0
  /\ base = 0
  /\ resets = 0

\* Mutant of Push: the chunk goes in front of the buffered bytes.
PushInFront(n) ==
  /\ pc = "idle"
  /\ ~poisoned
  /\ received + n <= Len(stream)
  /\ received' = received + n
  /\ buffer' = SubSeq(stream, received + 1, received + n) \o buffer
  /\ pc' = "drain"
  /\ UNCHANGED <<searchOffset, poisoned, events, stream, base, resets>>

\* push(chunk): a poisoned decoder ignores it.
Push(n) ==
  /\ pc = "idle"
  /\ received + n <= Len(stream)
  /\ received' = received + n
  /\ IF poisoned
       THEN /\ base' = received + n
            /\ UNCHANGED <<buffer, pc>>
       ELSE /\ buffer' = buffer \o SubSeq(stream, received + 1, received + n)
            /\ pc' = "drain"
            /\ UNCHANGED base
  /\ UNCHANGED <<searchOffset, poisoned, events, stream, resets>>

-----------------------------------------------------------------------------
(* One iteration of drain().                                                *)

\* Every reason the decoder reports is fatal: fail() poisons and discards.
Fail(reason) ==
  /\ events' = Append(events, [kind |-> "error", at |-> base, reason |-> reason])
  /\ poisoned' = TRUE
  /\ buffer' = <<>>
  /\ searchOffset' = 0
  /\ base' = received
  /\ pc' = "idle"
  /\ UNCHANGED <<env, resets>>

\* Mutant of SearchFrom: no step back.
SearchFromOffset == searchOffset

\* Step back over a delimiter that may straddle the previous chunk boundary.
SearchFrom ==
  IF searchOffset > DelimiterLength - 1 THEN searchOffset - (DelimiterLength - 1) ELSE 0

Found(d) == pc = "drain" /\ FoundDelimiter(buffer, SearchFrom, d)

Block(d) == SubSeq(buffer, 1, d)

AwaitDelimiter ==
  /\ pc = "drain"
  /\ NoDelimiter(buffer, SearchFrom)
  /\ Len(buffer) <= MaxHeaderBlock
  /\ searchOffset' = Len(buffer)
  /\ pc' = "idle"
  /\ UNCHANGED <<buffer, poisoned, events, base, env, resets>>

FailUndelimited ==
  /\ pc = "drain"
  /\ NoDelimiter(buffer, SearchFrom)
  /\ Len(buffer) > MaxHeaderBlock
  /\ Fail("headerBlockTooLarge")

FailOversizeBlock(d) ==
  /\ Found(d)
  /\ d > MaxHeaderBlock
  /\ Fail("headerBlockTooLarge")

FailHeaderBlock(d) ==
  /\ Found(d)
  /\ d <= MaxHeaderBlock
  /\ HeaderFault(Block(d)) # NoFault
  /\ Fail(HeaderFault(Block(d)))

FailContentLength(d) ==
  /\ Found(d)
  /\ d <= MaxHeaderBlock
  /\ HeaderFault(Block(d)) = NoFault
  /\ LengthFault(Block(d)) # NoFault
  /\ Fail(LengthFault(Block(d)))

\* The header block is accepted and announces a body length.
Accepted(d) ==
  /\ Found(d)
  /\ d <= MaxHeaderBlock
  /\ HeaderFault(Block(d)) = NoFault
  /\ LengthFault(Block(d)) = NoFault

FailMessageTooLarge(d) ==
  /\ Accepted(d)
  /\ TotalBytes(Block(d)) > MaxMessage
  /\ Fail("messageTooLarge")

\* Mutant of AwaitBody: the cursor goes to the end of the buffer.
AwaitBodyPastDelimiter(d) ==
  /\ Accepted(d)
  /\ TotalBytes(Block(d)) <= MaxMessage
  /\ Len(buffer) < TotalBytes(Block(d))
  /\ searchOffset' = Len(buffer)
  /\ pc' = "idle"
  /\ UNCHANGED <<buffer, poisoned, events, base, env, resets>>

\* Park the cursor at the delimiter until the body is complete.
AwaitBody(d) ==
  /\ Accepted(d)
  /\ TotalBytes(Block(d)) <= MaxMessage
  /\ Len(buffer) < TotalBytes(Block(d))
  /\ searchOffset' = d
  /\ pc' = "idle"
  /\ UNCHANGED <<buffer, poisoned, events, base, env, resets>>

\* Mutant of Emit: leaves the loop after one message.
EmitOnce(d) ==
  LET total == TotalBytes(Block(d)) IN
  /\ Accepted(d)
  /\ total <= MaxMessage
  /\ Len(buffer) >= total
  /\ buffer' = SubSeq(buffer, total + 1, Len(buffer))
  /\ searchOffset' = 0
  /\ base' = base + total
  /\ events' = Append(events, [kind |-> "message", at |-> base, total |-> total])
  /\ pc' = "idle"
  /\ UNCHANGED <<poisoned, env, resets>>

Emit(d) ==
  LET total == TotalBytes(Block(d)) IN
  /\ Accepted(d)
  /\ total <= MaxMessage
  /\ Len(buffer) >= total
  /\ buffer' = SubSeq(buffer, total + 1, Len(buffer))
  /\ searchOffset' = 0
  /\ base' = base + total
  /\ events' = Append(events, [kind |-> "message", at |-> base, total |-> total])
  /\ pc' = IF Len(buffer) = total THEN "idle" ELSE "drain"
  /\ UNCHANGED <<poisoned, env, resets>>

-----------------------------------------------------------------------------

\* end(): leftover bytes are a truncated message; without any it does nothing.
End ==
  /\ pc = "idle"
  /\ Len(buffer) > 0
  /\ ~poisoned
  /\ Fail("truncatedMessage")

Reset ==
  /\ pc = "idle"
  /\ resets < MaxResets
  /\ resets' = resets + 1
  /\ buffer' = <<>>
  /\ searchOffset' = 0
  /\ poisoned' = FALSE
  /\ base' = received
  /\ UNCHANGED <<pc, events, env>>

Drain ==
  \/ AwaitDelimiter
  \/ FailUndelimited
  \/ \E d \in 0 .. Len(buffer) :
       \/ FailOversizeBlock(d)
       \/ FailHeaderBlock(d)
       \/ FailContentLength(d)
       \/ FailMessageTooLarge(d)
       \/ AwaitBody(d)
       \/ Emit(d)

Next ==
  \/ \E n \in 1 .. MaxChunk : Push(n)
  \/ Drain
  \/ End
  \/ Reset

Spec == Init /\ [][Next]_vars

-----------------------------------------------------------------------------
(* Properties *)

\* The grammar of a header block, stated without splitting it into lines.
WellFormed(block) ==
  LET fields == {i \in 2 .. Len(block) : i % 3 = 1} IN
  /\ Len(block) % 3 = 1
  /\ block[1] \in {Start("SLTP/1.0", "operation"), Start("SLTP/1.0", "status")}
  /\ Expect = "request" => block[1].rest = "operation"
  /\ Expect = "response" => block[1].rest = "status"
  /\ \A i \in fields : /\ block[i].is = "header"
                       /\ block[i].shape = "field"
                       /\ block[i].sign = ""
                       /\ block[i].digits # NotDigits
  /\ \A i \in 2 .. Len(block) : /\ i % 3 = 2 => block[i] = CR
                                /\ i % 3 = 0 => block[i] = LF
  /\ \A i, j \in fields :
       block[i].name = block[j].name /\ block[i].name \in SingleValued => i = j

AnnouncedBody(block) ==
  LET n == {block[i].digits : i \in {j \in DOMAIN block :
              block[j].is = "header" /\ block[j].name = "Content-Length"}}
  IN  IF n = {} THEN 0 ELSE CHOOSE x \in n : TRUE

Event ==
  [kind : {"message"}, at : Nat, total : Nat]
    \cup [kind : {"error"}, at : Nat, reason : Reasons]

TypeOK ==
  /\ stream \in Streams
  /\ received \in 0 .. Len(stream)
  /\ base \in 0 .. received
  /\ searchOffset \in 0 .. Len(buffer)
  /\ poisoned \in BOOLEAN
  /\ pc \in {"idle", "drain"}
  /\ resets \in 0 .. MaxResets
  /\ events \in Seq(Event)

\* No byte is lost, duplicated or reordered between what arrived and what is
\* still buffered: the buffer is exactly the received bytes that no past
\* message (or refusal) has consumed, across any chunking and any number of
\* partial and coalesced messages.
BufferIsUnconsumedStream ==
  buffer = SubSeq(stream, base + 1, received)

\* A poisoned decoder holds no bytes and no cursor, so later pushes and end()
\* find nothing to report.
PoisonedHoldsNothing ==
  poisoned => buffer = <<>> /\ searchOffset = 0 /\ pc = "idle"

\* The search cursor never skips a delimiter: whatever the next scan leaves
\* out holds none, whether the cursor was advanced by a partial header block
\* or parked at the delimiter of a message whose body is still arriving.
CursorSkipsNoDelimiter ==
  \A i \in 0 .. SearchFrom - 1 : ~DelimiterAt(buffer, i)

\* Whenever push() has returned, every complete message that has arrived has
\* been reported, however its bytes were cut up or coalesced: what is left is
\* a proper prefix of one message (or the decoder is poisoned and empty).
IdleHoldsNoCompleteMessage ==
  pc = "idle" =>
    \A d \in 0 .. Len(buffer) :
      FoundDelimiter(buffer, 0, d) =>
        /\ d <= MaxHeaderBlock
        /\ FrameFault(Block(d)) = NoFault
        /\ TotalBytes(Block(d)) > Len(buffer)

\* "a peer that never sends a delimiter cannot grow the buffer without bound"
\* (decoder.ts:200): between pushes at most one header block or one message
\* under its limit is retained.
IdleBufferIsBounded ==
  pc = "idle" => \/ Len(buffer) <= MaxHeaderBlock
                 \/ Len(buffer) < MaxMessage

\* The decoder implements the framing promise: its events are the frames of
\* the stream, whatever the chunks were.
Framing == INSTANCE SltpFraming
             WITH arrived <- received, dead <- poisoned, log <- events

ImplementsFraming == Framing!Spec

\* A message is reported only if its header block is a request or response
\* line and well-formed fields separated by CRLF, with no single-valued field
\* twice and a body of the announced length; a well-formed block within the
\* limits is never refused for its content.
AcceptsExactlyWellFormed ==
  \A k \in DOMAIN events :
    LET at == events[k].at IN
    IF events[k].kind = "message"
    THEN \E d \in 0 .. events[k].total - DelimiterLength :
           /\ DelimiterAt(stream, at + d)
           /\ WellFormed(SubSeq(stream, at + 1, at + d))
           /\ events[k].total = d + DelimiterLength
                                 + AnnouncedBody(SubSeq(stream, at + 1, at + d))
    ELSE events[k].reason \in ContentReasons =>
           \A d \in 0 .. Len(stream) - at - DelimiterLength :
             FoundDelimiter(SubSeq(stream, at + 1, Len(stream)), 0, d)
               => ~WellFormed(SubSeq(stream, at + 1, at + d))

\* What the scan keeps is sound: the cursor never passes a delimiter that is
\* still needed, and what is kept between two pushes stays within the limits,
\* however a delimiter or a body is cut by the chunks.
ScanIsSound ==
  /\ TypeOK
  /\ CursorSkipsNoDelimiter
  /\ IdleBufferIsBounded
=============================================================================
