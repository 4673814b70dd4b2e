------------------------------ MODULE SltpLink ------------------------------
(***************************************************************************)
(* The encoder at one end of a connection and the decoder at the other:     *)
(* some of the streams of SltpDecoder are two requests that were encoded.   *)
(***************************************************************************)
EXTENDS SltpDecoder, SltpEncoder

CONSTANTS Requests,        \* pairs of options that are encoded and sent
          Responses        \* options of responses

ASSUME LinkAssumption ==
  \A pair \in Requests :
    \A k \in {1, 2} : pair[k] \in Options({"operation", "operation.badToken"}, Seq(Byte))

\* Pairs the encoder accepts, with what it writes.
Sent == {[bytes |-> Encode(pair[1]) \o Encode(pair[2]), of |-> pair] :
           pair \in {p \in Requests : EncodeFault(p[1]) = NoFault /\ EncodeFault(p[2]) = NoFault}}

OtherEnd == INSTANCE SltpWire WITH Expect <- "response"

\* An end that expects responses accepts the header block of every response
\* that is encoded, unless it is too large or repeats a field.
ResponsesAreAccepted ==
  \A o \in Responses : EncodeFault(o) = NoFault /\ Fits(o) =>
    OtherEnd!FrameFault(HeaderBlock(o)) = IF Repeats(o) THEN "duplicateHeader" ELSE NoFault

\* "A bug in the caller is caught before bad bytes reach the wire"
\* (encoder.ts:5), as far as it goes: whatever the encoder accepts is decoded
\* as the very messages that were sent, however it is cut up, unless one of
\* them exceeds a limit, comes within a delimiter of the limit of a header
\* block, or gives a field that may come once under two spellings.
\* The last of these is refused by every decoder, and ends the connection.
EncodedIsDelivered ==
  /\ ResponsesAreAccepted
  /\ \A s \in Sent : (stream = s.bytes /\ resets = 0) =>
       LET one == s.of[1]  two == s.of[2]
           safe(o) == /\ Fits(o) /\ ~Repeats(o)
                      /\ Len(HeaderBlock(o)) + DelimiterLength <= MaxHeaderBlock + 1
           cutShort == \E k \in DOMAIN events :
                         events[k].kind = "error" /\ events[k].reason = "truncatedMessage"
           messages == <<[kind |-> "message", at |-> 0, total |-> Len(Encode(one))],
                         [kind |-> "message", at |-> Len(Encode(one)), total |-> Len(Encode(two))]>>
       IN /\ Repeats(one) => \A k \in DOMAIN events : events[k].kind = "error"
          /\ (safe(one) /\ safe(two) /\ ~cutShort) =>
               /\ IsPrefix(events, messages)
               /\ (pc = "idle" /\ received = Len(stream)) => events = messages
=============================================================================
