---------------------------- MODULE SltpFraming ----------------------------
(***************************************************************************)
(* What the SLTP decoder promises, with no buffer, no chunks and no search  *)
(* cursor: the messages it reports are the successive frames of the byte    *)
(* stream, in order, each one complete; and it refuses the stream only for  *)
(* a fault of the frame it has reached.  SltpDecoder implements this, with  *)
(* the operators of SltpWire for the wire format.                           *)
(***************************************************************************)
EXTENDS Integers, Sequences

CONSTANTS
  Streams,                 \* the byte streams a peer may send
  MaxHeaderBlock,          \* the longest header block that must be accepted
  DelimiterLength,
  NoFault,
  DelimiterAt(_, _),       \* a delimiter starts at this offset of these bytes
  FrameFault(_),           \* what is wrong with a header block, or NoFault
  TotalBytes(_)            \* bytes of the message a header block announces

VARIABLES
  stream,                  \* everything the peer will ever send
  arrived,                 \* how many of those bytes have arrived
  base,                    \* how many of those belong to past frames
  dead,                    \* TRUE once the stream has been refused
  log                      \* the events reported

fvars == <<stream, arrived, base, dead, log>>

\* The header block of the frame at base is the next d bytes.
HeaderEnd(d) ==
  /\ DelimiterAt(stream, base + d)
  /\ base + d + DelimiterLength <= arrived
  /\ \A i \in 0 .. d - 1 : ~DelimiterAt(stream, base + i)

HeaderBlock(d) == SubSeq(stream, base + 1, base + d)

Init ==
  /\ stream \in Streams
  /\ arrived = 0
  /\ base = 0
  /\ dead = FALSE
  /\ log = <<>>

\* More bytes arrive; a refused stream is skipped.
Arrive ==
  /\ arrived' \in arrived + 1 .. Len(stream)
  /\ base' = IF dead THEN arrived' ELSE base
  /\ UNCHANGED <<stream, dead, log>>

\* A frame all of whose bytes have arrived is reported and consumed.
Deliver(d) ==
  /\ ~dead
  /\ HeaderEnd(d)
  /\ d <= MaxHeaderBlock
  /\ FrameFault(HeaderBlock(d)) = NoFault
  /\ base + TotalBytes(HeaderBlock(d)) <= arrived
  /\ base' = base + TotalBytes(HeaderBlock(d))
  /\ log' = Append(log, [kind |-> "message", at |-> base,
                         total |-> TotalBytes(HeaderBlock(d))])
  /\ UNCHANGED <<stream, arrived, dead>>

Refuse(reason) ==
  /\ ~dead
  /\ dead' = TRUE
  /\ base' = arrived
  /\ log' = Append(log, [kind |-> "error", at |-> base, reason |-> reason])
  /\ UNCHANGED <<stream, arrived>>

RefuseFault(d) ==
  /\ HeaderEnd(d)
  /\ d <= MaxHeaderBlock
  /\ FrameFault(HeaderBlock(d)) # NoFault
  /\ Refuse(FrameFault(HeaderBlock(d)))

\* A header block longer than the limit must be refused.  One whose delimiter
\* has only partly arrived may be refused up to three bytes early.
RefuseOversize ==
  /\ arrived - base > MaxHeaderBlock
  /\ \A i \in 0 .. MaxHeaderBlock - DelimiterLength + 1 :
        ~DelimiterAt(stream, base + i)
  /\ Refuse("headerBlockTooLarge")

\* The frame at base is neither complete nor refusable.
Incomplete ==
  /\ \A d \in 0 .. Len(stream) :
        HeaderEnd(d) => /\ d <= MaxHeaderBlock
                        /\ FrameFault(HeaderBlock(d)) = NoFault
                        /\ base + TotalBytes(HeaderBlock(d)) > arrived

\* The peer stopped in the middle of a frame.
RefuseTruncated ==
  /\ arrived > base
  /\ Incomplete
  /\ Refuse("truncatedMessage")

\* The owner starts over at the next byte to arrive.
Restart ==
  /\ base' = arrived
  /\ dead' = FALSE
  /\ UNCHANGED <<stream, arrived, log>>

Next ==
  \/ Arrive
  \/ \E d \in 0 .. Len(stream) : Deliver(d) \/ RefuseFault(d)
  \/ RefuseOversize
  \/ RefuseTruncated
  \/ Restart

Spec == Init /\ [][Next]_fvars
=============================================================================
