--------------------------- MODULE MCSltpDecoder ---------------------------
(***************************************************************************)
(* Streams for SltpDecoder: pairs of well-formed messages (with no body, a  *)
(* body, a body that contains the delimiter, a header block of exactly the  *)
(* limit), and each fault of a header block in front of a good message.     *)
(***************************************************************************)
EXTENDS SltpLink

Request == Start("SLTP/1.0", "operation")
Other == Header("field", "Other")

Message(start, fields, body) == Framed(<<start>>, fields, body)

Bare     == Message(Request, <<>>, <<>>)
WithBody == Message(Request, <<ContentLength("", 2)>>, <<Text, Text>>)
Delimited == Message(Request, <<ContentLength("", 5)>>, <<Text>> \o CRLF \o CRLF)
AtLimit  == Message(Request, <<Other, Other, Other>>, <<>>)

BadStarts ==
  {Text, Other, Start("HTTP/1.1", "operation"), Start("SLTP/1.0", ""),
   Start("SLTP/1.0", "status"), Start("SLTP/1.0", "operation.trailing"),
   Start("SLTP/1.0", "operation.badToken")}

BadFields ==
  {Header("folded", ""), Header("noColon", ""), Header("badName", "b@d"),
   Header("badValue", "Other"), Text, ContentLength("-", 1),
   ContentLength("", NotDigits), ContentLength("", 99), ContentLength("", 12), LF, CR}

Faulty ==
  {Message(start, <<>>, <<>>) : start \in BadStarts}
    \cup {Message(Request, <<field>>, <<>>) : field \in BadFields}
    \cup {Message(Request, <<ContentLength("", 1), ContentLength("", 1)>>, <<Text>>),
          Message(Request, <<Header("field", "Session-ID"), Header("field", "Session-ID")>>, <<>>),
          Message(Request, <<Other, Other, Other, Other>>, <<>>),
          CRLF \o Bare, CRLF \o CRLF, <<Request, Text>> \o CRLF \o CRLF,
          [i \in 1 .. 13 |-> Text]}

Good == {Bare, WithBody, Delimited, AtLimit}

-----------------------------------------------------------------------------
(* What is encoded: headers that are none, one, refused, skipped, missing,  *)
(* repeated or too many, with each body.                                    *)

Entry(name, spelled, value) == [name |-> name, spelled |-> spelled, value |-> value]
Valid(name) == Entry(name, "canonical", "valid")
Again(name) == Entry(name, "other", "valid")

HeaderLists ==
  {<<>>, <<Valid("Request-ID")>>, <<Valid("Request-ID"), Again("Request-ID")>>,
   <<Valid("Other"), Again("Other")>>, <<Again("Content-Length")>>, <<Again("Content-Type")>>,
   <<Entry("Content-Type", "canonical", "missing")>>, <<Valid("Content-Type"), Again("Content-Type")>>,
   <<Valid("b@d")>>, <<Entry("Other", "canonical", "invalid")>>,
   <<Entry("Content-Length", "other", "invalid")>>, <<Entry("b@d", "canonical", "missing")>>,
   <<Valid("Request-ID"), Valid("Session-ID"), Valid("Other")>>}

Bodies == {<<>>, <<Text>>, <<Text>> \o CRLF \o CRLF}

All(starts) == [first : starts, headers : HeaderLists, body : Bodies]

MCRequests ==
  {<<o, [first |-> "operation", headers |-> <<Valid("Request-ID")>>, body |-> <<>>]>> :
     o \in All({"operation", "operation.badToken"})}
MCResponses ==
  All({"status", "status.notThreeDigits", "status.outOfRange", "status.noPhrase", "status.badPhrase"})

MCStreams ==
  {a \o b : a \in Good, b \in Good}
    \cup {f \o Bare : f \in Faulty}
    \cup {s.bytes : s \in Sent}
=============================================================================
