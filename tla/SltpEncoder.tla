---------------------------- MODULE SltpEncoder ----------------------------
(***************************************************************************)
(* packages/protocol/src/encoder.ts, with the names and values of           *)
(* headers.ts: what encodeRequest() and encodeResponse() refuse and what    *)
(* they write, in the units of SltpWire.  The caller gives headers as an    *)
(* object: its keys differ, but two of them may be spellings of one name,   *)
(* and a value may be missing (undefined or null).  Which media type is     *)
(* written, and the text of names and values, are left out.                 *)
(***************************************************************************)
EXTENDS SltpWire

\* One entry of the headers; name is what canonicalHeaderName() makes of it.
Given == [name : STRING, spelled : {"canonical", "other"}, value : {"valid", "invalid", "missing"}]

\* EncodeRequestOptions and EncodeResponseOptions; first is the start line.
Options(starts, bodies) == [first : starts, headers : Seq(Given), body : bodies]

CRLF == <<CR, LF>>

\* isValidHeaderName
ValidName(given) == given.name # "b@d"

\* Of the caller's headers, those that are not missing.
Present(o) == SelectSeq(o.headers, LAMBDA given : given.value # "missing")

\* The fault an encoder throws: the start line, then the headers in turn.
EncodeFault(o) ==
  LET bad == {k \in DOMAIN Present(o) : \/ ~ValidName(Present(o)[k])
                                        \/ Present(o)[k].value = "invalid"}
      k1 == CHOOSE k \in bad : \A j \in bad : k <= j
  IN CASE o.first = "operation.badToken" -> "invalidOperationToken"
       [] o.first \in {"status.notThreeDigits", "status.outOfRange"} -> "invalidStatusCode"
       [] o.first \in {"status.noPhrase", "status.badPhrase"} -> "invalidStatusPhrase"
       [] OTHER -> IF bad = {} THEN NoFault
                   ELSE IF ~ValidName(Present(o)[k1]) THEN "invalidHeaderName"
                   ELSE "invalidHeaderValue"

\* The caller's headers that are written: never its Content-Length.
Callers(o) == SelectSeq(Present(o), LAMBDA given : given.name # "Content-Length")

\* The header lines of a body; typed says that the caller gave its type.
BodyFields(typed, body) ==
  IF body = <<>> THEN <<>>
  ELSE (IF typed THEN <<>> ELSE <<Header("field", "Content-Type")>>)
         \o <<ContentLength("", Len(body))>>

Written(o) == [k \in DOMAIN Callers(o) |-> Header("field", Callers(o)[k].name)]

\* Mutant of Fields: a type is looked for as it is spelled.
FieldsAsSpelled(o) ==
  LET typed == \E k \in DOMAIN o.headers : /\ o.headers[k].name = "Content-Type"
                                           /\ o.headers[k].spelled = "canonical"
  IN Written(o) \o BodyFields(typed, o.body)

\* The header lines.  A key Content-Type, however spelled and even of a
\* missing value, keeps the encoder from writing its own.
Fields(o) ==
  LET typed == \E k \in DOMAIN o.headers : o.headers[k].name = "Content-Type"
  IN Written(o) \o BodyFields(typed, o.body)

\* lines.join(CRLF), the blank line and the body
Framed(start, fields, body) ==
  start \o FlattenSeq([k \in DOMAIN fields |-> CRLF \o <<fields[k]>>])
        \o CRLF \o CRLF \o body

\* encodeRequest(), encodeResponse(), of options without a fault
Encode(o) == Framed(<<Start("SLTP/1.0", o.first)>>, Fields(o), o.body)

HeaderBlock(o) == SubSeq(Encode(o), 1, Len(Encode(o)) - Len(o.body) - DelimiterLength)

\* What the encoder leaves to its caller: the limits of the peer, and single
\* fields that are given under two spellings.
Fits(o) ==
  /\ Len(Fields(o)) <= MaxHeaderCount
  /\ Len(HeaderBlock(o)) <= MaxHeaderBlock
  /\ Len(Encode(o)) <= MaxMessage
Repeats(o) ==
  \E j, k \in DOMAIN Callers(o) :
    j # k /\ Callers(o)[j].name = Callers(o)[k].name /\ Callers(o)[j].name \in SingleValued
=============================================================================
