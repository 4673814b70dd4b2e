------------------------------ MODULE SltpWire ------------------------------
(***************************************************************************)
(* The SLTP wire format as packages/protocol/src/decoder.ts reads it: where *)
(* a header block ends, what its start line and header lines may be, and    *)
(* how many body bytes it announces.  Pure operators, no state.             *)
(*                                                                          *)
(* A byte is a unit: CR, LF, or one unit of text.  A text unit stands for   *)
(* the bytes of a whole start line, a whole header line or one body byte;   *)
(* its fields say what the parser would find in those bytes.                *)
(***************************************************************************)
EXTENDS Integers, Sequences, FiniteSets, SequencesExt

CONSTANTS Expect,          \* message kind this decoder accepts, or "any"
          MaxStartLine,    \* limits.maxStartLineBytes
          MaxHeaderCount,  \* limits.maxHeaderCount
          MaxHeaderBlock,  \* limits.maxHeaderBlockBytes
          MaxMessage       \* limits.maxMessageBytes

ASSUME WireAssumption ==
  /\ Expect \in {"request", "response", "any"}
  /\ {MaxStartLine, MaxHeaderCount, MaxHeaderBlock, MaxMessage} \subseteq Nat

NoFault == "none"

\* The reasons that blame what a header block says rather than its size.
ContentReasons ==
  {"emptyStartLine", "bareLineFeed", "bareCarriageReturn", "malformedStartLine",
   "unsupportedProtocolVersion", "unexpectedMessageKind", "invalidOperationToken",
   "invalidStatusCode", "missingStatusPhrase", "invalidStatusPhrase",
   "obsoleteLineFolding", "malformedHeaderLine", "invalidHeaderName",
   "invalidHeaderValue", "duplicateHeader", "negativeContentLength",
   "invalidContentLength"}

\* SLTP_REASON, the framing part; every one of them is fatal.
Reasons ==
  ContentReasons \cup {"startLineTooLarge", "tooManyHeaders", "headerBlockTooLarge",
                       "contentLengthTooLarge", "messageTooLarge", "truncatedMessage"}

CR == [is |-> "CR"]
LF == [is |-> "LF"]
Text == [is |-> "text"]                       \* a body byte, or unparseable text
Start(version, rest) == [is |-> "start", version |-> version, rest |-> rest]
Header(shape, name) ==
  [is |-> "header", shape |-> shape, name |-> name, sign |-> "", digits |-> 0]
\* A value that is not made of digits has digits = NotDigits.
ContentLength(sign, digits) ==
  [is |-> "header", shape |-> "field", name |-> "Content-Length",
   sign |-> sign, digits |-> digits]
NotDigits == -1

Byte ==
  [is : {"CR", "LF", "text"}]
    \cup [is : {"start"}, version : STRING, rest : STRING]
    \cup [is : {"header"}, shape : STRING, name : STRING, sign : STRING, digits : Int]

-----------------------------------------------------------------------------
(* The delimiter CRLFCRLF.  Offsets count from 0, as in the code.           *)

DelimiterLength == 4

DelimiterAt(bytes, i) ==
  /\ i >= 0
  /\ i + DelimiterLength <= Len(bytes)
  /\ bytes[i + 1] = CR
  /\ bytes[i + 2] = LF
  /\ bytes[i + 3] = CR
  /\ bytes[i + 4] = LF

\* buffer.indexOf(DELIMITER, from) returns d
FoundDelimiter(bytes, from, d) ==
  /\ d >= from
  /\ DelimiterAt(bytes, d)
  /\ \A i \in from .. d - 1 : ~DelimiterAt(bytes, i)

\* buffer.indexOf(DELIMITER, from) returns -1
NoDelimiter(bytes, from) ==
  \A i \in from .. Len(bytes) : ~DelimiterAt(bytes, i)

-----------------------------------------------------------------------------
(* parseHeaderBlock: the faults in the order the code tests for them.       *)

\* text.split('\r\n')
Lines(block) ==
  LET breaks == {i \in 1 .. Len(block) - 1 : block[i] = CR /\ block[i + 1] = LF}
      starts == SetToSortSeq({1} \cup {i + 2 : i \in breaks}, <)
      ends   == SetToSortSeq({i - 1 : i \in breaks} \cup {Len(block)}, <)
  IN  [k \in 1 .. Len(starts) |-> SubSeq(block, starts[k], ends[k])]

StatusStartFault(rest) ==
  IF Expect = "request" THEN "unexpectedMessageKind"
  ELSE IF rest \in {"status.notThreeDigits", "status.outOfRange"} THEN "invalidStatusCode"
  ELSE IF rest = "status.noPhrase" THEN "missingStatusPhrase"
  ELSE IF rest = "status.badPhrase" THEN "invalidStatusPhrase"
  ELSE NoFault

RequestStartFault(rest) ==
  IF Expect = "response" THEN "unexpectedMessageKind"
  ELSE IF rest = "operation.trailing" THEN "malformedStartLine"
  ELSE IF rest = "operation.badToken" THEN "invalidOperationToken"
  ELSE NoFault

\* parseStartLine: a line that is not one start unit has no space separator.
StartLineFault(line) ==
  IF Len(line) # 1 \/ line[1].is # "start" THEN "malformedStartLine"
  ELSE IF line[1].version # "SLTP/1.0" THEN "unsupportedProtocolVersion"
  ELSE IF line[1].rest = "" THEN "malformedStartLine"
  ELSE IF line[1].rest \in {"status", "status.notThreeDigits", "status.outOfRange",
                            "status.noPhrase", "status.badPhrase"}
       THEN StatusStartFault(line[1].rest)
  ELSE RequestStartFault(line[1].rest)

SingleValued == {"Content-Length", "Content-Type", "Request-ID", "Session-ID"}

IsField(line) == Len(line) = 1 /\ line[1].is = "header"

\* Mutant of HeaderLineFault: duplicates pass.
HeaderLineFaultAlone(lines, k) ==
  LET line == lines[k] IN
  IF ~IsField(line) \/ line[1].shape = "noColon" THEN "malformedHeaderLine"
  ELSE IF line[1].shape = "folded" THEN "obsoleteLineFolding"
  ELSE IF line[1].shape = "badName" THEN "invalidHeaderName"
  ELSE IF line[1].shape = "badValue" THEN "invalidHeaderValue"
  ELSE NoFault

HeaderLineFault(lines, k) ==
  LET line == lines[k] IN
  IF ~IsField(line) THEN "malformedHeaderLine"
  ELSE IF line[1].shape = "folded" THEN "obsoleteLineFolding"
  ELSE IF line[1].shape = "noColon" THEN "malformedHeaderLine"
  ELSE IF line[1].shape = "badName" THEN "invalidHeaderName"
  ELSE IF line[1].shape = "badValue" THEN "invalidHeaderValue"
  ELSE IF /\ line[1].name \in SingleValued
          /\ \E j \in 2 .. k - 1 :
               IsField(lines[j]) /\ lines[j][1].name = line[1].name
       THEN "duplicateHeader"
  ELSE NoFault

\* A bare LF or CR left in a line by the split: the first such line decides.
BareFault(lines) ==
  LET bare(k) == \E i \in DOMAIN lines[k] : lines[k][i] \in {CR, LF}
      K == {k \in DOMAIN lines : bare(k)}
      first == CHOOSE k \in K : \A j \in K : k <= j
  IN  IF K = {} THEN NoFault
      ELSE IF \E i \in DOMAIN lines[first] : lines[first][i] = LF
           THEN "bareLineFeed"
      ELSE "bareCarriageReturn"

FieldsFault(lines) ==
  LET K == {k \in 2 .. Len(lines) : HeaderLineFault(lines, k) # NoFault}
      first == CHOOSE k \in K : \A j \in K : k <= j
  IN  IF K = {} THEN NoFault ELSE HeaderLineFault(lines, first)

HeaderFault(block) ==
  LET lines == Lines(block) IN
  IF lines[1] = <<>> THEN "emptyStartLine"
  ELSE IF Len(lines[1]) > MaxStartLine THEN "startLineTooLarge"
  ELSE IF BareFault(lines) # NoFault THEN BareFault(lines)
  ELSE IF StartLineFault(lines[1]) # NoFault THEN StartLineFault(lines[1])
  ELSE IF Len(lines) - 1 > MaxHeaderCount THEN "tooManyHeaders"
  ELSE FieldsFault(lines)

-----------------------------------------------------------------------------
(* resolveContentLength: the first Content-Length field decides; none means *)
(* no body.  A count that is not a safe integer and one above the message   *)
(* limit get the same reason.                                               *)

LengthFields(block) ==
  {k \in 2 .. Len(Lines(block)) :
     IsField(Lines(block)[k]) /\ Lines(block)[k][1].name = "Content-Length"}

LengthField(block) ==
  Lines(block)[CHOOSE k \in LengthFields(block) :
                 \A j \in LengthFields(block) : k <= j][1]

LengthFault(block) ==
  IF LengthFields(block) = {} THEN NoFault
  ELSE IF LengthField(block).sign = "-" THEN "negativeContentLength"
  ELSE IF LengthField(block).digits \notin Nat THEN "invalidContentLength"
  ELSE IF LengthField(block).digits > MaxMessage THEN "contentLengthTooLarge"
  ELSE NoFault

BodyBytes(block) ==
  IF LengthFields(block) = {} THEN 0 ELSE LengthField(block).digits

\* bytes of the whole message a header block announces
TotalBytes(block) == Len(block) + DelimiterLength + BodyBytes(block)

\* The verdict on a header block, in the order drain() reaches it.
FrameFault(block) ==
  IF HeaderFault(block) # NoFault THEN HeaderFault(block)
  ELSE IF LengthFault(block) # NoFault THEN LengthFault(block)
  ELSE IF TotalBytes(block) > MaxMessage THEN "messageTooLarge"
  ELSE NoFault
=============================================================================
