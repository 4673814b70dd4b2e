------------------------- MODULE SltpDecoderProofs -------------------------
(***************************************************************************)
(* Proofs about SltpDecoder, for every set of streams and every limit.      *)
(***************************************************************************)
EXTENDS SltpDecoder, SequenceTheorems, TLAPS

(* What resolveContentLength accepts is a number of bytes. *)
LEMMA AcceptedLengthIsNat ==
  ASSUME NEW b, LengthFault(b) = NoFault
  PROVE  BodyBytes(b) \in Nat
BY DEF LengthFault, BodyBytes, NoFault

(* Every fault the decoder finds in a header block has a framing reason. *)
LEMMA FaultsHaveReasons ==
  ASSUME NEW b
  PROVE  /\ HeaderFault(b) # NoFault => HeaderFault(b) \in Reasons
         /\ LengthFault(b) # NoFault => LengthFault(b) \in Reasons
<1> DEFINE Ok(r) == r = NoFault \/ r \in Reasons
<1>1. ASSUME NEW ls, NEW k PROVE Ok(HeaderLineFault(ls, k))
  BY DEF HeaderLineFault, Reasons, ContentReasons
<1>2. ASSUME NEW ls PROVE Ok(FieldsFault(ls))
  BY <1>1 DEF FieldsFault
<1>3. ASSUME NEW ls PROVE Ok(BareFault(ls))
  BY DEF BareFault, Reasons, ContentReasons
<1>4. ASSUME NEW l PROVE Ok(StartLineFault(l))
  BY DEF StartLineFault, StatusStartFault, RequestStartFault, Reasons, ContentReasons
<1>5. Ok(HeaderFault(b))
  BY <1>2, <1>3, <1>4 DEF HeaderFault, Reasons, ContentReasons
<1>6. Ok(LengthFault(b))
  BY DEF LengthFault, Reasons, ContentReasons
<1> QED BY <1>5, <1>6

(* A window of a sequence. *)
LEMMA Window ==
  ASSUME NEW S, NEW s \in Seq(S), NEW a \in Nat, NEW b \in a .. Len(s)
  PROVE  /\ SubSeq(s, a + 1, b) \in Seq(S)
         /\ Len(SubSeq(s, a + 1, b)) = b - a
         /\ \A i \in 1 .. b - a : SubSeq(s, a + 1, b)[i] = s[a + i]
BY SubSeqProperties

(* A delimiter of a window is a delimiter of the sequence. *)
LEMMA DelimiterInWindow ==
  ASSUME NEW s \in Seq(Byte), NEW a \in Nat, NEW b \in a .. Len(s), NEW i \in Nat
  PROVE  DelimiterAt(SubSeq(s, a + 1, b), i)
           <=> DelimiterAt(s, a + i) /\ a + i + DelimiterLength <= b
<1> DEFINE w == SubSeq(s, a + 1, b)
<1>1. Len(w) = b - a /\ \A k \in 1 .. b - a : w[k] = s[a + k]
  BY Window
<1> HIDE DEF w
<1>2. b \in Int /\ Len(s) \in Nat /\ b <= Len(s)
  OBVIOUS
<1>3. i + DelimiterLength <= b - a <=> a + i + DelimiterLength <= b
  BY <1>2 DEF DelimiterLength
<1>4. ASSUME i + DelimiterLength <= b - a
      PROVE  /\ w[i + 1] = s[a + i + 1] /\ w[i + 2] = s[a + i + 2]
             /\ w[i + 3] = s[a + i + 3] /\ w[i + 4] = s[a + i + 4]
  BY <1>1, <1>2, <1>4 DEF DelimiterLength
<1>5. DelimiterAt(w, i) <=> DelimiterAt(s, a + i) /\ a + i + DelimiterLength <= b
  BY <1>1, <1>2, <1>3, <1>4 DEF DelimiterAt, DelimiterLength
<1> QED BY <1>5 DEF w

(* Windows compose: dropping a prefix, and joining two adjacent windows. *)
LEMMA WindowSuffix ==
  ASSUME NEW S, NEW s \in Seq(S), NEW a \in Nat, NEW b \in a .. Len(s),
         NEW c \in 0 .. b - a
  PROVE  SubSeq(SubSeq(s, a + 1, b), c + 1, b - a) = SubSeq(s, a + c + 1, b)
<1> DEFINE w == SubSeq(s, a + 1, b)
<1>1. /\ w \in Seq(S)
      /\ Len(w) = b - a
      /\ \A i \in 1 .. b - a : w[i] = s[a + i]
  BY Window
<1> HIDE DEF w
<1>2. /\ SubSeq(w, c + 1, b - a) \in Seq(S)
      /\ Len(SubSeq(w, c + 1, b - a)) = (b - a) - c
      /\ \A i \in 1 .. (b - a) - c : SubSeq(w, c + 1, b - a)[i] = w[c + i]
  <2>1. c \in Nat /\ b - a \in c .. Len(w) /\ w \in Seq(S)
    BY <1>1
  <2> HIDE DEF w
  <2> QED BY <2>1, Window
<1>3. /\ SubSeq(s, a + c + 1, b) \in Seq(S)
      /\ Len(SubSeq(s, a + c + 1, b)) = b - (a + c)
      /\ \A i \in 1 .. b - (a + c) : SubSeq(s, a + c + 1, b)[i] = s[a + c + i]
  <2>1. a + c \in Nat /\ b \in a + c .. Len(s)
    OBVIOUS
  <2> QED BY <2>1, Window
<1> DEFINE p == SubSeq(w, c + 1, b - a)
           q == SubSeq(s, a + c + 1, b)
<1>4. /\ p \in Seq(S) /\ q \in Seq(S) /\ Len(p) = b - a - c /\ Len(q) = b - a - c
      /\ \A i \in 1 .. b - a - c : p[i] = w[c + i] /\ q[i] = s[a + c + i]
  <2>1. b - (a + c) = b - a - c
    OBVIOUS
  <2>2. /\ q \in Seq(S) /\ Len(q) = b - a - c
        /\ \A i \in 1 .. b - a - c : q[i] = s[a + c + i]
    BY <2>1, <1>3, Zenon
  <2> QED BY <1>2, <2>2, Zenon
<1> HIDE DEF p, q
<1>5. ASSUME NEW i \in 1 .. b - a - c PROVE p[i] = q[i]
  <2>1. c + i \in 1 .. b - a /\ a + (c + i) = a + c + i
    OBVIOUS
  <2>2. w[c + i] = s[a + (c + i)]
    BY <2>1, <1>1
  <2> QED BY <2>1, <2>2, <1>4
<1>6. p = q
  BY <1>4, <1>5, SeqEqual
<1> QED BY <1>6 DEF p, q, w

LEMMA WindowPrefix ==
  ASSUME NEW S, NEW s \in Seq(S), NEW a \in Nat, NEW b \in a .. Len(s),
         NEW c \in 0 .. b - a
  PROVE  SubSeq(SubSeq(s, a + 1, b), 1, c) = SubSeq(s, a + 1, a + c)
<1> DEFINE w == SubSeq(s, a + 1, b)
<1>1. /\ w \in Seq(S)
      /\ Len(w) = b - a
      /\ \A i \in 1 .. b - a : w[i] = s[a + i]
  BY Window
<1> HIDE DEF w
<1>2. /\ SubSeq(w, 1, c) \in Seq(S)
      /\ Len(SubSeq(w, 1, c)) = c
      /\ \A i \in 1 .. c : SubSeq(w, 1, c)[i] = w[i]
  <2>1. /\ SubSeq(w, 0 + 1, c) \in Seq(S)
        /\ Len(SubSeq(w, 0 + 1, c)) = c - 0
        /\ \A i \in 1 .. c - 0 : SubSeq(w, 0 + 1, c)[i] = w[0 + i]
    BY <1>1, Window
  <2> QED BY <2>1, <1>1
<1>3. /\ SubSeq(s, a + 1, a + c) \in Seq(S)
      /\ Len(SubSeq(s, a + 1, a + c)) = c
      /\ \A i \in 1 .. c : SubSeq(s, a + 1, a + c)[i] = s[a + i]
  BY Window
<1> DEFINE p == SubSeq(w, 1, c)
           q == SubSeq(s, a + 1, a + c)
<1>4. /\ p \in Seq(S) /\ q \in Seq(S) /\ Len(p) = c /\ Len(q) = c
      /\ \A i \in 1 .. c : p[i] = w[i] /\ q[i] = s[a + i]
  BY <1>2, <1>3
<1> HIDE DEF p, q
<1>5. ASSUME NEW i \in 1 .. c PROVE p[i] = q[i]
  <2>1. i \in 1 .. b - a
    OBVIOUS
  <2> QED BY <2>1, <1>1, <1>4
<1>6. p = q
  BY <1>4, <1>5, SeqEqual
<1> QED BY <1>6 DEF p, q, w

LEMMA WindowJoin ==
  ASSUME NEW S, NEW s \in Seq(S), NEW a \in Nat, NEW b \in a .. Len(s),
         NEW c \in b .. Len(s)
  PROVE  SubSeq(s, a + 1, b) \o SubSeq(s, b + 1, c) = SubSeq(s, a + 1, c)
<1> DEFINE u == SubSeq(s, a + 1, b)
           v == SubSeq(s, b + 1, c)
           w == SubSeq(s, a + 1, c)
<1>1. /\ u \in Seq(S)
      /\ Len(u) = b - a
      /\ \A i \in 1 .. b - a : u[i] = s[a + i]
  BY Window
<1>2. /\ v \in Seq(S)
      /\ Len(v) = c - b
      /\ \A i \in 1 .. c - b : v[i] = s[b + i]
  BY Window
<1>3. /\ w \in Seq(S)
      /\ Len(w) = c - a
      /\ \A i \in 1 .. c - a : w[i] = s[a + i]
  BY Window
<1> HIDE DEF u, v, w
<1>4. /\ u \o v \in Seq(S)
      /\ Len(u \o v) = c - a
      /\ \A i \in 1 .. c - a :
            (u \o v)[i] = IF i <= Len(u) THEN u[i] ELSE v[i - Len(u)]
  BY <1>1, <1>2, ConcatProperties
<1>5. ASSUME NEW i \in 1 .. c - a PROVE (u \o v)[i] = w[i]
  <2>1. a \in Int /\ b \in Int /\ c \in Int /\ i \in Int /\ a <= b /\ b <= c
    OBVIOUS
  <2>2. w[i] = s[a + i] /\ (u \o v)[i] = IF i <= b - a THEN u[i] ELSE v[i - (b - a)]
    BY <1>1, <1>3, <1>4
  <2>3. CASE i <= b - a
    <3>1. i \in 1 .. b - a
      BY <2>1, <2>3
    <3> QED BY <3>1, <1>1, <2>2, <2>3
  <2>4. CASE ~(i <= b - a)
    <3>1. i - (b - a) \in 1 .. c - b /\ b + (i - (b - a)) = a + i
      BY <2>1, <2>4
    <3>2. v[i - (b - a)] = s[b + (i - (b - a))]
      BY <3>1, <1>2
    <3> QED BY <3>1, <3>2, <2>2, <2>4
  <2> QED BY <2>3, <2>4
<1>6. u \o v = w
  BY <1>3, <1>4, <1>5, SeqEqual
<1> QED BY <1>6 DEF u, v, w

-----------------------------------------------------------------------------
(* The inductive invariant of the buffer: the type invariant alone does not *)
(* bound base, because Emit advances it by a length it reads in the buffer. *)

BufferInv == TypeOK /\ BufferIsUnconsumedStream /\ PoisonedHoldsNothing

LEMMA BufferFacts ==
  ASSUME BufferInv
  PROVE  /\ stream \in Seq(Byte)
         /\ received \in Nat /\ base \in Nat /\ base <= received
         /\ received <= Len(stream)
         /\ buffer \in Seq(Byte)
         /\ Len(buffer) = received - base
         /\ buffer = SubSeq(stream, base + 1, received)
<1>1. stream \in Seq(Byte) /\ received \in 0 .. Len(stream) /\ base \in 0 .. received
  BY DecoderAssumption DEF BufferInv, TypeOK
<1>2. Len(stream) \in Nat
  BY <1>1
<1>3. base \in Nat /\ received \in base .. Len(stream)
  BY <1>1, <1>2
<1> QED BY <1>1, <1>2, <1>3, Window DEF BufferInv, BufferIsUnconsumedStream

(* A fault leaves an empty buffer that starts where the stream has reached. *)
LEMMA FailKeepsBufferInv ==
  ASSUME BufferInv, NEW r \in Reasons, Fail(r)
  PROVE  BufferInv'
<1>1. /\ stream \in Seq(Byte) /\ received \in Nat /\ base \in Nat
      /\ received <= Len(stream)
  BY BufferFacts
<1>2. buffer' = <<>> /\ base' = received /\ received' = received /\ stream' = stream
  BY DEF Fail, env
<1>3. SubSeq(stream, received + 1, received) = <<>>
  BY <1>1, Window, EmptySeq
<1>4. events' \in Seq(Event)
  BY <1>1 DEF BufferInv, TypeOK, Fail, Event
<1>5. TypeOK'
  BY <1>1, <1>2, <1>4 DEF BufferInv, TypeOK, Fail
<1> QED
  BY <1>2, <1>3, <1>5
  DEF BufferInv, BufferIsUnconsumedStream, PoisonedHoldsNothing, Fail

(* The length of an accepted message. *)
LEMMA AcceptedTotal ==
  ASSUME BufferInv, NEW d \in Nat, Accepted(d)
  PROVE  /\ DelimiterAt(buffer, d)
         /\ d + DelimiterLength <= Len(buffer)
         /\ Block(d) \in Seq(Byte)
         /\ Len(Block(d)) = d
         /\ TotalBytes(Block(d)) \in Nat
         /\ TotalBytes(Block(d)) >= d + DelimiterLength
<1>1. DelimiterAt(buffer, d) /\ d + DelimiterLength <= Len(buffer)
  BY DEF Accepted, Found, FoundDelimiter, DelimiterAt
<1>2. buffer \in Seq(Byte) /\ Len(buffer) \in Nat
  BY BufferFacts
<1>3. SubSeq(buffer, 0 + 1, d) \in Seq(Byte) /\ Len(SubSeq(buffer, 0 + 1, d)) = d - 0
  BY <1>1, <1>2, Window DEF DelimiterLength
<1>4. Block(d) \in Seq(Byte) /\ Len(Block(d)) = d
  BY <1>3 DEF Block
<1>5. BodyBytes(Block(d)) \in Nat
  BY AcceptedLengthIsNat DEF Accepted
<1> QED BY <1>1, <1>4, <1>5 DEF TotalBytes, DelimiterLength

LEMMA PushKeepsBufferInv ==
  ASSUME BufferInv, NEW n \in 1 .. MaxChunk, Push(n)
  PROVE  BufferInv'
<1>1. /\ stream \in Seq(Byte) /\ received \in Nat /\ base \in Nat /\ base <= received
      /\ Len(stream) \in Nat /\ received + n <= Len(stream) /\ n \in Nat
      /\ buffer = SubSeq(stream, base + 1, received)
      /\ Len(buffer) = received - base
      /\ buffer \in Seq(Byte)
  BY BufferFacts, DecoderAssumption DEF Push
<1>2. received' = received + n /\ stream' = stream
  BY DEF Push
<1>3. CASE poisoned
  <2>1. buffer' = buffer /\ base' = received + n
    BY <1>3 DEF Push
  <2>2. buffer = <<>> /\ received = base
    BY <1>1, <1>3 DEF BufferInv, PoisonedHoldsNothing
  <2>3. buffer' = SubSeq(stream, (received + n) + 1, received + n)
    BY <1>1, <2>1, <2>2, Window, EmptySeq
  <2>4. TypeOK'
    BY <1>1, <1>2, <1>3, <2>1 DEF BufferInv, TypeOK, Push
  <2> QED
    BY <1>2, <1>3, <2>1, <2>2, <2>3, <2>4
    DEF BufferInv, BufferIsUnconsumedStream, PoisonedHoldsNothing, Push
<1>4. CASE ~poisoned
  <2>1. buffer' = buffer \o SubSeq(stream, received + 1, received + n) /\ base' = base
    BY <1>4 DEF Push
  <2>2. received \in base .. Len(stream) /\ received + n \in received .. Len(stream)
    BY <1>1
  <2>3. buffer' = SubSeq(stream, base + 1, received + n)
    BY <1>1, <2>1, <2>2, WindowJoin
  <2>4. Len(buffer') = received + n - base
    BY <1>1, <2>3, Window
  <2>5. TypeOK'
    BY <1>1, <1>2, <1>4, <2>1, <2>4 DEF BufferInv, TypeOK, Push
  <2> QED
    BY <1>2, <1>4, <2>1, <2>3, <2>5
    DEF BufferInv, BufferIsUnconsumedStream, PoisonedHoldsNothing, Push
<1> QED BY <1>3, <1>4

LEMMA EmitKeepsBufferInv ==
  ASSUME BufferInv, NEW d \in Nat, Emit(d)
  PROVE  BufferInv'
<1> DEFINE total == TotalBytes(Block(d))
<1>1. /\ stream \in Seq(Byte) /\ received \in Nat /\ base \in Nat /\ base <= received
      /\ Len(stream) \in Nat /\ received <= Len(stream)
      /\ buffer = SubSeq(stream, base + 1, received)
      /\ Len(buffer) = received - base
  BY BufferFacts
<1>2. total \in Nat /\ total <= received - base
  BY <1>1, AcceptedTotal DEF Emit
<1>3. /\ buffer' = SubSeq(buffer, total + 1, Len(buffer))
      /\ base' = base + total
      /\ searchOffset' = 0
      /\ events' = Append(events, [kind |-> "message", at |-> base, total |-> total])
      /\ pc' \in {"idle", "drain"}
      /\ poisoned' = poisoned /\ stream' = stream /\ received' = received
      /\ resets' = resets
  BY DEF Emit, env
<1> HIDE DEF total
<1>4. received \in base .. Len(stream) /\ total \in 0 .. received - base
  BY <1>1, <1>2
<1>5. buffer' = SubSeq(stream, base + total + 1, received)
  BY <1>1, <1>3, <1>4, WindowSuffix
<1>6. base + total \in Nat /\ received \in base + total .. Len(stream)
  BY <1>1, <1>2
<1>7. Len(buffer') \in Nat
  BY <1>1, <1>5, <1>6, Window
<1>8. events' \in Seq(Event)
  BY <1>1, <1>2, <1>3 DEF BufferInv, TypeOK, Event
<1>9. TypeOK'
  BY <1>1, <1>2, <1>3, <1>7, <1>8 DEF BufferInv, TypeOK
<1>10. ~poisoned
  BY DEF BufferInv, PoisonedHoldsNothing, Emit, Accepted, Found
<1> QED
  BY <1>3, <1>5, <1>9, <1>10 DEF BufferInv, BufferIsUnconsumedStream, PoisonedHoldsNothing

(* One step of the loop, of end() or of reset(), other than Push and Emit. *)
LEMMA ResetKeepsBufferInv ==
  ASSUME BufferInv, Reset
  PROVE  BufferInv'
<1>1. /\ stream \in Seq(Byte) /\ received \in Nat /\ received <= Len(stream)
      /\ resets' \in 0 .. MaxResets
  BY BufferFacts, DecoderAssumption DEF Reset, BufferInv, TypeOK
<1>2. /\ buffer' = <<>> /\ base' = received /\ searchOffset' = 0 /\ poisoned' = FALSE
      /\ received' = received /\ stream' = stream /\ pc' = pc /\ events' = events
  BY DEF Reset, env
<1>3. SubSeq(stream, received + 1, received) = <<>>
  BY <1>1, Window, EmptySeq
<1>4. TypeOK'
  <2>1. received' \in 0 .. Len(stream') /\ base' \in 0 .. received'
    BY <1>1, <1>2
  <2>2. Len(buffer') = 0
    BY <1>2, EmptySeq
  <2>3. searchOffset' \in 0 .. Len(buffer')
    BY <1>2, <2>2
  <2>4. poisoned' \in BOOLEAN
    BY <1>2, Zenon
  <2> QED BY <1>1, <1>2, <2>1, <2>3, <2>4 DEF BufferInv, TypeOK
<1> QED
  BY <1>2, <1>3, <1>4 DEF BufferInv, BufferIsUnconsumedStream, PoisonedHoldsNothing

LEMMA AwaitKeepsBufferInv ==
  ASSUME BufferInv, AwaitDelimiter \/ \E d \in 0 .. Len(buffer) : AwaitBody(d)
  PROVE  BufferInv'
<1>1. /\ searchOffset' \in 0 .. Len(buffer)
      /\ pc' = "idle"
      /\ UNCHANGED <<buffer, poisoned, events, base, env, resets>>
  BY BufferFacts DEF AwaitDelimiter, AwaitBody
<1>2. ~poisoned
  BY DEF BufferInv, PoisonedHoldsNothing, AwaitDelimiter, AwaitBody, Accepted, Found
<1>3. TypeOK'
  BY <1>1 DEF BufferInv, TypeOK, env
<1>4. BufferIsUnconsumedStream'
  BY <1>1 DEF BufferInv, BufferIsUnconsumedStream, env
<1> QED
  BY <1>1, <1>2, <1>3, <1>4 DEF BufferInv, PoisonedHoldsNothing

(* The ways an iteration fails, each with a framing reason. *)
FailStep ==
  \/ FailUndelimited
  \/ \E d \in 0 .. Len(buffer) :
       \/ FailOversizeBlock(d)
       \/ FailHeaderBlock(d)
       \/ FailContentLength(d)
       \/ FailMessageTooLarge(d)
  \/ End

LEMMA FailStepFails ==
  ASSUME FailStep
  PROVE  \E r \in Reasons : Fail(r)
<1>1. CASE FailUndelimited
  BY <1>1 DEF FailUndelimited, Reasons
<1>2. ASSUME NEW d \in 0 .. Len(buffer), FailOversizeBlock(d)
      PROVE  \E r \in Reasons : Fail(r)
  BY <1>2 DEF FailOversizeBlock, Reasons
<1>3. ASSUME NEW d \in 0 .. Len(buffer), FailHeaderBlock(d)
      PROVE  \E r \in Reasons : Fail(r)
  BY <1>3, FaultsHaveReasons DEF FailHeaderBlock
<1>4. ASSUME NEW d \in 0 .. Len(buffer), FailContentLength(d)
      PROVE  \E r \in Reasons : Fail(r)
  BY <1>4, FaultsHaveReasons DEF FailContentLength
<1>5. ASSUME NEW d \in 0 .. Len(buffer), FailMessageTooLarge(d)
      PROVE  \E r \in Reasons : Fail(r)
  BY <1>5 DEF FailMessageTooLarge, Reasons
<1>6. CASE End
  BY <1>6 DEF End, Reasons
<1> QED BY <1>1, <1>2, <1>3, <1>4, <1>5, <1>6 DEF FailStep

(* TypeOK and the byte-conservation invariant BufferIsUnconsumedStream hold *)
(* in every reachable state, for every stream, chunking and limit.          *)
THEOREM DecoderConservesBytes ==
  Spec => [](TypeOK /\ BufferIsUnconsumedStream /\ PoisonedHoldsNothing)
<1>1. Init => BufferInv
  <2> SUFFICES ASSUME Init PROVE BufferInv
    OBVIOUS
  <2>1. stream \in Seq(Byte)
    BY DecoderAssumption DEF Init
  <2>2. SubSeq(stream, 0 + 1, 0) = <<>>
    BY <2>1, Window, EmptySeq
  <2>3. events \in Seq(Event) /\ Len(buffer) = 0 /\ Len(stream) \in Nat
    BY <2>1, EmptySeq DEF Init
  <2>4. 0 \in 0 .. Len(stream) /\ 0 \in 0 .. MaxResets /\ 0 \in 0 .. Len(buffer) /\ 0 \in 0 .. 0
    BY <2>3, DecoderAssumption
  <2>5. TypeOK
    BY <2>3, <2>4 DEF Init, TypeOK
  <2> QED
    BY <2>2, <2>5 DEF Init, BufferInv, BufferIsUnconsumedStream, PoisonedHoldsNothing
<1>2. BufferInv /\ [Next]_vars => BufferInv'
  <2> SUFFICES ASSUME BufferInv, [Next]_vars PROVE BufferInv'
    OBVIOUS
  <2>1. ASSUME NEW n \in 1 .. MaxChunk, Push(n) PROVE BufferInv'
    BY <2>1, PushKeepsBufferInv
  <2>2. CASE AwaitDelimiter \/ \E d \in 0 .. Len(buffer) : AwaitBody(d)
    BY <2>2, AwaitKeepsBufferInv
  <2>3. CASE FailStep
    BY <2>3, FailStepFails, FailKeepsBufferInv
  <2>4. ASSUME NEW d \in 0 .. Len(buffer), Emit(d) PROVE BufferInv'
    <3>1. d \in Nat
      BY BufferFacts
    <3> QED BY <2>4, <3>1, EmitKeepsBufferInv
  <2>5. CASE Reset
    BY <2>5, ResetKeepsBufferInv
  <2>6. CASE UNCHANGED vars
    BY <2>6 DEF vars, BufferInv, TypeOK, BufferIsUnconsumedStream, PoisonedHoldsNothing
  <2> QED
    BY <2>1, <2>2, <2>3, <2>4, <2>5, <2>6 DEF Next, Drain, FailStep
<1> QED BY <1>1, <1>2, PTL DEF Spec, BufferInv

-----------------------------------------------------------------------------
(* The scan.  SearchFrom leaves out only offsets that hold no delimiter, so *)
(* indexOf from there finds what indexOf from 0 would find.                 *)

DecoderInv ==
  /\ BufferInv
  /\ CursorSkipsNoDelimiter
  /\ IdleHoldsNoCompleteMessage
  /\ IdleBufferIsBounded

LEMMA SearchFromIsNat ==
  ASSUME BufferInv
  PROVE  SearchFrom \in Nat /\ searchOffset \in Nat /\ searchOffset <= Len(buffer)
BY BufferFacts DEF SearchFrom, DelimiterLength, BufferInv, TypeOK

LEMMA ScanFindsFirst ==
  ASSUME BufferInv, CursorSkipsNoDelimiter,
         NEW d \in Nat, FoundDelimiter(buffer, SearchFrom, d)
  PROVE  FoundDelimiter(buffer, 0, d)
BY SearchFromIsNat DEF FoundDelimiter, CursorSkipsNoDelimiter

LEMMA ScanFindsNone ==
  ASSUME BufferInv, CursorSkipsNoDelimiter, NoDelimiter(buffer, SearchFrom)
  PROVE  \A i \in Nat : ~DelimiterAt(buffer, i)
<1>1. SUFFICES ASSUME NEW i \in Nat, DelimiterAt(buffer, i) PROVE FALSE
  OBVIOUS
<1>2. i <= Len(buffer) /\ Len(buffer) \in Nat
  BY <1>1, BufferFacts DEF DelimiterAt, DelimiterLength
<1> QED
  BY <1>1, <1>2, SearchFromIsNat DEF NoDelimiter, CursorSkipsNoDelimiter

(* There is one first delimiter. *)
LEMMA FirstIsUnique ==
  ASSUME NEW d \in Nat, NEW e \in Nat,
         FoundDelimiter(buffer, 0, d), FoundDelimiter(buffer, 0, e)
  PROVE  d = e
BY DEF FoundDelimiter

(* An empty buffer, wherever it comes from, satisfies what idle promises. *)
LEMMA EmptyBufferIsDone ==
  ASSUME buffer' = <<>>, searchOffset' = 0
  PROVE  /\ CursorSkipsNoDelimiter'
         /\ IdleHoldsNoCompleteMessage'
         /\ IdleBufferIsBounded'
<1>1. Len(buffer') = 0 /\ MaxHeaderBlock \in Nat
  BY WireAssumption
<1>2. \A i \in Int : ~DelimiterAt(buffer', i)
  BY <1>1 DEF DelimiterAt, DelimiterLength
<1>3. CursorSkipsNoDelimiter'
  BY <1>2 DEF CursorSkipsNoDelimiter, SearchFrom, DelimiterLength
<1>4. \A d \in 0 .. Len(buffer') : ~FoundDelimiter(buffer', 0, d)
  BY <1>1, <1>2 DEF FoundDelimiter
<1> QED
  BY <1>1, <1>3, <1>4 DEF IdleHoldsNoCompleteMessage, IdleBufferIsBounded

LEMMA PushKeepsDecoderInv ==
  ASSUME DecoderInv, NEW n \in 1 .. MaxChunk, Push(n)
  PROVE  DecoderInv'
<1>1. BufferInv /\ BufferInv'
  BY PushKeepsBufferInv DEF DecoderInv
<1>2. CASE poisoned
  BY <1>1, <1>2, EmptyBufferIsDone DEF DecoderInv, BufferInv, PoisonedHoldsNothing, Push
<1>3. CASE ~poisoned
  <2>1. /\ stream \in Seq(Byte) /\ Len(stream) \in Nat
        /\ received \in Nat /\ base \in Nat /\ base <= received
        /\ received \in base .. Len(stream)
        /\ buffer = SubSeq(stream, base + 1, received)
        /\ Len(buffer) = received - base
    BY <1>1, BufferFacts
  <2>2. n \in Nat /\ received' = received + n /\ received + n <= Len(stream)
    BY DecoderAssumption DEF Push
  <2>3. /\ buffer' = SubSeq(stream, base + 1, received + n)
        /\ received + n \in base .. Len(stream)
    <3>1. buffer' = SubSeq(stream', base' + 1, received')
      BY <1>1 DEF BufferInv, BufferIsUnconsumedStream
    <3> QED BY <3>1, <2>1, <2>2, <1>3 DEF Push
  <2>4. /\ SearchFrom' = SearchFrom /\ SearchFrom \in Nat
        /\ SearchFrom + 3 <= Len(buffer) \/ SearchFrom' = 0
    BY <1>1, SearchFromIsNat DEF Push, SearchFrom, DelimiterLength
  <2>5. ASSUME NEW i \in Nat, i + DelimiterLength <= Len(buffer), DelimiterAt(buffer', i)
        PROVE  DelimiterAt(buffer, i)
    BY <2>1, <2>3, <2>5, DelimiterInWindow DEF DelimiterLength
  <2>6. CursorSkipsNoDelimiter'
    BY <2>1, <2>4, <2>5 DEF DecoderInv, CursorSkipsNoDelimiter, DelimiterLength
  <2>7. pc' = "drain"
    BY <1>3 DEF Push
  <2> QED
    BY <1>1, <2>6, <2>7 DEF DecoderInv, IdleHoldsNoCompleteMessage, IdleBufferIsBounded
<1> QED BY <1>2, <1>3

LEMMA AwaitDelimiterKeepsDecoderInv ==
  ASSUME DecoderInv, AwaitDelimiter
  PROVE  DecoderInv'
<1>1. BufferInv /\ BufferInv'
  BY AwaitKeepsBufferInv DEF DecoderInv
<1>2. \A i \in Nat : ~DelimiterAt(buffer, i)
  BY <1>1, ScanFindsNone DEF DecoderInv, AwaitDelimiter
<1>3. buffer' = buffer /\ Len(buffer) \in Nat /\ Len(buffer) <= MaxHeaderBlock
  BY <1>1, BufferFacts DEF AwaitDelimiter
<1>4. CursorSkipsNoDelimiter'
  BY <1>1, <1>2, <1>3, SearchFromIsNat DEF CursorSkipsNoDelimiter
<1>5. IdleHoldsNoCompleteMessage'
  BY <1>2, <1>3 DEF IdleHoldsNoCompleteMessage, FoundDelimiter
<1> QED BY <1>1, <1>3, <1>4, <1>5 DEF DecoderInv, IdleBufferIsBounded

LEMMA AwaitBodyKeepsDecoderInv ==
  ASSUME DecoderInv, NEW d \in Nat, d <= Len(buffer), AwaitBody(d)
  PROVE  DecoderInv'
<1>1. BufferInv /\ BufferInv'
  <2>1. d \in 0 .. Len(buffer)
    BY BufferFacts DEF DecoderInv
  <2> QED BY <2>1, AwaitKeepsBufferInv DEF DecoderInv
<1>2. FoundDelimiter(buffer, 0, d)
  BY <1>1, ScanFindsFirst DEF DecoderInv, AwaitBody, Accepted, Found
<1>3. buffer' = buffer /\ searchOffset' = d /\ Len(buffer) \in Nat
  BY <1>1, BufferFacts DEF AwaitBody
<1>4. /\ d <= MaxHeaderBlock
      /\ FrameFault(Block(d)) = NoFault
      /\ TotalBytes(Block(d)) > Len(buffer)
      /\ TotalBytes(Block(d)) <= MaxMessage
      /\ TotalBytes(Block(d)) \in Nat
      /\ MaxMessage \in Nat
  BY <1>1, <1>3, AcceptedTotal, WireAssumption DEF AwaitBody, Accepted, FrameFault
<1>5. CursorSkipsNoDelimiter'
  BY <1>2, <1>3 DEF CursorSkipsNoDelimiter, SearchFrom, FoundDelimiter, DelimiterLength
<1>6. IdleHoldsNoCompleteMessage'
  <2>1. SUFFICES ASSUME NEW e \in 0 .. Len(buffer), FoundDelimiter(buffer, 0, e)
                 PROVE  /\ e <= MaxHeaderBlock
                        /\ FrameFault(Block(e)) = NoFault
                        /\ TotalBytes(Block(e)) > Len(buffer)
    BY <1>3 DEF IdleHoldsNoCompleteMessage, Block
  <2>2. e = d
    BY <1>2, <1>3, <2>1, FirstIsUnique
  <2> QED BY <1>4, <2>2
<1>7. IdleBufferIsBounded'
  BY <1>3, <1>4 DEF IdleBufferIsBounded
<1> QED BY <1>1, <1>5, <1>6, <1>7 DEF DecoderInv

LEMMA EmitKeepsDecoderInv ==
  ASSUME DecoderInv, NEW d \in Nat, Emit(d)
  PROVE  DecoderInv'
<1>1. BufferInv /\ BufferInv'
  BY EmitKeepsBufferInv DEF DecoderInv
<1>2. searchOffset' = 0
  BY DEF Emit
<1>3. CASE pc' = "idle"
  <2>1. /\ TotalBytes(Block(d)) = Len(buffer)
        /\ buffer' = SubSeq(buffer, TotalBytes(Block(d)) + 1, Len(buffer))
    BY <1>3 DEF Emit
  <2>2. buffer' = <<>>
    BY <1>1, <2>1, BufferFacts, Window, EmptySeq
  <2> QED BY <1>1, <1>2, <2>2, EmptyBufferIsDone DEF DecoderInv
<1>4. CASE pc' # "idle"
  BY <1>1, <1>2, <1>4
  DEF DecoderInv, IdleHoldsNoCompleteMessage, IdleBufferIsBounded,
      CursorSkipsNoDelimiter, SearchFrom, DelimiterLength
<1> QED BY <1>3, <1>4

(* The cursor never skips a delimiter, an idle decoder holds less than one   *)
(* message and its buffer is bounded by the limits: for every stream, every  *)
(* chunking and every value of the limits.                                   *)
THEOREM DecoderScansEverything ==
  Spec => [](CursorSkipsNoDelimiter /\ IdleHoldsNoCompleteMessage /\ IdleBufferIsBounded)
<1>1. Init => CursorSkipsNoDelimiter /\ IdleHoldsNoCompleteMessage /\ IdleBufferIsBounded
  BY WireAssumption
  DEF Init, CursorSkipsNoDelimiter, IdleHoldsNoCompleteMessage, IdleBufferIsBounded,
      SearchFrom, FoundDelimiter, DelimiterAt, DelimiterLength
<1>2. BufferInv /\ BufferInv' /\ DecoderInv /\ [Next]_vars => DecoderInv'
  <2> SUFFICES ASSUME BufferInv, BufferInv', DecoderInv, [Next]_vars PROVE DecoderInv'
    OBVIOUS
  <2>1. ASSUME NEW n \in 1 .. MaxChunk, Push(n) PROVE DecoderInv'
    BY <2>1, PushKeepsDecoderInv
  <2>2. CASE AwaitDelimiter
    BY <2>2, AwaitDelimiterKeepsDecoderInv
  <2>3. CASE FailStep
    BY <2>3, FailStepFails, EmptyBufferIsDone DEF Fail, DecoderInv
  <2>4. ASSUME NEW d \in 0 .. Len(buffer), AwaitBody(d) PROVE DecoderInv'
    BY <2>4, BufferFacts, AwaitBodyKeepsDecoderInv
  <2>5. ASSUME NEW d \in 0 .. Len(buffer), Emit(d) PROVE DecoderInv'
    BY <2>5, BufferFacts, EmitKeepsDecoderInv
  <2>6. CASE Reset
    BY <2>6, EmptyBufferIsDone DEF Reset, DecoderInv
  <2>7. CASE UNCHANGED vars
    BY <2>7
    DEF vars, DecoderInv, CursorSkipsNoDelimiter, IdleHoldsNoCompleteMessage,
        IdleBufferIsBounded, SearchFrom, Block
  <2> QED
    BY <2>1, <2>2, <2>3, <2>4, <2>5, <2>6, <2>7 DEF Next, Drain, FailStep
<1>3. Spec => []BufferInv
  BY DecoderConservesBytes, PTL DEF BufferInv
<1> QED BY <1>1, <1>2, <1>3, PTL DEF Spec, DecoderInv

\* With the types, what a run checks of the scan: what is kept between two
\* pushes is bounded and the cursor never passes a delimiter still needed.
THEOREM ScanStaysSound == Spec => []ScanIsSound
BY DecoderConservesBytes, DecoderScansEverything, PTL DEF ScanIsSound

-----------------------------------------------------------------------------
(* SltpDecoder implements SltpFraming: what the scan finds in the buffer is *)
(* what the framing promise says of the stream.                             *)

LEMMA FoundIsHeaderEnd ==
  ASSUME BufferInv, NEW d \in Nat
  PROVE  /\ FoundDelimiter(buffer, 0, d) <=> Framing!HeaderEnd(d)
         /\ Framing!HeaderEnd(d) =>
              /\ Block(d) = Framing!HeaderBlock(d)
              /\ d \in 0 .. Len(stream)
<1>1. /\ stream \in Seq(Byte) /\ Len(stream) \in Nat
      /\ received \in Nat /\ base \in Nat /\ base <= received
      /\ received \in base .. Len(stream)
      /\ buffer = SubSeq(stream, base + 1, received)
  BY BufferFacts
<1>2. \A i \in Nat : DelimiterAt(buffer, i)
        <=> DelimiterAt(stream, base + i) /\ base + i + DelimiterLength <= received
  BY <1>1, DelimiterInWindow
<1>3. FoundDelimiter(buffer, 0, d) <=> Framing!HeaderEnd(d)
  <2>1. \A i \in 0 .. d - 1 : /\ i \in Nat
                              /\ base + d + DelimiterLength <= received
                                   => base + i + DelimiterLength <= received
    BY <1>1 DEF DelimiterLength
  <2>2. DelimiterAt(buffer, d)
          <=> DelimiterAt(stream, base + d) /\ base + d + DelimiterLength <= received
    BY <1>2
  <2>3. base + d + DelimiterLength <= received =>
          \A i \in 0 .. d - 1 : DelimiterAt(buffer, i) <=> DelimiterAt(stream, base + i)
    BY <1>2, <2>1
  <2>4. d >= 0
    OBVIOUS
  <2> HIDE <1>1, <1>2
  <2>5. QED
    BY <2>2, <2>3, <2>4 DEF FoundDelimiter, Framing!HeaderEnd
<1>4. ASSUME Framing!HeaderEnd(d)
      PROVE  Block(d) = Framing!HeaderBlock(d) /\ d \in 0 .. Len(stream)
  <2>1. d \in 0 .. received - base
    BY <1>1, <1>4 DEF Framing!HeaderEnd, DelimiterLength
  <2>2. SubSeq(buffer, 1, d) = SubSeq(stream, base + 1, base + d)
    BY <1>1, <2>1, WindowPrefix
  <2> QED BY <1>1, <2>1, <2>2 DEF Block, Framing!HeaderBlock
<1> QED BY <1>3, <1>4

(* A block found by the loop is the header block of the frame at base. *)
LEMMA FoundInLoop ==
  ASSUME DecoderInv, NEW d \in Nat, Found(d)
  PROVE  /\ Framing!HeaderEnd(d)
         /\ Block(d) = Framing!HeaderBlock(d)
         /\ d \in 0 .. Len(stream)
         /\ ~poisoned
BY ScanFindsFirst, FoundIsHeaderEnd DEF DecoderInv, BufferInv, PoisonedHoldsNothing, Found

LEMMA FailIsRefuse ==
  ASSUME NEW r, Fail(r), ~poisoned
  PROVE  Framing!Refuse(r)
BY DEF Fail, Framing!Refuse, env

(* Both ways to refuse an oversized header block need a block that is within *)
(* three bytes of the limit at least.                                        *)
LEMMA OversizeIsRefuseOversize ==
  ASSUME DecoderInv, FailUndelimited \/ \E d \in Nat : FailOversizeBlock(d)
  PROVE  Framing!RefuseOversize
<1>1. /\ BufferInv /\ MaxHeaderBlock \in Nat
      /\ stream \in Seq(Byte) /\ received \in base .. Len(stream) /\ base \in Nat
      /\ received \in Nat /\ Len(buffer) = received - base
      /\ buffer = SubSeq(stream, base + 1, received)
  BY BufferFacts, WireAssumption DEF DecoderInv
<1>2. ~poisoned /\ Fail("headerBlockTooLarge")
  BY DEF FailUndelimited, FailOversizeBlock, Found, DecoderInv, BufferInv, PoisonedHoldsNothing
<1>3. /\ Len(buffer) > MaxHeaderBlock
      /\ \A i \in 0 .. MaxHeaderBlock : ~DelimiterAt(buffer, i)
  <2>1. CASE FailUndelimited
    BY <1>1, <2>1, ScanFindsNone DEF FailUndelimited, DecoderInv
  <2>2. ASSUME NEW d \in Nat, FailOversizeBlock(d)
        PROVE  /\ Len(buffer) > MaxHeaderBlock
               /\ \A i \in 0 .. MaxHeaderBlock : ~DelimiterAt(buffer, i)
    <3>1. FoundDelimiter(buffer, 0, d) /\ d > MaxHeaderBlock
      BY <1>1, <2>2, ScanFindsFirst DEF FailOversizeBlock, Found, DecoderInv
    <3>2. \A i \in 0 .. MaxHeaderBlock : ~DelimiterAt(buffer, i)
      BY <1>1, <3>1 DEF FoundDelimiter
    <3>3. d + DelimiterLength <= Len(buffer)
      BY <3>1 DEF FoundDelimiter, DelimiterAt
    <3> QED BY <1>1, <3>1, <3>2, <3>3 DEF DelimiterLength
  <2> QED BY <2>1, <2>2
<1>4. ASSUME NEW i \in 0 .. MaxHeaderBlock - DelimiterLength + 1
      PROVE  ~DelimiterAt(stream, base + i)
  <2>1. i \in Nat /\ i \in 0 .. MaxHeaderBlock /\ base + i + DelimiterLength <= received
    BY <1>1, <1>3 DEF DelimiterLength
  <2> QED BY <1>1, <1>3, <2>1, DelimiterInWindow
<1> QED BY <1>1, <1>2, <1>3, <1>4, FailIsRefuse DEF Framing!RefuseOversize

LEMMA BlockFaultIsRefuseFault ==
  ASSUME DecoderInv, NEW d \in Nat,
         FailHeaderBlock(d) \/ FailContentLength(d) \/ FailMessageTooLarge(d)
  PROVE  Framing!RefuseFault(d) /\ d \in 0 .. Len(stream)
<1>1. Found(d) /\ d <= MaxHeaderBlock
  BY DEF FailHeaderBlock, FailContentLength, FailMessageTooLarge, Accepted
<1>2. /\ Framing!HeaderEnd(d) /\ Block(d) = Framing!HeaderBlock(d)
      /\ d \in 0 .. Len(stream) /\ ~poisoned
  BY <1>1, FoundInLoop
<1>3. Fail(FrameFault(Block(d))) /\ FrameFault(Block(d)) # NoFault
  <2>1. CASE FailHeaderBlock(d)
    BY <2>1 DEF FailHeaderBlock, FrameFault
  <2>2. CASE FailContentLength(d)
    BY <2>2 DEF FailContentLength, FrameFault
  <2>3. CASE FailMessageTooLarge(d)
    BY <2>3 DEF FailMessageTooLarge, Accepted, FrameFault, NoFault
  <2> QED BY <2>1, <2>2, <2>3
<1>4. Framing!Refuse(FrameFault(Block(d)))
  BY <1>2, <1>3, FailIsRefuse
<1> QED BY <1>1, <1>2, <1>3, <1>4 DEF Framing!RefuseFault

LEMMA EmitIsDeliver ==
  ASSUME DecoderInv, NEW d \in Nat, Emit(d)
  PROVE  Framing!Deliver(d) /\ d \in 0 .. Len(stream)
<1>1. Accepted(d)
  BY DEF Emit
<1>2. /\ Framing!HeaderEnd(d) /\ Block(d) = Framing!HeaderBlock(d)
      /\ d \in 0 .. Len(stream) /\ ~poisoned
  BY <1>1, FoundInLoop DEF Accepted
<1>3. /\ base \in Nat /\ received \in Nat /\ Len(buffer) = received - base
      /\ TotalBytes(Block(d)) \in Nat /\ MaxMessage \in Nat
  BY <1>1, BufferFacts, AcceptedTotal, WireAssumption DEF DecoderInv
<1>4. /\ TotalBytes(Block(d)) <= MaxMessage
      /\ base + TotalBytes(Block(d)) <= received
  BY <1>3 DEF Emit
<1>5. d <= MaxHeaderBlock /\ FrameFault(Block(d)) = NoFault
  BY <1>1, <1>3, <1>4 DEF Accepted, FrameFault
<1>6. /\ base' = base + TotalBytes(Block(d))
      /\ events' = Append(events, [kind |-> "message", at |-> base,
                                   total |-> TotalBytes(Block(d))])
      /\ UNCHANGED <<stream, received, poisoned>>
  BY DEF Emit, env
<1> QED BY <1>2, <1>4, <1>5, <1>6 DEF Framing!Deliver

LEMMA EndIsRefuseTruncated ==
  ASSUME DecoderInv, End
  PROVE  Framing!RefuseTruncated
<1>1. /\ BufferInv /\ base \in Nat /\ received \in Nat /\ Len(buffer) = received - base
      /\ Len(buffer) \in Nat
  BY BufferFacts DEF DecoderInv
<1>2. Framing!Refuse("truncatedMessage") /\ received > base
  BY <1>1, FailIsRefuse DEF End
<1>3. Framing!Incomplete
  <2>1. SUFFICES ASSUME NEW d \in 0 .. Len(stream), Framing!HeaderEnd(d)
                 PROVE  /\ d <= MaxHeaderBlock
                        /\ FrameFault(Framing!HeaderBlock(d)) = NoFault
                        /\ base + TotalBytes(Framing!HeaderBlock(d)) > received
    BY DEF Framing!Incomplete
  <2>2. /\ FoundDelimiter(buffer, 0, d) /\ Block(d) = Framing!HeaderBlock(d)
        /\ d \in Nat
    BY <1>1, <2>1, FoundIsHeaderEnd
  <2>3. d \in 0 .. Len(buffer)
    BY <1>1, <2>2 DEF FoundDelimiter, DelimiterAt, DelimiterLength
  <2>4. /\ d <= MaxHeaderBlock
        /\ FrameFault(Block(d)) = NoFault
        /\ TotalBytes(Block(d)) > Len(buffer)
    BY <2>2, <2>3 DEF DecoderInv, IdleHoldsNoCompleteMessage, End
  <2>5. TotalBytes(Block(d)) \in Nat
    <3>1. SubSeq(buffer, 0 + 1, d) \in Seq(Byte) /\ Len(SubSeq(buffer, 0 + 1, d)) = d - 0
      BY <1>1, <2>2, <2>3, BufferFacts, Window
    <3>2. LengthFault(Block(d)) = NoFault
      BY <2>4 DEF FrameFault
    <3> QED
      BY <2>2, <3>1, <3>2, AcceptedLengthIsNat DEF Block, TotalBytes, DelimiterLength
  <2> QED BY <1>1, <2>2, <2>4, <2>5
<1> QED BY <1>2, <1>3 DEF Framing!RefuseTruncated

(* Every step of the decoder is a step of the framing promise or changes     *)
(* nothing it talks about: the events are the frames of the stream.          *)
THEOREM DecoderImplementsFraming == Spec => ImplementsFraming
<1>1. Init => Framing!Init
  BY DEF Init, Framing!Init
<1>2. DecoderInv /\ [Next]_vars => [Framing!Next]_(Framing!fvars)
  <2> SUFFICES ASSUME DecoderInv, [Next]_vars PROVE [Framing!Next]_(Framing!fvars)
    OBVIOUS
  <2>1. ASSUME NEW n \in 1 .. MaxChunk, Push(n) PROVE Framing!Arrive
    <3>1. /\ n \in Nat /\ n >= 1 /\ received \in Nat /\ Len(stream) \in Nat
          /\ received + n <= Len(stream) /\ received' = received + n
      BY <2>1, BufferFacts, DecoderAssumption DEF Push, DecoderInv
    <3>2. received' \in received + 1 .. Len(stream)
      BY <3>1
    <3>3. /\ base' = IF poisoned THEN received' ELSE base
          /\ UNCHANGED <<stream, poisoned, events>>
      BY <2>1, <3>1 DEF Push
    <3> QED BY <3>2, <3>3 DEF Framing!Arrive
  <2>2. CASE AwaitDelimiter
    BY <2>2 DEF AwaitDelimiter, Framing!fvars, env
  <2>3. ASSUME NEW d \in 0 .. Len(buffer), AwaitBody(d) PROVE UNCHANGED Framing!fvars
    BY <2>3 DEF AwaitBody, Framing!fvars, env
  <2>4. CASE FailUndelimited \/ \E d \in 0 .. Len(buffer) : FailOversizeBlock(d)
    BY <2>4, BufferFacts, OversizeIsRefuseOversize DEF Framing!Next, DecoderInv
  <2>5. ASSUME NEW d \in 0 .. Len(buffer),
               FailHeaderBlock(d) \/ FailContentLength(d) \/ FailMessageTooLarge(d)
        PROVE  Framing!Next
    BY <2>5, BufferFacts, BlockFaultIsRefuseFault DEF Framing!Next, DecoderInv
  <2>6. ASSUME NEW d \in 0 .. Len(buffer), Emit(d) PROVE Framing!Next
    BY <2>6, BufferFacts, EmitIsDeliver DEF Framing!Next, DecoderInv
  <2>7. CASE End
    BY <2>7, EndIsRefuseTruncated DEF Framing!Next
  <2>8. CASE Reset
    BY <2>8 DEF Reset, Framing!Next, Framing!Restart, env
  <2>9. CASE UNCHANGED vars
    BY <2>9 DEF vars, Framing!fvars
  <2> QED
    BY <2>1, <2>2, <2>3, <2>4, <2>5, <2>6, <2>7, <2>8, <2>9
    DEF Next, Drain, Framing!Next
<1>3. Spec => []DecoderInv
  BY DecoderConservesBytes, DecoderScansEverything, PTL DEF DecoderInv, BufferInv
<1> QED BY <1>1, <1>2, <1>3, PTL DEF Spec, ImplementsFraming, Framing!Spec
=============================================================================
