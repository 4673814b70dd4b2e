# SocketLens TCP in TLA+

SocketLens TCP tests TCP services with SLTP, a text protocol framed by a header
block and `Content-Length`. A control server keeps *sessions*; each session has
*rules* and a *mock endpoint*, a TCP listener that answers requests by the first
rule that matches. A client (the command line, or a browser through a bridge)
creates sessions and rules over one control connection and asks the server to run
*scenarios* against an endpoint.

The modules here are TLA+ models of that code, TLC configurations that check them
on small instances, and proofs that TLAPS checks. Paths below are relative to the
repository root.

## 1. Inventory

| Component | State | Operations | Modelled in |
|---|---|---|---|
| Incremental decoder, `packages/protocol/src/decoder.ts` | buffer, search cursor, poisoned | `push`, `drain`, `end`, `reset` | `SltpWire`, `SltpFraming`, `SltpDecoder` |
| Encoder, `packages/protocol/src/encoder.ts`, `headers.ts` | none | encode a request, a response | `SltpEncoder`, `SltpLink` |
| Rule matching, `packages/core/src/matching.ts` | none | order, match, equivalence | `RuleMatching` |
| Rules of a session, `packages/core/src/session-store.ts` | rules, next sequence number, rule counter | add, update, delete, record a hit | `SessionRules` |
| Session store, `session-store.ts` | sessions, their endpoints and results | create, close, close all, run a test, change rules | `SessionStore` |
| Rate limiter, `apps/server/src/server.ts` | tokens, last refill | `consumeToken` | `RateLimiter` |
| Control server, `server.ts`, `handlers.ts` | connections, requests in flight, shutting down | accept, receive, dispatch, write, close | `ControlServer` over `SessionStore` |
| SLTP client, `packages/core/src/client.ts` | socket, pending requests, timers | connect, send, sendRaw, receive, close | `SltpClient` |
| Mock endpoint, `packages/core/src/mock-endpoint.ts` | sockets, a chain of answers for each connection | receive, respond, delay, write in pieces, cut, end, close | `MockEndpoint`; rule choice in `SessionRules` |
| Test runner and assertions, `test-runner.ts`, `assertions.ts` | one exchange: chunks written, responses read, settled | run a scenario, judge it | `TestRunner`, `Scenarios` |
| Scenario validation, `validation.ts`, `models.ts` | none | what one scenario may ask for | `Scenarios`, the rules across fields |
| Bridge relay, `apps/bridge/src/relay.ts` | client, connection attempt, watchers, sent views | connect, disconnect, send, sendRaw, close | `Relay` |
| Bridge HTTP front, `http.ts`, `index.ts` | requests being served | routes, shutdown | `Bridge` over `Relay` |
| Event hub, `apps/bridge/src/events.ts` | subscribers, recent events, keep-alive timer | subscribe, publish, replay, close | `EventHub` |
| Browser interface, `apps/gui/src/hooks/useBridge.ts` and the panels that call it | what is shown: status, sessions, rules, results, timeline; busy | every operation of the hook | `Interface` over `EventHub` |
| Command line, `apps/cli/src` | the remembered session in a file; a prompt | every command, the prompt | `StateFile`, `Cli` |
| Request validation, body match modes, registries, logger, rendering, option parsing, examples, benchmarks, scripts | - | pure functions, text and pixels | not modelled |

How they interact. A socket delivers chunks to a decoder, and each decoded request
starts a handler of its own; handlers run concurrently and interleave where they
await: the start and stop of a mock endpoint's listener, a scenario, a write. They
share the session store. Mock endpoints read the rules of their session at the
moment a request is answered and write hits back. Shutdown, the client's timers
and the peers' resets may come between any two of these steps. Nothing is
persisted by the server, so there is no recovery; JavaScript runs each
step to completion, so there is no data race, and every hazard is a state that is
read before an await and used after it.

What makes the components correct:

- *decoder*: however the stream is cut into chunks, the same messages and the same
  fault come out; nothing is lost, the buffer is bounded, good blocks are not refused;
- *rules*: two enabled rules of one priority never match equivalently, an identifier
  or name is never used twice, the order in which rules are tried is total and stable;
- *store*: a session is announced when its endpoint listens and closed when it has
  stopped, calls that wait together do not disturb each other, closed is final;
- *rate limiter*: no window admits more than burst and refill, `Retry-After` is exact;
- *server*: a close waits for what is in flight, shutdown ends and leaves nothing;
- *client*: each call settles once, with its own response; *relay*: one connection,
  the view of a request belongs to it; *hub*: each tab sees the history in order;
- *interface*: what is shown is of the selected session, a change made from what was left of
  another meets no rule whose identifier the server made up, no failure leaves the tab busy;
- *endpoint*: responses leave in the order of requests; *test runner*: one verdict,
  which agrees with what was exchanged;
- *command line*: a remembered session is used on its own server only, exit codes say what
  was done, commands end.

`PROJECT.json` lists the hazards line by line; a note says what a property leaves open.

## 2. Modules and the code they follow

**`SltpWire`** - bytes, header blocks and the verdict on them. A byte is `CR`, `LF`
or one unit of text: a body byte, or a whole start line or header line with what the
parser would find in it (a version, a badly formed name, an announced number of
bytes...). What the code tells apart is told apart; spelling is not modelled. The
checks run in the code's order, so the reported reason is the code's.

**`SltpFraming`** - the abstract specification of framing: a stream, a position, the
events reported so far. One step reads one whole message or reports one fault.

**`SltpDecoder`** - `decoder.ts`: `Push`, then one action for each way an iteration of
`drain()` ends (`AwaitDelimiter`, five failures, `AwaitBody`, `Emit`), `End`, `Reset`.
`buffer`, `searchOffset` and `poisoned` are the fields of the class; `stream`,
`received` and `base` say where the buffer lies in what the peer sent.
`SltpDecoder` implements `SltpFraming` (`ImplementsFraming`).

**`SltpEncoder`, `SltpLink`** - what `encodeRequest` and `encodeResponse` refuse, skip, add and
write, as units of `SltpWire`. `SltpLink` puts the encoder at the other end of the decoder's
stream.

**`RuleMatching`, `SessionRules`** - the functions of `matching.ts`, and the rule
operations of the store with their refusals in order. The body matcher is the constant
operator `BodyMatches`: what holds, holds for any. Rules are an array as in the code,
because `updateRule` and `recordRuleHit` replace by index.

**`SessionStore`** - a *call* is one use of the store. `CreateSession` counts, takes a
number and waits; `EndpointListens` or `EndpointFails` resumes it. `CloseSession` and
`CloseAll` put the endpoint to `stopping`; `EndpointStopped` resumes everyone who waits
for it. `RunTest` waits for `TestFinished`, which stores the result. `completed` is a
history variable.

**`RateLimiter`** - the token bucket in integers: tokens are counted in
thousandths, so that every millisecond refills `RefillPerSecond` of them; the rounding of
JavaScript's numbers is left out. The clock may go forwards, and back, as `Date.now()` may.

**`ControlServer`** - extends `SessionStore` by connections, requests and the phase of
shutdown. A request either needs no wait (`ReceiveSimple`, `ReceiveRefused`) or is a
call of the store (`ReceiveCall`); `HandlersResume` is any resumption in the store,
after which every handler that got its answer writes it. `WriteDone` is the write's
callback with the `finally` block of `dispatch`. `Close`, `Sweep`, `DestroySockets` and
`ListenerClosed` are the stretches of `close()` between its awaits. Arrivals are whole
messages: chunks are the decoder's matter, and that a fault is fatal and the last thing
read is what `SltpDecoder` establishes. `listen()` and a second `close()` are left out.

**`SltpClient`** - one connection of a client and the calls of `send()`: `Send` registers
the request and its timer, `WriteDone` resumes it after the write's callback, and only then
does the caller hear of its promise; a promise rejected before that ends the process
(`alive`), as Node.js does when nothing handles a rejection. `Receive` is an answer to a
request in flight; one to any other request changes nothing and is no step. The socket
ends from either side, is destroyed, and emits `close` when its writes have called back.
Left out: `connect()`, since its users connect a client once, and the raw observers.

**`MockEndpoint`** - connections with their chain of answers. `Receive` is the data handler:
it queues a task for each request or fault. `Begin` is `respond()` up to its first wait,
where the rule in force is read and, for most answers, the hit recorded; `DelayEnds`,
`WriteDone` and `GapEnds` are its resumptions. `EditRule` is the store replacing the rule
between them. Bytes are counted in units of half a message, which is what splits,
`disconnectAfterBytes` and a connection that dies half-way can tell apart; a task knows where
the pieces of its answer end and how much of it was written.

**`Scenarios`** - the contradictions `validateExpectation` and `validateScenario` refuse, and
`evaluateExchange`. A field that is compared holds the edition of the rule whose value it names.

**`TestRunner`** - `performExchange` against that endpoint (or a stranger that writes
anything): connecting, the loop over planned chunks with its pauses, `Data`, `Timeout`,
`CloseEvent`, `SocketError`, all ending in `Finish`, which settles once.

**`Relay`, `Bridge`** - `Relay` is the one connection all tabs share: attempts and who joins
them, the write tap, the raw flag, sent views, `disconnect` and the close watcher. Below it
lies the client as the relay sees it. `Bridge` adds HTTP requests with their routes and
bodies, and the stretches of the shutdown. `met` is a history variable: the raw writes that
were under way together with another.

**`EventHub`, `Interface`** - `EventHub` is the hub and the event streams of one tab, which
break and are opened again. `Interface` is the hook: an operation is a short program of
requests (`Program`); each is served in any order and its reply resumes the operation.
The server is the sessions and rules it holds; a rule's identifier is unique in its session
only, and made up by the server unless the client chose one (`session-store.ts:228`; the rule
editor has a field for it, and the bundles fix theirs). The rule editor is its subject
(`editing`) and the identifier in its form (`fields`), which the form takes when it appears and
keeps when `Edit` sets the editor on another rule. `chosen` is a history variable: the
identifiers clients chose.

**`StateFile`, `Cli`** - `StateFile` is the file: `writeFile` truncates and then fills it, a
process may be killed between. `Cli` runs command lines and prompts against servers: what
each command asks, what it makes of a refusal, what it remembers and forgets, and the exit
code. A server may start anew and count from one again.

**`MC...`** modules give inputs and symmetry where a run needs them; **`...Proofs`** modules hold the proofs.

## 3. What TLC checks

A property of a run is often a conjunction; its parts are defined and explained one by one
in the module, before it.

| Run | Question | Bounds, and why they are enough |
|---|---|---|
| `decoder` | All chunkings: conservation, the cursor and the bounded buffer (`ScanIsSound`), completeness between pushes, refused only what should be, refinement of `SltpFraming`; what is encoded is delivered | pairs of good messages (no body, body, a body with a delimiter in it, a block of exactly the limit) and each kind of fault before a good message, messages of up to 18 bytes in chunks of up to 17, so every delimiter and body is split everywhere; encoded requests with thirteen lists of headers and three bodies |
| `session_rules` | Rules stay distinct and unambiguous (`RulesAreSound`, `NoEquivalentRules`), keep place and hits, and earlier rules keep answering (`OrderIsStable`) | two rules at a time, three insertions, matches that are equal, differ in spelling, are narrower, broader; every operation interacts with at most one other rule |
| `rate_limiter` | Admissions in every window, exactness of `Retry-After` | burst 2, 300 tokens a second, 14 ms, five admissions: a token takes 3 1/3 ms, so both roundings and several refills happen |
| `session_store` | Endpoint, state and results agree (`StoreIsConsistent`), creations do not share, closed is final, every call is answered, `closeAll` returns | three calls and a sweep, two sessions, one result kept: a creation followed by two runs, two closes, a run or a change across a close; three creations at once |
| `control_server` | The counters are exact (`CountsAreExact`), closes are deferred, sockets outlive the closing of sessions | two requests, two connections of which one is admitted, one session: a pair of requests on one connection, a refused connection, create and close at shutdown |
| `control_server_settles` | No handler waits for ever, shutdown ends | one request, two connections (an idle or stalled one and a refused one) |
| `sltp_client` | Map, timers and promises agree, every request settles, `close()` returns, on a dead connection | three requests, so that one is answered, one times out and one is written while both ends close |
| `client_timeout` | finding | same |
| `exchange` | Answers keep their order, end with the last and are counted (`AnswersAreSound`); a pass is earned (`PassesAreEarned`); the writes are the payload; one result; everything ends | nine scenarios of one or two messages in all three modes, with faults, pauses and a cut; a rule that is slow and in pieces, then gone, then cuts; a stranger; a second client in one scenario; 36 expectations judged at the end of each |
| `bridge` | One connection, nothing under way after `close()` (`ConnectionsAreSound`), views, raw bytes kept apart unless written together, tabs told the truth, every request answered | three requests, two connections: one request takes any route, one disconnects or sends raw bytes, one is an operation; so each pair of routes meets, with losses and a shutdown |
| `interface` | The stream's order and completeness (`StreamIsSound`), what is shown (`ViewIsTrue`), the status, the tab comes back | three operations, two sessions, two rules, two streams, three events; `Apart` keeps a busy stream and a busy server apart, and allows two operations where one fails: the timeline and the lists share no state |
| `cli` | The remembered session (`MemoryIsTrue`), exit codes and files (`CodesAreHonest`), rules of a bundle, everything ends | a command and a prompt of two lines, two servers, one fault (a loss, a restart, an interrupt, a file that cannot be written); `Near` sends the second process elsewhere only for what concerns the file, and types the second line only when nothing has failed |

Deadlock is checked where the system goes on for ever (`session_rules`,
`rate_limiter`); elsewhere calls, streams and connections run out and the system stops.

### Fairness

Safety runs need none; the specifications state it where a liveness property uses it.

- `SessionStore!StoreFairness`: each wait ends. `listen` on a loopback port succeeds or
  fails at once; `endpoint.close()` destroys its sockets first, so the listener's
  callback comes; every exchange of a scenario has a timeout.
- `ControlServer!Fairness`: the same for `HandlersResume` as one action, which suffices
  because finitely many waits exist; the stretches of `close()`; the `close` event of a
  destroyed socket; and writes and closings only where no peer can hold them up
  (`OutOfPeersHands`): on destroyed sockets, and on refused ones, whose one short
  response fits an empty send buffer and whose closing has a timer. A peer that
  reads nothing keeps an open connection's write pending for ever, and the shutdown
  must end all the same. The grace period may expire at any moment.

- `TestRunner!FairSpec`: the timer of an exchange fires, chains, delays and write
  callbacks go on while the peer reads, a destroyed socket emits `close`.
- `Bridge!FairSpec`: an attempt succeeds, fails or times out; a request is answered or
  times out; `close()` of the client forces the end; bodies come (Node.js ends a request
  that does not send its own).
- `Interface!FairSpec`: the bridge answers each request, which `bridge` shows, and the
  browser delivers the reply. Streams owe nothing.
- `Cli!FairSpec`: a process goes on, the server answers, scenarios end, and a prompt whose
  input has been closed reads to the end of it. Nobody has to type.
- `SltpClient!FairSpec`: timers fire (they are `unref`ed, but the open socket keeps the
  process alive, and `close` clears them), a destroyed socket calls back and emits `close`,
  and the timer of `close()` forces the end. Nothing is assumed of the server.

Properties of the form "is answered" are not claimed for peers that do not read.

## 4. What is proved

For every value of the constants that satisfies the modules' assumptions: any number of
calls, connections, sessions, requests, bytes. Each proof has the same form: an inductive
invariant, a lemma for each action (or for a stretch several actions share) that it is
kept, one step in the lemma for each conjunct, and the theorem from both. The invariants
were checked by TLC, as invariants of the component's run, before they were proved.

**`SltpDecoderProofs`** (any set of streams, any limits and chunking).
`DecoderConservesBytes`: the buffer is what was received and not consumed. The inductive
invariant is the type invariant with the position of the buffer in the stream, which
`Push` extends at the end and `Emit` cuts in front. `DecoderScansEverything`: the cursor
passes over no delimiter and an idle decoder holds no complete message. The invariant
must say what an idle decoder knows, that the scan from the cursor ended without a
delimiter or at a message still too short, and that a delimiter cannot lie wholly before
the cursor; the step back by three in `drain()` is what makes it inductive.
`ScanStaysSound` is the same for `ScanIsSound` as the run states it.
`DecoderImplementsFraming`: each step is a framing step or a stutter, under
the mapping that forgets the buffer.

**`SessionRulesProofs`**. `EquivalentMatchesFireTogether`: equal canonical forms are
satisfied by the same requests, for every body matcher; so what the store refuses as
ambiguous is what really competes. `RulesStayUnambiguous`: identifiers, names and sequence numbers
stay distinct, and enabled rules of one priority are not equivalent. The inductive
invariant is `TypeOK /\ RulesAreDistinct /\ NoEquivalentRules`: that sequence
numbers lie below the next one (in the first two) is what makes an insertion distinct, and
a patch is checked against every rule but the one at its own index.
`HeadersTellMatchesApart` is the converse of the first for the headers: matches for the same
operation and body that are not equivalent are told apart by the request that carries the
headers of one of them, and nothing else. `RivalsAreToldApart` says with it what the store
promises: whatever was added, patched, moved or enabled, of two rules of one priority that
differ in their headers alone neither hides the other. What can be told apart by bodies
alone depends on the matchers (two regular expressions may accept the same), and nothing is
claimed of it.
`RulesKeepTheirPlace`: no step costs a rule its sequence number or its hits, since every
rule there is afterwards is one there was or has an identifier of its own. `OrderStaysStable`
adds that a new rule takes no request from one of at least its priority: it comes last in the
array and has the largest sequence number, so what was foremost among the rules that answer
still is.

**`SltpClientProofs`** (any set of calls). `RequestsAgree`: the Map, the timers and the
promises tell of the same requests. `CloseIsComplete`: a `close()` that has returned leaves
nothing in flight. The invariant adds that a closed socket has no write waiting and that
only the `close` event lets `close()` return.

**`ControlServerProofs`** (any connections, requests, calls, limits and maxima, for
`RateLimiter`, `SessionStore` and `ControlServer`). Of the limiter, `RateIsLimited`: over
every window of admissions, admitted tokens are at most the burst plus the refill between
the first and the last. The invariant is a *ledger*: for each admission, the tokens now left
plus those admitted since are at most the capacity plus the refill since; a clock that goes
back takes tokens away and gives them back, never more. `RetryAfterIsHonest`: the advertised
millisecond is the first that admits, from a *quote* on each refusal that later refusals do
not spoil. Of the store, `StoreStaysConsistent`,
`CreationsDoNotMeet` and `ClosedStaysClosed`. What holds between two waits is inductive only
with what each waiting caller relies on: the session numbers given out are as many as the
creations that got one (`CreationsAreCounted`), so a new number is nobody's; a creation
that waits has a session that is still absent, with an endpoint that starts, and every other
call waits on a session that is there (`CallsFitSessions`). That the results kept are
the last of those completed goes through `SubSeq` in `FinishKeepsInvariant`. Of the server,
`CountsStayExact`: `inFlight` of a connection is the cardinality of its requests being handled
or written, and one that is to close when idle does. `ClosesAreDeferred`: the server ends no
connection with such a request. `SocketsComeLast`: sockets are destroyed after the
sweep. The invariant is the store's, with two more facts: a request belongs to a connection
that was accepted, and on one that was not nothing has happened (`RequestsHaveConnections`);
from the beginning of the sweep, what stops is what the sweep waits for (`SweepCoversStopping`).

**`BridgeProofs`** (any requests, routes and number of attempts, for `Relay` and `Bridge`).
`OneConnection`, `ViewsMatchRequests`, `RawStaysApart`, `TabsHearTheTruth`. The invariant
says of the links which is the client, which the attempt, and that a link is younger than
those it replaces (`LinksAreSound`; the last is why what is open after the shutdown came
later than the client it let go); of each call which link it waits for and in which state that link is; that
an attempt, and a connection let go, has a call that waits for it (so nothing is under way
once every request is answered); that a queue holds the calls that are writing on its link,
once each; that a view kept is of the client's connection; and that a raw write which was
never under way together with another is marked from its beginning to its end (`RawIsMarked`),
so that the tap skips its bytes.

**`InterfaceProofs`** (any events, streams, operations, sessions and limits).
`StatusStaysCurrent`, `StreamStaysSound` and `ViewStaysTrue`. The tab reads one stream at most (`StreamsAreSound`). The last
status on the way is that of the connection, and when none is, the tab has it already
(`StatusArrives`). For the live stream there is a number up to which the tab has read: what is
on the stream is exactly the rest, in order, and what is recent and read is at the end of the
timeline, at its place counted from there, so that cutting either to its limit loses nothing
recent (`RecentArrives`). The timeline starts over at most as often as streams broke, less
one while the next event to be read comes before the last that was (`OrderArrives`).
Of the view, what holds however operations overlap is that a rule is or was one of the session
it was seen in and of no other, or a client chose its identifier (`IsOf`), wherever it is: at
the server, in a reply under way, in the list, in the editor and its form, and in an operation
that was started on it (`RulesHaveSessions`, `EditorIsSound`). So a change that was sent to
another session than the one its rule was seen in is accepted only for a chosen identifier.
Without overlapping (`Alone`): the operation under way is of the selected session, a
session just created is empty and not listed yet, and the list of rules is the server's
except while a request that will bring it is still to come (`RulesArrive`; unless a
connection was lost or a request failed). Each request has one of a few effects
(`Effect`), and one lemma shows that a reply with any of them keeps this.

**`CliProofs`** (any processes, servers, lines and bounds, for `StateFile` and `Cli`).
`MemoryIsAlwaysTrue`, `CodesAreAlwaysHonest`, `RunsAlwaysHaveTheirRules`. The invariant has
two parts for each process. `Sound` speaks of the process alone: the request it has made is
the next rule, scenario or result of its command or the command's first (`Request`); for a run, what
passed so far has passed unless a failure is counted; for an export, what was fetched is what was listed up to
there; where it writes the file, its command has succeeded. Each function a command is built
from takes such a process to such a process (`DispatchIsSound`, `RunNextIsSound`,
`ReplyIsSound`, ...), which settles the exit codes. `Fits` relates it to the rest: what it
took or will write is of a session its server has answered for (`Knows`); a close that has
compared holds the file to its number until somebody writes (`ForgetsRightly`); the rules
installed so far stand or were deleted (`InstalledSoFar`); and a scenario under way at a
server is the one its process waits for, or of a line that is over (`OneRun`, without which a
late result could answer another scenario). The proof needs of the lines only what `options.ts` lets
through (`LinesAssumption`) and that sessions are counted from one.

**`TestRunnerProofs`** (any connections, responses, scenarios and expectations, for
`MockEndpoint` and `TestRunner`). `AnswersStaySound`: answers leave in the order of requests,
nothing follows the last, hits cover the answers of a rule. `PassesStayEarned`: whatever was
expected and compared, a run that passes has read what it is judged by.
`ThePayloadIsWritten`: what was written of a plan is the beginning of the payload, in order
and unbroken. `ResultStaysFinal`: a run has one result, and after it nothing is read or
decided; the write under way may still be noted as sent, once. Assumed is that responses, scenarios and expectations are among those validation
lets through (`EditsAssumption`, `RunnerAssumption`).

The invariant looks at each connection alone, as a property of its values (`Served`): the
chain holds the answers to the last of the items received, in order, and then at most an end;
only its first task has begun (`Queued`); while the socket is open, the wire is as long as
the answers that have left the chain and the part written of the first (`WrittenSoFar`), so
the next unit written is the next in order; what is on the wire answers what was received,
and after a word that closes there is nothing (`WireSound`); an answer begun goes on as it
began, and not in the name of a later edition (`HeadBegun`). A lemma for each action takes
such values to such values, and a step of one connection leaves the others alone. That hits
cover the answers of a rule is inductive with the set they count: among its members is each
answer a rule has begun, wherever it is (`HitsKept`). Of the runner the invariant says what
was planned, written and read (`Sending`, `Reading`), and that a result describes what was
read when it was made (`Told`): since the wire only grows, it still does later (`ReadStays`).
What is read from a stranger, who owes no order of messages, is sound by less (`Stranger`).

Proving found mistakes in the models that no run had shown, and corrected them:
`ControlServer!Respond` had two cases that overlap, and `Bridge!RelayClosed` was enabled in
any phase in which the shutdown has nothing to wait for, because of how `/\` and `=>` were laid out.
`StatusIsCurrent` allowed for operations under way, which it turned out not to need. What a
run of the command line has installed (`InstalledSoFar`) has to be known while its scenario
is running, too, and a scenario may give any number as its timeout.

Only model-checked:

- liveness, which needs fairness and `ENABLED`;
- `EncodedIsDelivered` and `AcceptsExactlyWellFormed`: they say what recursive definitions
  compute for every input, which takes an induction over data;
- `SpellingHidesNoTwin`, a part of `RulesAreSound`: that of two enabled rules of one priority
  some request is answered by one alone depends on which requests there are.

## 5. Where the code and its documents disagree

The run `client_timeout` must be violated; `PROJECT.json` quotes the lines: a request that
times out while its write waits for the server to read rejects a promise nobody handles
yet, and the process ends (`client.ts:367`).

Seen while modelling, without a run of their own:

- `decoder.ts:202`: a header block of exactly the permitted length, or up to two bytes less,
  is refused when a chunk ends inside its delimiter and accepted otherwise, though line 10
  says nothing depends on chunk boundaries.
- `encoder.ts:140` writes a header that may come once a second time when the caller spells it
  otherwise than the sender does (`request-id` in a mock rule, say), and every decoder refuses
  the message, though line 5 says bad bytes are caught before they reach the wire. It knows
  no limits either. `EncodedIsDelivered` says what is delivered.
- `session-store.ts:103`: the maximum of sessions (FR-32) is compared before the endpoint
  is awaited, so overlapping `CREATE_SESSION` calls exceed it.
- `session-store.ts:392`: a test that ends after its session closed still adds its result,
  though a closed session is read-only (R-13.4). `ClosedIsFinal` says so.
- `server.ts:221`: a `CREATE_SESSION` whose client has gone is not waited for by the
  shutdown, and its endpoint listens after `close()` has resolved (FR-25).
- `session-store.ts:228`: a rule added without an identifier is refused with 409 when the
  made-up identifier is one a client had chosen; `docs/status-codes.md:673` does not list it.
- `validation.ts:485` refuses contradictory expectations, but content next to `timeout` or
  `disconnect` is accepted and ignored.
- `test-runner.ts:306`: a coalesced run that times out with one of two responses may pass
  (`ShortPassIsNoDisconnect`); the one write that was waiting adds a "sent" segment after
  the result was made (`ResultIsFinal`).
- `relay.ts:273` calls a lost view "unreachable in practice"; raw bytes being written next
  to a request, or a disconnect, reach it. Two raw writes at once let raw bytes into the
  sent decoder (`relay.ts:301`), though line 97 says they must not reach it. The views of
  requests that timed out are kept until the connection ends. A disconnect while connecting
  does nothing, and an attempt under way at the shutdown opens a connection afterwards.
- `events.ts:94`: a stream that is opened again brings recent events twice and no status
  change of the gap; one that was refused with 503 is never opened again.
- `useBridge.ts:201`: rules of another session that arrive late are shown, and an editor left
  open stays open when another session is selected. A change made from these is sent to the
  session now selected, and changes its rule of the same identifier if a client chose it
  (`catch-all` of a bundle, say); otherwise it is refused.
- `SessionPanel.tsx:165`: `Edit` sets an open editor on another rule, but the form stays, and
  the identifier in it goes before that of the rule. So an editor of rule A that is set on B
  changes A, and the form of a new rule without identifier that is set on B replaces B.
- `commands.ts:463` says the request outlasts the scenario; when neither gives a timeout,
  both wait five seconds. `commands.ts:246`: `session close` compares the number alone, so
  closing `ses-1` of one server forgets `ses-1` of another. A 409 on a rule of a bundle is
  called "already present" also when an equivalent rule has another name. A mistyped
  `--scenario` leaves the rules of the bundle installed.
- `state.ts:84`: `forgetSession` reads and then writes, so it may lose a session remembered
  in between. A server that starts anew gives the same numbers again, so a remembered
  session may name another one.
- `repl.ts:66`: a connection lost before the prompt watches it leaves the prompt waiting.

## 6. Not modelled

- Request validation and the operation registry (`packages/protocol`): a fixed order of
  checks over one request, and a table; the models take a request as valid or not. The list
  helpers of `headers.ts`; `getHeader` is in `RuleMatching`.
- Body match modes: substrings, regular expressions and JSON; `SessionRules` holds for any.
- Validation of single fields, registries, constants, formatting, logging, rendering,
  help, the spelling of arguments: tables and text.
- `sendRaw`, `collectRaw` and `connect` of the client below the relay; `Relay` and `Cli`
  model what their users do with them.
- Notices and forms of the browser interface (but for the identifier in the rule editor), and
  a second tab of the same user: tabs meet in `Bridge`.
- The flags a prompt passes on to its lines.
- Entry points that read arguments and signals, examples, benchmarks, scripts.

## 7. What is left

Nothing the models say of safety waits for a proof that could be given here, except what
needs an induction over data. Next would come request validation and the body matchers,
whose rules are tables and functions of one value, and with a prover that can do induction,
that the decoder accepts exactly what is well formed.

To run: `tlc -config X.cfg M` and `tlapm M.tla` in this directory.
