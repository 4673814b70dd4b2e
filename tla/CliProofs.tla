------------------------------ MODULE CliProofs ------------------------------
(***************************************************************************)
(* Theorems about Cli and the StateFile below it, for any processes,        *)
(* servers, command lines and bounds.  The invariant says of each process   *)
(* what its request is a part of and what it has done for its command       *)
(* (Sound), and how it fits the file, the history and the servers (Fits).   *)
(* Each function that a command is built from takes a process that may go   *)
(* on to one that is sound; each step of the system is one of them.         *)
(***************************************************************************)
EXTENDS Cli, FiniteSetTheorems, SequenceTheorems, TLAPS

-----------------------------------------------------------------------------
(* What the model's operators do.                                           *)

\* The request of each command.
LEMMA OperationFacts ==
  /\ DOMAIN Operation = {"ping", "info", "create", "list", "show", "use", "close", "ruleAdd",
                         "ruleList", "ruleUpdate", "ruleDelete", "resultList", "resultShow",
                         "export"}
  /\ Operation["ping"] = "PING" /\ Operation["info"] = "SERVER_INFO"
  /\ Operation["create"] = "CREATE_SESSION" /\ Operation["list"] = "LIST_SESSIONS"
  /\ Operation["show"] = "GET_SESSION" /\ Operation["use"] = "GET_SESSION"
  /\ Operation["close"] = "CLOSE_SESSION" /\ Operation["ruleAdd"] = "ADD_RULE"
  /\ Operation["ruleList"] = "LIST_RULES" /\ Operation["ruleUpdate"] = "UPDATE_RULE"
  /\ Operation["ruleDelete"] = "DELETE_RULE" /\ Operation["resultList"] = "LIST_RESULTS"
  /\ Operation["resultShow"] = "GET_RESULT" /\ Operation["export"] = "LIST_RESULTS"
<1>1. /\ DOMAIN Connectivity = {"ping", "info"}
      /\ Connectivity["ping"] = "PING" /\ Connectivity["info"] = "SERVER_INFO"
  BY DEF Connectivity
<1>2. /\ DOMAIN SessionCommands = {"create", "list", "show", "use", "close"}
      /\ SessionCommands["create"] = "CREATE_SESSION"
      /\ SessionCommands["list"] = "LIST_SESSIONS"
      /\ SessionCommands["show"] = "GET_SESSION"
      /\ SessionCommands["use"] = "GET_SESSION"
      /\ SessionCommands["close"] = "CLOSE_SESSION"
  BY DEF SessionCommands
<1>3. /\ DOMAIN RuleCommands = {"ruleAdd", "ruleList", "ruleUpdate", "ruleDelete"}
      /\ RuleCommands["ruleAdd"] = "ADD_RULE" /\ RuleCommands["ruleList"] = "LIST_RULES"
      /\ RuleCommands["ruleUpdate"] = "UPDATE_RULE" /\ RuleCommands["ruleDelete"] = "DELETE_RULE"
  BY DEF RuleCommands
<1>4. /\ DOMAIN ResultCommands = {"resultList", "resultShow", "export"}
      /\ ResultCommands["resultList"] = "LIST_RESULTS"
      /\ ResultCommands["resultShow"] = "GET_RESULT" /\ ResultCommands["export"] = "LIST_RESULTS"
  BY DEF ResultCommands
<1>5. DOMAIN Operation = {"ping", "info"} \cup {"create", "list", "show", "use", "close"}
                          \cup {"ruleAdd", "ruleList", "ruleUpdate", "ruleDelete"}
                          \cup {"resultList", "resultShow", "export"}
  BY <1>1, <1>2, <1>3, <1>4 DEF Operation
<1>6. Operation["ping"] = "PING" /\ Operation["info"] = "SERVER_INFO"
  BY <1>1 DEF Operation
<1>7. /\ Operation["create"] = "CREATE_SESSION" /\ Operation["list"] = "LIST_SESSIONS"
      /\ Operation["show"] = "GET_SESSION" /\ Operation["use"] = "GET_SESSION"
      /\ Operation["close"] = "CLOSE_SESSION"
  BY <1>1, <1>2 DEF Operation
<1>8. /\ Operation["ruleAdd"] = "ADD_RULE"
      /\ Operation["ruleList"] = "LIST_RULES" /\ Operation["ruleUpdate"] = "UPDATE_RULE"
      /\ Operation["ruleDelete"] = "DELETE_RULE"
  BY <1>1, <1>2, <1>3 DEF Operation
<1>9. /\ Operation["resultList"] = "LIST_RESULTS"
      /\ Operation["resultShow"] = "GET_RESULT" /\ Operation["export"] = "LIST_RESULTS"
  BY <1>1, <1>2, <1>3, <1>4 DEF Operation
<1> QED BY <1>5, <1>6, <1>7, <1>8, <1>9

Commands == DOMAIN Operation \cup {"run", "raw", "scenarioShow", "misspelt"}
Codes == {0, 1, 2, 3, 130}

\* A command line, and those of a process that has none and of a prompt.
AnyLine ==
  [cmd : Commands \cup {"none", "repl"}, id : Ids \cup {None}, session : Ids \cup {None},
   whole : BOOLEAN, timeout : Int, rule : RuleNames \cup Nat, rules : Seq(RuleNames),
   install : BOOLEAN, json : BOOLEAN, scenarios : Seq(Nat)]

Fields ==
  {"at", "prompt", "server", "connected", "watching", "deaf", "told", "line", "lines", "code",
   "sid", "recalled", "op", "arg", "next", "failures", "listed", "got", "want", "deeds",
   "gaveUp"}

\* The types of a process, as a predicate of its fields.
Shape(r) ==
  /\ DOMAIN r = Fields
  /\ r.at \in Awaits
  /\ r.connected \in BOOLEAN
  /\ r.line \in AnyLine
  /\ r.lines \in Nat
  /\ r.code \in Codes
  /\ r.sid \in Ids \cup {None}
  /\ r.next \in Nat \ {0}
  /\ r.failures \in Nat
  /\ r.listed \in Seq(Nat)
  /\ r.got \in Seq(RuleNames \cup Nat)
  /\ r.want \in State
  /\ r.server \in Servers \cup {None}

\* Nothing is left of a command that is over.
Clean(r) ==
  /\ r.sid = None /\ ~r.recalled /\ r.next = 1 /\ r.failures = 0
  /\ r.listed = <<>> /\ r.got = <<>> /\ r.want = Nothing

\* What does not change as long as the line does not.
SameLine(r, f) ==
  /\ f.prompt = r.prompt /\ f.server = r.server /\ f.line = r.line /\ f.lines = r.lines
  /\ f.gaveUp = r.gaveUp

\* What a process is over with.
LEMMA FinishedFacts ==
  ASSUME NEW r, Shape(r), NEW code \in Codes, NEW f, f = Finished(r, code)
  PROVE  /\ Shape(f) /\ SameLine(r, f) /\ Clean(f)
         /\ f.at \in {"prompt", "ended"} /\ (f.at = "prompt" => r.prompt /\ r.watching)
         /\ f.deeds = r.deeds /\ f.watching = r.watching
         /\ f.code = code \/ (r.prompt /\ f.code = (IF code = 0 THEN 0 ELSE 1))
<1>1. /\ None \in Ids \cup {None} /\ Nothing \in State
      /\ {0, 1} \subseteq Codes /\ {"prompt", "ended"} \subseteq Awaits
      /\ <<>> \in Seq(Nat) /\ <<>> \in Seq(RuleNames \cup Nat)
  BY DEF None, Nothing, State, Codes, Awaits
<1>2. PICK over : over = [r EXCEPT !.sid = None, !.recalled = FALSE, !.op = "none", !.arg = None,
                                   !.next = 1, !.failures = 0, !.listed = <<>>, !.got = <<>>,
                                   !.want = Nothing]
  OBVIOUS
<1>7. /\ DOMAIN over = Fields
      /\ \A field \in {"at", "connected", "line", "lines", "code", "server"} :
           over[field] = r[field]
      /\ over.sid = None /\ over.next = 1 /\ over.failures = 0 /\ over.listed = <<>>
      /\ over.got = <<>> /\ over.want = Nothing
  BY <1>2 DEF Shape, Fields
<1>3. Shape(over)
  BY <1>1, <1>7 DEF Shape
<1>4. /\ SameLine(r, over) /\ Clean(over) /\ over.deeds = r.deeds
      /\ over.watching = r.watching /\ over.connected = r.connected
  BY <1>1, <1>2 DEF Shape, Fields, SameLine, Clean
<1>5. CASE r.prompt /\ r.watching
  <2>1. f = [over EXCEPT !.code = IF code = 0 THEN 0 ELSE 1,
                         !.at = IF r.connected THEN "prompt" ELSE "ended"]
    BY <1>2, <1>5 DEF Finished
  <2>2. /\ f.code = (IF code = 0 THEN 0 ELSE 1) /\ f.at \in {"prompt", "ended"}
        /\ DOMAIN f = Fields
        /\ \A field \in Fields \ {"code", "at"} : f[field] = over[field]
    BY <1>3, <2>1 DEF Shape, Fields
  <2>3. Shape(f) /\ SameLine(r, f) /\ Clean(f) /\ f.deeds = r.deeds /\ f.watching = r.watching
    BY <1>1, <1>3, <1>4, <2>2 DEF Shape, Fields, SameLine, Clean
  <2> QED BY <1>5, <2>2, <2>3
<1>6. CASE ~(r.prompt /\ r.watching)
  <2>1. f = [over EXCEPT !.code = code, !.at = "ended", !.connected = FALSE]
    BY <1>2, <1>6 DEF Finished
  <2>2. /\ f.code = code /\ f.at = "ended" /\ f.connected = FALSE /\ DOMAIN f = Fields
        /\ \A field \in Fields \ {"code", "at", "connected"} : f[field] = over[field]
    BY <1>3, <2>1 DEF Shape, Fields
  <2>3. Shape(f) /\ SameLine(r, f) /\ Clean(f) /\ f.deeds = r.deeds /\ f.watching = r.watching
    BY <1>1, <1>3, <1>4, <2>2 DEF Shape, Fields, SameLine, Clean
  <2> QED BY <1>6, <2>2, <2>3
<1> QED BY <1>5, <1>6

\* What exit code 0 says, command by command.
LEMMA PromiseFacts ==
  ASSUME NEW line
  PROVE  /\ line.cmd = "run" => Promise(line) = {<<"passed", i>> : i \in DOMAIN line.scenarios}
         /\ line.cmd = "use" => Promise(line) = {<<"GET_SESSION", line.rule>>,
                                                 <<"remember", line.id>>}
         /\ line.cmd = "export" => Promise(line) = {<<"LIST_RESULTS", line.rule>>,
                                                    <<"saved", None>>}
         /\ line.cmd \in DOMAIN Operation \ {"use", "export"} =>
              Promise(line) = {<<Operation[line.cmd], line.rule>>}
         /\ line.cmd \in {"raw", "scenarioShow", "repl"} => Promise(line) = {}
<1>1. line.cmd = "run" => Promise(line) = {<<"passed", i>> : i \in DOMAIN line.scenarios}
  BY OperationFacts, Zenon DEF Promise
<1>2. line.cmd = "use" => Promise(line) = {<<"GET_SESSION", line.rule>>,
                                           <<"remember", line.id>>}
  BY OperationFacts DEF Promise
<1>3. line.cmd = "export" => Promise(line) = {<<"LIST_RESULTS", line.rule>>, <<"saved", None>>}
  BY OperationFacts DEF Promise
<1>4. line.cmd \in DOMAIN Operation \ {"use", "export"} =>
        Promise(line) = {<<Operation[line.cmd], line.rule>>}
  BY OperationFacts DEF Promise
<1>5. line.cmd \in {"raw", "scenarioShow", "repl"} => Promise(line) = {}
  BY OperationFacts DEF Promise
<1> QED BY <1>1, <1>2, <1>3, <1>4, <1>5

-----------------------------------------------------------------------------
(* What holds of each process.                                              *)

RuleCount(line) == Len(Installed(line))
RuleDeeds(line) == {<<"ADD_RULE", rule>> : rule \in ToSet(line.rules)}

\* The first request of a command has succeeded.
FirstDone(r) == <<Operation[r.line.cmd], r.line.rule>> \in r.deeds

\* How far a run is, and what has passed when none of its scenarios has failed.
Running(r) ==
  /\ r.line.cmd = "run" /\ r.sid \in Ids
  /\ r.next - 1 <= RuleCount(r.line) + Len(r.line.scenarios)
  /\ r.next <= RuleCount(r.line) + 1 => r.deeds \subseteq RuleDeeds(r.line) /\ r.failures = 0
  /\ r.failures = 0 =>
       \A i \in 1 .. r.next - 1 - RuleCount(r.line) : <<"passed", i>> \in r.deeds

\* How far an export is.
Exporting(r) ==
  /\ r.line.cmd = "export" /\ r.sid \in Ids /\ FirstDone(r)
  /\ r.next <= Len(r.listed) + 1
  /\ Len(r.got) = r.next - 1
  /\ \A i \in 1 .. Len(r.got) : r.got[i] = r.listed[i]

\* The requests that a command makes, and when.
RuleRequest(r, op, arg) ==
  /\ Running(r) /\ op = "ADD_RULE"
  /\ r.next <= RuleCount(r.line) /\ arg = Installed(r.line)[r.next]

ScenarioRequest(r, op, arg) ==
  /\ Running(r) /\ op = "RUN_TEST"
  /\ arg \in 1 .. Len(r.line.scenarios) /\ r.next = RuleCount(r.line) + arg

ResultRequest(r, op, arg) ==
  /\ Exporting(r) /\ op = "GET_RESULT"
  /\ r.next <= Len(r.listed) /\ arg = r.listed[r.next]

FirstRequest(r, op, arg) ==
  /\ r.line.cmd \in DOMAIN Operation /\ op = Operation[r.line.cmd] /\ arg = r.line.rule
  /\ r.next = 1 /\ r.got = <<>>
  /\ op \notin Sessionless => r.sid \in Ids
  /\ r.line.cmd = "use" => r.sid = r.line.id

Request(r, op, arg) ==
  \/ RuleRequest(r, op, arg)
  \/ ScenarioRequest(r, op, arg)
  \/ ResultRequest(r, op, arg)
  \/ FirstRequest(r, op, arg)

GaveUpRightly(r) ==
  r.gaveUp # None => /\ r.line.scenarios[r.gaveUp] = None
                     /\ r.line.timeout <= DefaultTimeout

\* What holds of a process wherever it is.
Base(r) ==
  /\ Shape(r)
  /\ r.watching => r.server \in Servers
  /\ GaveUpRightly(r)

Calm == {"idle", "connecting", "greeting", "prompt", "ended", "resolving", "raw"}
Unstarted == {"idle", "connecting", "greeting", "resolving", "raw"}
SessionUsers ==
  {"show", "close", "ruleAdd", "ruleList", "ruleUpdate", "ruleDelete", "resultList",
   "resultShow", "export", "run"}

\* A process that has asked nothing yet.
StartsClean(r) ==
  /\ r.at \in Calm => Clean(r)
  /\ r.at \in Unstarted => r.deeds = {} /\ r.gaveUp = None
  /\ r.at = "connecting" => IF r.prompt THEN r.line.cmd = "repl"
                            ELSE r.line.cmd \in Commands \ {"misspelt"}
  /\ r.at = "greeting" => r.prompt /\ r.line.cmd = "repl"
  /\ r.at = "raw" => r.line.cmd = "raw"
  /\ r.at = "resolving" => r.line.cmd \in SessionUsers
  /\ r.at = "prompt" => r.prompt

HasServer(r) == r.at \notin {"idle", "ended"} => r.server \in Servers

Asks(r) ==
  /\ r.at \in {"asked", "running"} => r.connected /\ Request(r, r.op, r.arg)
  /\ r.at = "running" => r.op = "RUN_TEST"

\* A command that writes the file.
Writes(r) ==
  /\ r.at \in {"recalling", "forgetting"} => r.line.cmd = "close" /\ FirstDone(r)
  /\ r.at \in {"opening", "filling"} =>
       /\ r.line.cmd \in {"create", "use", "close"} /\ FirstDone(r)
       /\ r.want.server \in Servers
       /\ r.line.cmd = "use" => r.want.session = r.line.id

Saves(r) == r.at = "saving" => r.line.cmd = "export" /\ FirstDone(r) /\ r.got = r.listed

\* What an exit code says.
Tells(r) ==
  /\ r.at \in {"prompt", "ended"} /\ r.code = 0 => Promise(r.line) \subseteq r.deeds
  /\ ~r.prompt => /\ r.at # "ended" => r.code = 0
                  /\ r.code = 3 => r.deeds = {}
                  /\ r.code = 2 => r.deeds \subseteq RuleDeeds(r.line)

Sound(r) ==
  /\ Base(r)
  /\ StartsClean(r)
  /\ HasServer(r)
  /\ Asks(r)
  /\ Writes(r)
  /\ Saves(r)
  /\ Tells(r)

\* What becomes of a process that goes on with its command: its next request, or
\* its end.
Follows(r, f) ==
  /\ SameLine(r, f)
  /\ f.at \in {"asked", "saving", "prompt", "ended"}
  /\ f.at \in {"asked", "saving"} =>
       f.sid = r.sid /\ f.recalled = r.recalled /\ f.next = r.next /\ f.want = r.want
  /\ f.at \in {"prompt", "ended"} => Clean(f)

\* What an exit code claims must be so.
MayEnd(r, code) ==
  /\ code = 0 => Promise(r.line) \subseteq r.deeds
  /\ code = 3 => r.deeds = {}
  /\ code = 2 => r.deeds \subseteq RuleDeeds(r.line)

\* A process that ends with a code that tells the truth is sound.
LEMMA FinishedIsSound ==
  ASSUME NEW r, Base(r), NEW code \in Codes, MayEnd(r, code)
  PROVE  Sound(Finished(r, code)) /\ Follows(r, Finished(r, code))
<1>1. PICK f : f = Finished(r, code)
  OBVIOUS
<1>2. /\ Shape(f) /\ SameLine(r, f) /\ Clean(f)
      /\ f.at \in {"prompt", "ended"} /\ (f.at = "prompt" => r.prompt /\ r.watching)
      /\ f.deeds = r.deeds /\ f.watching = r.watching
      /\ f.code = code \/ (r.prompt /\ f.code = (IF code = 0 THEN 0 ELSE 1))
  BY <1>1, FinishedFacts DEF Base
<1>3. Base(f) /\ HasServer(f)
  BY <1>2 DEF Base, SameLine, GaveUpRightly, HasServer
<1>4. StartsClean(f)
  BY <1>2 DEF StartsClean, Unstarted, SameLine
<1>5. Asks(f) /\ Writes(f) /\ Saves(f)
  BY <1>2 DEF Asks, Writes, Saves
<1>6. Tells(f)
  BY <1>2 DEF Tells, MayEnd, SameLine
<1>7. Follows(r, f)
  BY <1>2 DEF Follows
<1> QED BY <1>1, <1>3, <1>4, <1>5, <1>6, <1>7 DEF Sound

\* A process that sends a request it may send is sound, also when it cannot.
LEMMA AskIsSound ==
  ASSUME NEW r, Base(r), r.server \in Servers, ~r.prompt => r.code = 0,
         NEW op, NEW arg, Request(r, op, arg)
  PROVE  Sound(Ask(r, op, arg)) /\ Follows(r, Ask(r, op, arg))
<1>1. CASE r.connected
  <2>1. PICK f : f = [r EXCEPT !.at = "asked", !.op = op, !.arg = arg]
    OBVIOUS
  <2>2. /\ f.at = "asked" /\ f.op = op /\ f.arg = arg /\ DOMAIN f = Fields
        /\ \A field \in Fields \ {"at", "op", "arg"} : f[field] = r[field]
    BY <2>1 DEF Base, Shape, Fields
  <2>3. Base(f) /\ HasServer(f) /\ SameLine(r, f)
    BY <2>2 DEF Base, Shape, Fields, Awaits, GaveUpRightly, HasServer, SameLine
  <2>4. Request(f, op, arg)
    BY <2>2 DEF Request, RuleRequest, ScenarioRequest, ResultRequest, FirstRequest, Running,
                Exporting, FirstDone, Fields
  <2>5. Asks(f)
    BY <1>1, <2>2, <2>4 DEF Asks, Fields
  <2>6. StartsClean(f) /\ Writes(f) /\ Saves(f)
    BY <2>2 DEF StartsClean, Calm, Unstarted, Writes, Saves
  <2>7. Tells(f)
    BY <2>2 DEF Tells, Fields
  <2>8. Follows(r, f)
    BY <2>2, <2>3 DEF Follows, Fields
  <2>9. Ask(r, op, arg) = f
    BY <1>1, <2>1 DEF Ask
  <2> QED BY <2>3, <2>5, <2>6, <2>7, <2>8, <2>9 DEF Sound
<1>2. CASE ~r.connected
  <2>1. Ask(r, op, arg) = Finished(r, 1)
    BY <1>2 DEF Ask
  <2>2. 1 \in Codes /\ MayEnd(r, 1)
    BY DEF Codes, MayEnd
  <2> QED BY <2>1, <2>2, FinishedIsSound
<1> QED BY <1>1, <1>2

-----------------------------------------------------------------------------
(* Where a command goes next.                                               *)

\* The process may go on: it has its server, and no code yet unless it is a prompt.
GoesOn(r) ==
  /\ Base(r)
  /\ r.server \in Servers
  /\ ~r.prompt => r.code = 0

\* The exit codes there are.
LEMMA CodesThereAre == {0, 1, 2, 3, 130} \subseteq Codes
BY DEF Codes

\* What a line installs.
LEMMA InstalledFacts ==
  ASSUME NEW line \in AnyLine
  PROVE  /\ Installed(line) \in Seq(RuleNames) /\ RuleCount(line) \in Nat
         /\ \A i \in 1 .. RuleCount(line) :
              Installed(line)[i] = line.rules[i] /\ line.rules[i] \in ToSet(line.rules)
         /\ Len(line.scenarios) \in Nat /\ DOMAIN line.scenarios = 1 .. Len(line.scenarios)
<1>1. line.rules \in Seq(RuleNames) /\ line.scenarios \in Seq(Nat) /\ line.install \in BOOLEAN
  BY DEF AnyLine
<1>2. <<>> \in Seq(RuleNames) /\ Len(<<>>) = 0
  OBVIOUS
<1>3. CASE line.install
  <2>1. Installed(line) = line.rules
    BY <1>3 DEF Installed
  <2> QED BY <1>1, <2>1 DEF RuleCount, ToSet
<1>4. CASE ~line.install
  <2>1. Installed(line) = <<>>
    BY <1>4 DEF Installed
  <2> QED BY <1>1, <1>2, <2>1 DEF RuleCount
<1> QED BY <1>1, <1>3, <1>4

\* commandRun goes on: the next rule, the next scenario, or its verdict.
LEMMA RunNextIsSound ==
  ASSUME NEW r, GoesOn(r), Running(r)
  PROVE  Sound(RunNext(r)) /\ Follows(r, RunNext(r))
<1>1. r.line \in AnyLine /\ r.next \in Nat \ {0} /\ r.failures \in Nat
  BY DEF GoesOn, Base, Shape
<1>2. PICK rules \in Nat : rules = Len(Installed(r.line)) /\ rules = RuleCount(r.line)
  BY <1>1, InstalledFacts DEF RuleCount
<1>3. PICK scenarios \in Nat : scenarios = Len(r.line.scenarios)
  BY <1>1, InstalledFacts
<1>4. CASE r.next <= rules
  <2>1. RunNext(r) = Ask(r, "ADD_RULE", r.line.rules[r.next])
    BY <1>2, <1>4 DEF RunNext
  <2>2. r.line.rules[r.next] = Installed(r.line)[r.next]
    BY <1>1, <1>2, <1>4, InstalledFacts
  <2>3. Request(r, "ADD_RULE", r.line.rules[r.next])
    BY <1>2, <1>4, <2>2 DEF Request, RuleRequest
  <2> QED BY <2>1, <2>3, AskIsSound DEF GoesOn
<1>5. CASE r.next > rules /\ scenarios = 0
  <2>1. RunNext(r) = Finished(r, 2)
    BY <1>1, <1>2, <1>3, <1>5 DEF RunNext
  <2>2. r.next <= rules + 1
    BY <1>1, <1>2, <1>3, <1>5 DEF Running
  <2>3. MayEnd(r, 2)
    BY <1>2, <2>2 DEF MayEnd, Running
  <2> QED BY <2>1, <2>3, CodesThereAre, FinishedIsSound DEF GoesOn
<1>6. CASE r.next > rules /\ scenarios # 0 /\ r.next <= rules + scenarios
  <2>1. RunNext(r) = Ask(r, "RUN_TEST", r.next - rules)
    BY <1>1, <1>2, <1>3, <1>6 DEF RunNext
  <2>2. r.next - rules \in 1 .. scenarios /\ r.next = rules + (r.next - rules)
    BY <1>1, <1>6
  <2>3. Request(r, "RUN_TEST", r.next - rules)
    BY <1>2, <1>3, <2>2 DEF Request, ScenarioRequest
  <2> QED BY <2>1, <2>3, AskIsSound DEF GoesOn
<1>7. CASE r.next > rules /\ scenarios # 0 /\ ~(r.next <= rules + scenarios)
  <2>1. RunNext(r) = RunEnded(r)
    BY <1>1, <1>2, <1>3, <1>7 DEF RunNext
  <2>2. r.next - 1 - rules = scenarios
    BY <1>1, <1>2, <1>3, <1>7 DEF Running
  <2>3. PICK code \in {0, 1} : code = IF r.failures = 0 THEN 0 ELSE 1
    OBVIOUS
  <2>4. DOMAIN r.line.scenarios = 1 .. scenarios
    BY <1>1, <1>3, InstalledFacts
  <2>5. code = 0 => Promise(r.line) \subseteq r.deeds
    <3>1. r.line.cmd = "run"
      BY DEF Running
    <3>2. Promise(r.line) = {<<"passed", i>> : i \in DOMAIN r.line.scenarios}
      BY <3>1, PromiseFacts
    <3>3. ASSUME code = 0, NEW i \in 1 .. scenarios PROVE <<"passed", i>> \in r.deeds
      <4>1. r.failures = 0 /\ i \in 1 .. r.next - 1 - RuleCount(r.line)
        BY <1>2, <2>2, <2>3, <3>3
      <4> QED BY <4>1 DEF Running
    <3> QED BY <2>4, <3>2, <3>3
  <2>6. MayEnd(r, code)
    BY <2>3, <2>5 DEF MayEnd
  <2>7. RunEnded(r) = Finished(r, code)
    BY <2>3 DEF RunEnded
  <2> QED BY <2>1, <2>6, <2>7, CodesThereAre, FinishedIsSound DEF GoesOn
<1> QED BY <1>1, <1>4, <1>5, <1>6, <1>7

\* commandResultExport goes on: the next result, or the file.
LEMMA ExportNextIsSound ==
  ASSUME NEW r, GoesOn(r), Exporting(r)
  PROVE  Sound(ExportNext(r)) /\ Follows(r, ExportNext(r))
<1>1. r.next \in Nat \ {0} /\ r.listed \in Seq(Nat) /\ r.got \in Seq(RuleNames \cup Nat)
  BY DEF GoesOn, Base, Shape
<1>2. PICK n \in Nat : n = Len(r.listed)
  BY <1>1
<1>3. CASE r.next > n
  <2>1. PICK f : f = [r EXCEPT !.at = "saving"]
    OBVIOUS
  <2>2. /\ f.at = "saving" /\ DOMAIN f = Fields
        /\ \A field \in Fields \ {"at"} : f[field] = r[field]
    BY <2>1 DEF GoesOn, Base, Shape, Fields
  <2>3. Base(f) /\ HasServer(f) /\ SameLine(r, f)
    BY <2>2 DEF GoesOn, Base, Shape, Fields, Awaits, GaveUpRightly, HasServer, SameLine
  <2>4. StartsClean(f) /\ Asks(f) /\ Writes(f)
    BY <2>2 DEF StartsClean, Calm, Unstarted, Writes, Asks
  <2>5. Tells(f)
    BY <2>2 DEF Tells, Fields, GoesOn
  <2>6. Follows(r, f)
    BY <2>2, <2>3 DEF Follows, Fields
  <2>7. Len(r.got) = n /\ \A i \in 1 .. n : r.got[i] = r.listed[i]
    BY <1>1, <1>2, <1>3 DEF Exporting
  <2>8. r.got = r.listed
    BY <1>1, <1>2, <2>7
  <2>9. Saves(f)
    BY <2>2, <2>8 DEF Saves, FirstDone, Exporting, Fields
  <2>10. ExportNext(r) = f
    BY <1>2, <1>3, <2>1 DEF ExportNext
  <2> QED BY <2>3, <2>4, <2>5, <2>6, <2>9, <2>10 DEF Sound
<1>4. CASE ~(r.next > n)
  <2>1. ExportNext(r) = Ask(r, "GET_RESULT", r.listed[r.next])
    BY <1>2, <1>4 DEF ExportNext
  <2>2. Request(r, "GET_RESULT", r.listed[r.next])
    BY <1>1, <1>2, <1>4 DEF Request, ResultRequest
  <2> QED BY <2>1, <2>2, AskIsSound DEF GoesOn
<1> QED BY <1>3, <1>4

\* A command whose session is settled, if it needs one.
Settled(r) ==
  /\ GoesOn(r)
  /\ r.deeds = {} /\ r.gaveUp = None
  /\ r.next = 1 /\ r.failures = 0 /\ r.listed = <<>> /\ r.got = <<>> /\ r.want = Nothing
  /\ r.line.cmd \in DOMAIN Operation \cup {"run"}
  /\ r.line.cmd \notin {"ping", "info", "list", "create"} => r.sid \in Ids
  /\ r.line.cmd = "use" => r.sid = r.line.id

\* A command whose session is settled makes its first request, or finds its
\* arguments wanting.
LEMMA BeginIsSound ==
  ASSUME NEW r, Settled(r)
  PROVE  Sound(Begin(r)) /\ Follows(r, Begin(r))
<1>1. r.line \in AnyLine
  BY DEF Settled, GoesOn, Base, Shape
<1>2. CASE ~ArgumentsRead(r.line)
  <2>1. Begin(r) = Finished(r, 2)
    BY <1>2 DEF Begin
  <2>2. MayEnd(r, 2)
    BY DEF MayEnd, Settled
  <2> QED BY <2>1, <2>2, CodesThereAre, FinishedIsSound DEF Settled, GoesOn
<1>3. CASE ArgumentsRead(r.line) /\ r.line.cmd = "run"
  <2>1. Begin(r) = RunNext(r)
    BY <1>3 DEF Begin
  <2>2. RuleCount(r.line) \in Nat /\ Len(r.line.scenarios) \in Nat
    BY <1>1, InstalledFacts
  <2>3. r.sid \in Ids /\ r.next = 1 /\ r.failures = 0 /\ r.deeds = {}
    BY <1>3 DEF Settled
  <2>4. 1 .. r.next - 1 - RuleCount(r.line) = {}
    BY <2>2, <2>3
  <2>5. Running(r)
    BY <1>3, <2>2, <2>3, <2>4 DEF Running
  <2> QED BY <2>1, <2>5, RunNextIsSound DEF Settled
<1>4. CASE ArgumentsRead(r.line) /\ r.line.cmd # "run"
  <2>1. Begin(r) = Ask(r, Operation[r.line.cmd], r.line.rule)
    BY <1>4 DEF Begin
  <2>2. r.line.cmd \in DOMAIN Operation
    BY <1>4 DEF Settled
  <2>3. Operation[r.line.cmd] \notin Sessionless
          => r.line.cmd \notin {"ping", "info", "list", "create"}
    BY OperationFacts DEF Sessionless
  <2>4. Request(r, Operation[r.line.cmd], r.line.rule)
    BY <2>2, <2>3 DEF Request, FirstRequest, Settled
  <2> QED BY <2>1, <2>4, AskIsSound DEF Settled, GoesOn
<1> QED BY <1>2, <1>3, <1>4

\* The commands that options.ts knows.
LEMMA CommandFacts ==
  /\ Commands = {"ping", "info", "create", "list", "show", "use", "close", "ruleAdd",
                 "ruleList", "ruleUpdate", "ruleDelete", "resultList", "resultShow", "export",
                 "run", "raw", "scenarioShow", "misspelt"}
  /\ SessionUsers \subseteq DOMAIN Operation \cup {"run"}
BY OperationFacts DEF Commands, SessionUsers

\* A command line is taken up.
TakesUp(r) ==
  /\ GoesOn(r) /\ Clean(r)
  /\ r.deeds = {} /\ r.gaveUp = None
  /\ r.line.cmd \in Commands \ {"misspelt"}

\* Where it can be after that.
TakenUp(r, f) ==
  /\ SameLine(r, f)
  /\ f.at \in {"asked", "saving", "prompt", "ended", "raw", "resolving"}
  /\ ~f.recalled /\ f.next = 1 /\ f.want = Nothing

\* A process takes its session from the line.
LEMMA GivenSessionIsSound ==
  ASSUME NEW r, TakesUp(r), NEW i \in Ids,
         r.line.cmd \in SessionUsers \cup {"use"}, r.line.cmd = "use" => r.line.id = i
  PROVE  LET f == Begin([r EXCEPT !.sid = i]) IN Sound(f) /\ TakenUp(r, f)
<1>1. PICK g : g = [r EXCEPT !.sid = i]
  OBVIOUS
<1>2. /\ g.sid = i /\ DOMAIN g = Fields
      /\ \A field \in Fields \ {"sid"} : g[field] = r[field]
  BY <1>1 DEF TakesUp, GoesOn, Base, Shape, Fields
<1>3. GoesOn(g)
  BY <1>2 DEF TakesUp, GoesOn, Base, Shape, Fields, GaveUpRightly
<1>4. r.line.cmd \in DOMAIN Operation \cup {"run"}
  BY CommandFacts, OperationFacts
<1>5. Settled(g)
  BY <1>2, <1>3, <1>4 DEF Settled, TakesUp, Clean, Fields
<1>6. Sound(Begin(g)) /\ Follows(g, Begin(g))
  BY <1>5, BeginIsSound
<1>7. SameLine(r, g) /\ ~g.recalled /\ g.next = 1 /\ g.want = Nothing
  BY <1>2 DEF SameLine, Fields, TakesUp, Clean
<1>8. TakenUp(r, Begin(g))
  BY <1>6, <1>7 DEF TakenUp, Follows, SameLine, Clean
<1> QED BY <1>1, <1>6, <1>8

\* A process waits for a reply to a raw message, or for the file.
LEMMA WaitingIsSound ==
  ASSUME NEW r, TakesUp(r), NEW at,
         \/ at = "raw" /\ r.line.cmd = "raw"
         \/ at = "resolving" /\ r.line.cmd \in SessionUsers
  PROVE  LET f == [r EXCEPT !.at = at] IN Sound(f) /\ TakenUp(r, f)
<1>1. PICK f : f = [r EXCEPT !.at = at]
  OBVIOUS
<1>2. /\ f.at = at /\ DOMAIN f = Fields
      /\ \A field \in Fields \ {"at"} : f[field] = r[field]
  BY <1>1 DEF TakesUp, GoesOn, Base, Shape, Fields
<1>8. at \in {"raw", "resolving"} /\ at \in Awaits
  BY DEF Awaits
<1>9. Shape(f)
  BY <1>2, <1>8 DEF TakesUp, GoesOn, Base, Shape, Fields
<1>3. Base(f) /\ HasServer(f) /\ SameLine(r, f) /\ Clean(f)
  BY <1>2, <1>9 DEF TakesUp, GoesOn, Base, Fields, GaveUpRightly, HasServer, SameLine, Clean
<1>4. StartsClean(f)
  BY <1>2, <1>3 DEF StartsClean, Calm, Unstarted, TakesUp, Fields
<1>5. Asks(f) /\ Writes(f) /\ Saves(f)
  BY <1>2 DEF Asks, Writes, Saves
<1>6. Tells(f)
  BY <1>2 DEF Tells, TakesUp, GoesOn, Fields
<1>7. TakenUp(r, f)
  BY <1>2, <1>3 DEF TakenUp, Clean
<1> QED BY <1>1, <1>3, <1>4, <1>5, <1>6, <1>7 DEF Sound

\* A command line that is over as soon as it is looked at.
LEMMA AtOnceIsSound ==
  ASSUME NEW r, TakesUp(r), NEW code \in {0, 1, 2},
         code = 0 => r.line.cmd = "scenarioShow"
  PROVE  LET f == Finished(r, code) IN Sound(f) /\ TakenUp(r, f)
<1>1. r.line.cmd = "scenarioShow" => Promise(r.line) = {}
  BY PromiseFacts
<1>2. MayEnd(r, code)
  BY <1>1 DEF MayEnd, TakesUp
<1>3. Sound(Finished(r, code)) /\ Follows(r, Finished(r, code))
  BY <1>2, CodesThereAre, FinishedIsSound DEF TakesUp, GoesOn
<1>4. ASSUME NEW f, Follows(r, f) PROVE TakenUp(r, f)
  BY <1>4 DEF Follows, TakenUp, TakesUp, Clean
<1> QED BY <1>3, <1>4

\* dispatch(), whatever the command.
LEMMA DispatchIsSound ==
  ASSUME NEW r, TakesUp(r)
  PROVE  Sound(Dispatch(r)) /\ TakenUp(r, Dispatch(r))
<1>1. /\ r.line.cmd \in Commands \ {"misspelt"} /\ r.line \in AnyLine
      /\ r.line.id \in Ids \cup {None} /\ r.line.session \in Ids \cup {None}
  BY DEF TakesUp, GoesOn, Base, Shape, AnyLine
<1>2. CASE r.line.cmd \in {"ping", "info", "list", "create"}
  <2>1. Dispatch(r) = Begin(r)
    BY <1>2 DEF Dispatch
  <2>2. r.line.cmd \in DOMAIN Operation \cup {"run"}
    BY <1>2, OperationFacts
  <2>3. Settled(r)
    BY <1>2, <2>2 DEF Settled, TakesUp, Clean
  <2>4. Sound(Begin(r)) /\ Follows(r, Begin(r))
    BY <2>3, BeginIsSound
  <2>5. ASSUME NEW f, Follows(r, f) PROVE TakenUp(r, f)
    BY <2>5 DEF Follows, TakenUp, TakesUp, Clean
  <2> QED BY <2>1, <2>4, <2>5
<1>3. CASE r.line.cmd = "scenarioShow"
  <2>1. Dispatch(r) = Finished(r, ScenarioShown(r.line)) /\ ScenarioShown(r.line) \in {0, 1, 2}
    BY <1>3 DEF Dispatch, ScenarioShown
  <2> QED BY <1>3, <2>1, AtOnceIsSound
<1>4. CASE r.line.cmd = "raw"
  <2>1. \/ Dispatch(r) = Finished(r, 2)
        \/ Dispatch(r) = Finished(r, 1)
        \/ Dispatch(r) = [r EXCEPT !.at = "raw"]
    BY <1>4 DEF Dispatch
  <2> QED BY <1>4, <2>1, AtOnceIsSound, WaitingIsSound
<1>5. CASE r.line.cmd \in {"show", "use", "close"} /\ r.line.id # None
  <2>1. Dispatch(r) = Begin([r EXCEPT !.sid = r.line.id])
    BY <1>5 DEF Dispatch
  <2>2. r.line.id \in Ids /\ r.line.cmd \in SessionUsers \cup {"use"}
    BY <1>1, <1>5 DEF SessionUsers
  <2> QED BY <2>1, <2>2, GivenSessionIsSound
<1>6. CASE r.line.cmd = "use" /\ r.line.id = None
  <2>1. Dispatch(r) = Finished(r, 2)
    BY <1>6 DEF Dispatch
  <2> QED BY <2>1, <1>6, AtOnceIsSound
<1>7. CASE /\ r.line.cmd \in SessionUsers
           /\ ~(r.line.cmd \in {"show", "use", "close"} /\ r.line.id # None)
  <2>1. r.line.cmd \notin {"ping", "info", "list", "create", "scenarioShow", "raw", "use"}
    BY <1>7 DEF SessionUsers
  <2>2. CASE r.line.session # None
    <3>1. Dispatch(r) = Begin([r EXCEPT !.sid = r.line.session])
      BY <1>7, <2>1, <2>2 DEF Dispatch
    <3>2. r.line.session \in Ids
      BY <1>1, <2>2
    <3> QED BY <1>7, <2>1, <3>1, <3>2, GivenSessionIsSound
  <2>3. CASE r.line.session = None
    <3>1. Dispatch(r) = [r EXCEPT !.at = "resolving"]
      BY <1>7, <2>1, <2>3 DEF Dispatch
    <3> QED BY <1>7, <3>1, WaitingIsSound
  <2> QED BY <2>2, <2>3
<1>8. \/ r.line.cmd \in {"ping", "info", "list", "create"}
      \/ r.line.cmd \in {"scenarioShow", "raw", "use"}
      \/ r.line.cmd \in SessionUsers
  BY <1>1, CommandFacts DEF SessionUsers
<1> QED BY <1>2, <1>3, <1>4, <1>5, <1>6, <1>7, <1>8

-----------------------------------------------------------------------------
(* Replies, and their loss.                                                 *)

\* A process whose request the server has answered; what succeeded is a deed.
Replied(r, status) ==
  /\ GoesOn(r) /\ Request(r, r.op, r.arg) /\ r.at = "asked"
  /\ status = 200 /\ r.op # "RUN_TEST" => <<r.op, r.arg>> \in r.deeds

Statuses == {200, 404, 405, 409, 422, 503}

\* A deed more.
LEMMA DidFacts ==
  ASSUME NEW r, Shape(r), NEW what, NEW item, NEW f, f = Did(r, what, item)
  PROVE  /\ DOMAIN f = Fields /\ f.deeds = r.deeds \cup {<<what, item>>}
         /\ \A field \in Fields \ {"deeds"} : f[field] = r[field]
         /\ Shape(f) /\ SameLine(r, f) /\ (GaveUpRightly(r) => GaveUpRightly(f))
<1>1. /\ DOMAIN f = Fields /\ f.deeds = r.deeds \cup {<<what, item>>}
      /\ \A field \in Fields \ {"deeds"} : f[field] = r[field]
  BY DEF Did, Shape, Fields
<1> QED BY <1>1 DEF Shape, SameLine, Fields, GaveUpRightly

\* A successful request is still what it was.
LEMMA ServedRequest ==
  ASSUME NEW r, GoesOn(r), Request(r, r.op, r.arg), r.at = "asked", r.op # "RUN_TEST",
         NEW f, f = Did(r, r.op, r.arg)
  PROVE  Replied(f, 200) /\ SameLine(r, f)
         /\ \A field \in Fields \ {"deeds"} : f[field] = r[field]
<1>1. /\ DOMAIN f = Fields /\ f.deeds = r.deeds \cup {<<r.op, r.arg>>}
      /\ \A field \in Fields \ {"deeds"} : f[field] = r[field]
      /\ Shape(f) /\ SameLine(r, f) /\ GaveUpRightly(f)
  BY DidFacts DEF GoesOn, Base
<1>2. GoesOn(f)
  BY <1>1 DEF GoesOn, Base, Fields
<1>3. /\ f.op = r.op /\ f.arg = r.arg /\ f.line = r.line /\ f.next = r.next /\ f.sid = r.sid
      /\ f.got = r.got /\ f.listed = r.listed /\ f.failures = r.failures
  BY <1>1 DEF Fields
<1>4. ASSUME RuleRequest(r, r.op, r.arg) PROVE RuleRequest(f, f.op, f.arg)
  <2>1. r.line \in AnyLine /\ r.next \in Nat \ {0}
    BY DEF GoesOn, Base, Shape
  <2>2. r.arg \in ToSet(r.line.rules) /\ r.op = "ADD_RULE"
    BY <1>4, <2>1, InstalledFacts DEF RuleRequest
  <2>3. <<r.op, r.arg>> \in RuleDeeds(r.line)
    BY <2>2 DEF RuleDeeds
  <2>4. Running(f)
    BY <1>1, <1>3, <1>4, <2>3 DEF RuleRequest, Running
  <2> QED BY <1>3, <1>4, <2>4 DEF RuleRequest
<1>5. ~ScenarioRequest(r, r.op, r.arg)
  BY DEF ScenarioRequest
<1>6. ASSUME ResultRequest(r, r.op, r.arg) PROVE ResultRequest(f, f.op, f.arg)
  BY <1>1, <1>3, <1>6 DEF ResultRequest, Exporting, FirstDone
<1>7. ASSUME FirstRequest(r, r.op, r.arg) PROVE FirstRequest(f, f.op, f.arg)
  BY <1>1, <1>3, <1>7 DEF FirstRequest
<1>8. Request(f, f.op, f.arg)
  BY <1>4, <1>5, <1>6, <1>7 DEF Request
<1>9. f.at = "asked" /\ <<f.op, f.arg>> \in f.deeds
  BY <1>1, <1>3 DEF Fields
<1> QED BY <1>1, <1>2, <1>8, <1>9 DEF Replied

\* Where a reply takes a process.
AfterReply(r, f, status, created) ==
  /\ SameLine(r, f)
  /\ f.at \in {"asked", "saving", "prompt", "ended", "opening", "recalling"}
  /\ f.recalled => r.recalled /\ f.sid = r.sid
  /\ f.at = "asked" => f.sid = r.sid
  /\ f.at = "asked" /\ f.line.cmd = "run" =>
       f.next = r.next + 1 /\ (r.op = "ADD_RULE" => status \in {200, 409})
  /\ f.at = "opening" => /\ f.want.server = r.server /\ status = 200 /\ f.line.cmd # "close"
                         /\ \/ r.op = "CREATE_SESSION" /\ f.want.session = created
                            \/ r.op # "CREATE_SESSION" /\ f.want.session = r.sid
  /\ f.at # "opening" => f.want \in {Nothing, r.want}

\* A command that fails.
LEMMA FailedIsSound ==
  ASSUME NEW r, Base(r), NEW status, NEW created
  PROVE  LET f == Finished(r, 1)
         IN Sound(f) /\ Follows(r, f) /\ AfterReply(r, f, status, created)
<1>1. PICK f : f = Finished(r, 1)
  OBVIOUS
<1>2. Sound(f) /\ Follows(r, f)
  BY <1>1, CodesThereAre, FinishedIsSound DEF MayEnd
<1>3. f.at \in {"prompt", "ended"}
  BY <1>1, CodesThereAre, FinishedFacts DEF Base
<1>4. AfterReply(r, f, status, created)
  BY <1>2, <1>3 DEF Follows, AfterReply, Clean
<1> QED BY <1>1, <1>2, <1>4

\* A rule of a bundle: installed, there already, or refused.
LEMMA AfterRuleIsSound ==
  ASSUME NEW r, NEW status \in Statuses, NEW created, Replied(r, status),
         RuleRequest(r, r.op, r.arg)
  PROVE  LET f == AfterRule(r, status) IN Sound(f) /\ AfterReply(r, f, status, created)
<1>1. r.next \in Nat \ {0} /\ r.failures \in Nat /\ RuleCount(r.line) \in Nat
      /\ Len(r.line.scenarios) \in Nat
  BY InstalledFacts DEF Replied, GoesOn, Base, Shape
<1>2. CASE status \in {200, 409}
  <2>1. PICK g : g = [r EXCEPT !.next = @ + 1]
    OBVIOUS
  <2>2. /\ g.next = r.next + 1 /\ DOMAIN g = Fields
        /\ \A field \in Fields \ {"next"} : g[field] = r[field]
    BY <2>1 DEF Replied, GoesOn, Base, Shape, Fields
  <2>3. GoesOn(g) /\ SameLine(r, g)
    BY <1>1, <2>2 DEF Replied, GoesOn, Base, Shape, Fields, GaveUpRightly, SameLine
  <2>4. Running(g)
    <3>1. /\ r.next <= RuleCount(r.line) /\ r.deeds \subseteq RuleDeeds(r.line) /\ r.failures = 0
          /\ r.line.cmd = "run" /\ r.sid \in Ids
      BY <1>1 DEF RuleRequest, Running
    <3>2. 1 .. g.next - 1 - RuleCount(r.line) = {}
      BY <1>1, <2>2, <3>1
    <3>3. /\ g.line = r.line /\ g.deeds = r.deeds /\ g.failures = r.failures /\ g.sid = r.sid
      BY <2>2 DEF Fields
    <3> QED BY <1>1, <2>2, <3>1, <3>2, <3>3 DEF Running
  <2>5. PICK f : f = RunNext(g)
    OBVIOUS
  <2>6. Sound(f) /\ Follows(g, f)
    BY <2>3, <2>4, <2>5, RunNextIsSound
  <2>7. AfterRule(r, status) = f
    BY <1>2, <2>1, <2>5 DEF AfterRule, Success
  <2>8. g.sid = r.sid /\ g.recalled = r.recalled /\ g.want = r.want
    BY <2>2 DEF Fields
  <2>9. SameLine(r, f)
    BY <2>3, <2>6 DEF Follows, SameLine
  <2>10. AfterReply(r, f, status, created)
    BY <1>2, <2>2, <2>6, <2>8, <2>9 DEF AfterReply, Follows, Clean
  <2> QED BY <2>6, <2>7, <2>10
<1>3. CASE status \notin {200, 409}
  <2>1. AfterRule(r, status) = Finished(r, 1)
    BY <1>3 DEF AfterRule, Success, Statuses
  <2> QED BY <2>1, FailedIsSound DEF Replied, GoesOn
<1> QED BY <1>2, <1>3

\* A run whose scenario is over: what passed before has passed.
Concludes(r) ==
  /\ r.line.cmd = "run" /\ r.sid \in Ids /\ r.op = "RUN_TEST"
  /\ r.arg \in 1 .. Len(r.line.scenarios) /\ r.next = RuleCount(r.line) + r.arg
  /\ r.failures = 0 =>
       \A i \in 1 .. r.next - 1 - RuleCount(r.line) : <<"passed", i>> \in r.deeds

\* The end of a scenario; what passed is a deed.
LEMMA AfterScenarioIsSound ==
  ASSUME NEW r, GoesOn(r), Concludes(r),
         NEW outcome, outcome = "passed" => <<"passed", r.arg>> \in r.deeds,
         NEW status, NEW created
  PROVE  LET f == AfterScenario(r, outcome)
         IN Sound(f) /\ AfterReply(r, f, status, created)
<1>1. r.next \in Nat \ {0} /\ r.failures \in Nat /\ RuleCount(r.line) \in Nat
      /\ Len(r.line.scenarios) \in Nat
  BY InstalledFacts DEF GoesOn, Base, Shape
<1>2. PICK more \in {0, 1} : more = IF outcome = "passed" THEN 0 ELSE 1
  OBVIOUS
<1>3. PICK g : g = [r EXCEPT !.next = @ + 1, !.failures = @ + more]
  OBVIOUS
<1>4. /\ g.next = r.next + 1 /\ g.failures = r.failures + more /\ DOMAIN g = Fields
      /\ \A field \in Fields \ {"next", "failures"} : g[field] = r[field]
  BY <1>3 DEF GoesOn, Base, Shape, Fields
<1>5. GoesOn(g) /\ SameLine(r, g)
  BY <1>1, <1>4 DEF GoesOn, Base, Shape, Fields, GaveUpRightly, SameLine
<1>6. Running(g)
  <2>1. /\ r.line.cmd = "run" /\ r.sid \in Ids /\ r.arg \in 1 .. Len(r.line.scenarios)
        /\ r.next = RuleCount(r.line) + r.arg
        /\ r.failures = 0 =>
             \A i \in 1 .. r.next - 1 - RuleCount(r.line) : <<"passed", i>> \in r.deeds
    BY DEF Concludes
  <2>2. g.line = r.line /\ g.deeds = r.deeds /\ g.sid = r.sid
    BY <1>4 DEF Fields
  <2>3. ASSUME g.failures = 0, NEW i \in 1 .. g.next - 1 - RuleCount(r.line)
        PROVE  <<"passed", i>> \in r.deeds
    <3>1. r.failures = 0 /\ outcome = "passed"
      BY <1>1, <1>2, <1>4, <2>3
    <3>2. i = r.arg \/ i \in 1 .. r.next - 1 - RuleCount(r.line)
      BY <1>1, <1>4, <2>1, <2>3
    <3> QED BY <2>1, <3>1, <3>2
  <2>4. ~(g.next <= RuleCount(r.line) + 1)
        /\ g.next - 1 <= RuleCount(r.line) + Len(r.line.scenarios)
    BY <1>1, <1>4, <2>1
  <2> QED BY <2>1, <2>2, <2>3, <2>4 DEF Running
<1>7. PICK f : f = RunNext(g)
  OBVIOUS
<1>8. Sound(f) /\ Follows(g, f)
  BY <1>5, <1>6, <1>7, RunNextIsSound
<1>9. AfterScenario(r, outcome) = f
  BY <1>2, <1>3, <1>7 DEF AfterScenario
<1>10. g.sid = r.sid /\ g.recalled = r.recalled /\ g.want = r.want
  BY <1>4 DEF Fields
<1>11. SameLine(r, f)
  BY <1>5, <1>8 DEF Follows, SameLine
<1>12. r.op # "ADD_RULE"
  BY DEF Concludes
<1>13. AfterReply(r, f, status, created)
  BY <1>4, <1>8, <1>10, <1>11, <1>12 DEF AfterReply, Follows, Clean
<1> QED BY <1>8, <1>9, <1>13

\* A result of an export: fetched, or gone.
LEMMA AfterResultIsSound ==
  ASSUME NEW r, NEW status \in Statuses, NEW created, Replied(r, status),
         ResultRequest(r, r.op, r.arg)
  PROVE  LET f == AfterResult(r, status) IN Sound(f) /\ AfterReply(r, f, status, created)
<1>1. /\ r.next \in Nat \ {0} /\ r.listed \in Seq(Nat) /\ r.got \in Seq(RuleNames \cup Nat)
      /\ r.line.cmd = "export" /\ r.next <= Len(r.listed) /\ r.arg = r.listed[r.next]
      /\ Len(r.got) = r.next - 1 /\ \A i \in 1 .. Len(r.got) : r.got[i] = r.listed[i]
      /\ r.sid \in Ids /\ FirstDone(r)
  BY DEF Replied, GoesOn, Base, Shape, ResultRequest, Exporting
<1>2. CASE status = 200
  <2>1. PICK g : g = [r EXCEPT !.next = @ + 1, !.got = Append(@, r.arg)]
    OBVIOUS
  <2>2. /\ g.next = r.next + 1 /\ g.got = Append(r.got, r.arg) /\ DOMAIN g = Fields
        /\ \A field \in Fields \ {"next", "got"} : g[field] = r[field]
    BY <2>1 DEF Replied, GoesOn, Base, Shape, Fields
  <2>3. r.arg \in RuleNames \cup Nat
    BY <1>1
  <2>13. PICK n \in Nat : n = Len(r.got)
    BY <1>1
  <2>4. /\ g.got \in Seq(RuleNames \cup Nat) /\ Len(g.got) = n + 1
        /\ \A i \in 1 .. n : g.got[i] = r.got[i]
        /\ g.got[n + 1] = r.arg
    BY <1>1, <2>2, <2>3, <2>13
  <2>14. g.next \in Nat \ {0}
    BY <1>1, <2>2
  <2>15. Shape(g) /\ SameLine(r, g)
    BY <2>2, <2>4, <2>14 DEF Replied, GoesOn, Base, Shape, Fields, SameLine
  <2>5. GoesOn(g) /\ SameLine(r, g)
    BY <2>2, <2>15 DEF Replied, GoesOn, Base, Fields, GaveUpRightly, SameLine
  <2>6. Exporting(g)
    <3>1. g.line = r.line /\ g.sid = r.sid /\ g.deeds = r.deeds /\ g.listed = r.listed
      BY <2>2 DEF Fields
    <3>2. ASSUME NEW i \in 1 .. Len(g.got) PROVE g.got[i] = g.listed[i]
      <4>1. i \in 1 .. n \/ i = n + 1
        BY <2>4, <2>13
      <4>2. n + 1 = r.next
        BY <1>1, <2>13
      <4> QED BY <1>1, <2>4, <2>13, <3>1, <4>1, <4>2
    <3>3. Len(g.got) = g.next - 1 /\ g.next <= Len(g.listed) + 1
      <4>1. PICK m \in Nat : m = Len(r.listed)
        BY <1>1
      <4> QED BY <1>1, <2>2, <2>4, <2>13, <3>1, <4>1
    <3> QED BY <1>1, <3>1, <3>2, <3>3 DEF Exporting, FirstDone
  <2>7. PICK f : f = ExportNext(g)
    OBVIOUS
  <2>8. Sound(f) /\ Follows(g, f)
    BY <2>5, <2>6, <2>7, ExportNextIsSound
  <2>9. AfterResult(r, status) = f
    BY <1>2, <2>1, <2>7 DEF AfterResult, Success
  <2>10. g.sid = r.sid /\ g.recalled = r.recalled /\ g.want = r.want
    BY <2>2 DEF Fields
  <2>11. SameLine(r, f) /\ f.line.cmd # "run"
    BY <1>1, <2>5, <2>8 DEF Follows, SameLine
  <2>12. AfterReply(r, f, status, created)
    BY <2>8, <2>10, <2>11 DEF AfterReply, Follows, Clean
  <2> QED BY <2>8, <2>9, <2>12
<1>3. CASE status # 200
  <2>1. AfterResult(r, status) = Finished(r, 1)
    BY <1>3 DEF AfterResult, Success, Statuses
  <2> QED BY <2>1, FailedIsSound DEF Replied, GoesOn
<1> QED BY <1>2, <1>3

\* commandSessionCreate, commandSessionUse and commandSessionClose, and every command that
\* is over with the reply to its one request.
LEMMA SessionReplyIsSound ==
  ASSUME NEW r, Replied(r, 200), FirstRequest(r, r.op, r.arg), r.line.cmd # "export",
         r.server \in DOMAIN store,
         r.line.cmd = "create" => store[r.server].count + 1 \in Ids,
         r.line.cmd \in {"create", "use", "close"} \/ MayEnd(r, 0)
  PROVE  LET f == SessionReply(r)
         IN Sound(f) /\ AfterReply(r, f, 200, store[r.server].count + 1)
<1>1. PICK created : created = store[r.server].count + 1
  OBVIOUS
<1>2. /\ r.line.cmd \in DOMAIN Operation /\ r.op = Operation[r.line.cmd] /\ r.arg = r.line.rule
      /\ r.sid \in Ids \cup {None} /\ r.line.cmd = "use" => r.sid = r.line.id
      /\ r.op \notin Sessionless => r.sid \in Ids
  BY DEF FirstRequest, Replied, GoesOn, Base, Shape
<1>3. r.op # "RUN_TEST"
  BY <1>2, OperationFacts
<1>4. FirstDone(r)
  BY <1>2, <1>3 DEF FirstDone, Replied
<1>5. ASSUME NEW s \in Ids, r.line.cmd \in {"create", "use"}, r.line.cmd = "use" => s = r.sid,
             r.line.cmd = "create" => s = created,
             NEW f, f = Remember(r, s)
      PROVE  Sound(f) /\ AfterReply(r, f, 200, created)
  <2>1. PICK w : w = [session |-> s, server |-> r.server]
    OBVIOUS
  <2>2. /\ f.at = "opening" /\ f.want = w /\ DOMAIN f = Fields
        /\ \A field \in Fields \ {"at", "want"} : f[field] = r[field]
    BY <1>5, <2>1 DEF Remember, Replied, GoesOn, Base, Shape, Fields
  <2>3. w \in State /\ w.server = r.server /\ w.session = s /\ r.server \in Servers
    BY <2>1 DEF State, Replied, GoesOn
  <2>4. Shape(f)
    BY <2>2, <2>3 DEF Replied, GoesOn, Base, Shape, Fields, Awaits
  <2>5. Base(f) /\ HasServer(f) /\ SameLine(r, f)
    BY <2>2, <2>4 DEF Replied, GoesOn, Base, Fields, GaveUpRightly, HasServer, SameLine
  <2>6. StartsClean(f) /\ Asks(f) /\ Saves(f)
    BY <2>2 DEF StartsClean, Calm, Unstarted, Asks, Saves
  <2>7. Writes(f)
    BY <1>2, <1>4, <1>5, <2>2, <2>3 DEF Writes, FirstDone, Fields
  <2>8. Tells(f)
    BY <2>2 DEF Tells, Fields, Replied, GoesOn
  <2>9. AfterReply(r, f, 200, created)
    <3>1. /\ r.line.cmd = "create" => r.op = "CREATE_SESSION"
          /\ r.line.cmd = "use" => r.op # "CREATE_SESSION"
      BY <1>2, OperationFacts
    <3>2. f.recalled = r.recalled /\ f.sid = r.sid /\ f.line = r.line
      BY <2>2 DEF Fields
    <3> QED BY <1>5, <2>2, <2>3, <2>5, <3>1, <3>2 DEF AfterReply
  <2> QED BY <2>4, <2>5, <2>6, <2>7, <2>8, <2>9 DEF Sound
<1>6. CASE r.line.cmd = "create"
  <2>1. SessionReply(r) = Remember(r, created)
    BY <1>1, <1>6 DEF SessionReply
  <2>2. created \in Ids
    BY <1>1, <1>6
  <2> QED BY <1>1, <1>5, <1>6, <2>1, <2>2
<1>7. CASE r.line.cmd = "use"
  <2>1. SessionReply(r) = Remember(r, r.sid)
    BY <1>7 DEF SessionReply
  <2>2. r.sid \in Ids
    BY <1>2, <1>7, OperationFacts DEF Sessionless
  <2> QED BY <1>1, <1>5, <1>7, <2>1, <2>2
<1>8. CASE r.line.cmd = "close"
  <2>1. PICK f : f = [r EXCEPT !.at = "recalling"]
    OBVIOUS
  <2>2. SessionReply(r) = f
    BY <1>8, <2>1 DEF SessionReply
  <2>3. /\ f.at = "recalling" /\ DOMAIN f = Fields
        /\ \A field \in Fields \ {"at"} : f[field] = r[field]
    BY <2>1 DEF Replied, GoesOn, Base, Shape, Fields
  <2>4. Base(f) /\ HasServer(f) /\ SameLine(r, f)
    BY <2>3 DEF Replied, GoesOn, Base, Shape, Fields, Awaits, GaveUpRightly, HasServer, SameLine
  <2>5. StartsClean(f) /\ Asks(f) /\ Saves(f)
    BY <2>3 DEF StartsClean, Calm, Unstarted, Asks, Saves
  <2>6. Writes(f)
    BY <1>4, <1>8, <2>3 DEF Writes, FirstDone, Fields
  <2>7. Tells(f)
    BY <2>3 DEF Tells, Fields, Replied, GoesOn
  <2>8. AfterReply(r, f, 200, created)
    BY <2>3, <2>4 DEF AfterReply, Fields
  <2> QED BY <1>1, <2>2, <2>4, <2>5, <2>6, <2>7, <2>8 DEF Sound
<1>9. CASE r.line.cmd \notin {"create", "use", "close"}
  <2>1. SessionReply(r) = Finished(r, 0)
    BY <1>9 DEF SessionReply
  <2>2. PICK f : f = Finished(r, 0)
    OBVIOUS
  <2>3. Sound(f) /\ Follows(r, f) /\ f.at \in {"prompt", "ended"}
    BY <1>9, <2>2, CodesThereAre, FinishedIsSound, FinishedFacts DEF Replied, GoesOn, Base
  <2>4. AfterReply(r, f, 200, created)
    BY <2>3 DEF Follows, AfterReply, Clean
  <2> QED BY <1>1, <2>1, <2>2, <2>3, <2>4
<1> QED BY <1>6, <1>7, <1>8, <1>9

\* A session has its results in a sequence.
Result == [number : Nat, passed : BOOLEAN]

ResultsAreSequences(st) ==
  \A sv \in Servers, i \in Ids : st[sv].session[i].results \in Seq(Result)

\* The reply to any request.
LEMMA ReplyIsSound ==
  ASSUME NEW r, NEW status \in Statuses, Replied(r, status),
         ResultsAreSequences(store), r.server \in DOMAIN store,
         r.op = "CREATE_SESSION" /\ status = 200 => store[r.server].count + 1 \in Ids,
         NEW f, f = Reply(r, status)
  PROVE  Sound(f) /\ AfterReply(r, f, status, store[r.server].count + 1)
<1> DEFINE created == store[r.server].count + 1
<1>1. GoesOn(r) /\ Base(r) /\ Request(r, r.op, r.arg)
  BY DEF Replied, GoesOn
<1>2. CASE RuleRequest(r, r.op, r.arg)
  <2>1. f = AfterRule(r, status)
    BY <1>2 DEF Reply, RuleRequest, Running
  <2> QED BY <1>2, <2>1, AfterRuleIsSound
<1>3. CASE ScenarioRequest(r, r.op, r.arg)
  <2>1. f = Finished(r, 1) \/ f = AfterScenario(r, "refused")
    BY <1>3 DEF Reply, ScenarioRequest, Running
  <2>2. Concludes(r)
    BY <1>3 DEF Concludes, ScenarioRequest, Running
  <2>3. CASE f = Finished(r, 1)
    BY <1>1, <2>3, FailedIsSound
  <2>4. CASE f = AfterScenario(r, "refused")
    BY <1>1, <2>2, <2>4, AfterScenarioIsSound
  <2> QED BY <2>1, <2>3, <2>4
<1>4. CASE ResultRequest(r, r.op, r.arg)
  <2>1. f = AfterResult(r, status)
    BY <1>4 DEF Reply, ResultRequest, Exporting
  <2> QED BY <1>4, <2>1, AfterResultIsSound
<1>5. CASE FirstRequest(r, r.op, r.arg)
  <2>1. /\ r.line.cmd \in DOMAIN Operation /\ r.op = Operation[r.line.cmd]
        /\ r.arg = r.line.rule /\ r.next = 1 /\ r.got = <<>>
        /\ r.op \notin Sessionless => r.sid \in Ids
    BY <1>5 DEF FirstRequest
  <2>2. r.line.cmd # "run" /\ r.op # "RUN_TEST"
        /\ ~(r.op = "GET_RESULT" /\ r.line.cmd = "export")
    BY <2>1, OperationFacts
  <2>3. CASE status # 200
    <3>1. f = Finished(r, 1)
      BY <2>2, <2>3 DEF Reply, Success, Statuses
    <3> QED BY <1>1, <3>1, FailedIsSound
  <2>4. CASE status = 200 /\ r.line.cmd = "export"
    <3>1. r.sid \in Ids /\ r.server \in Servers
      BY <1>1, <2>1, <2>4, OperationFacts DEF Sessionless, GoesOn
    <3>2. PICK results \in Seq(Result) : results = Session(r).results
      BY <3>1 DEF ResultsAreSequences, Session
    <3>3. PICK n \in Nat : n = Len(results) /\ DOMAIN results = 1 .. n
      OBVIOUS
    <3>4. PICK listed : listed = [i \in DOMAIN results |-> results[i].number]
      OBVIOUS
    <3>15. ASSUME NEW i \in 1 .. n PROVE results[i].number \in Nat
      <4>1. results[i] \in Result
        BY <3>2, <3>3
      <4> QED BY <4>1 DEF Result
    <3>16. listed \in [1 .. n -> Nat]
      BY <3>3, <3>4, <3>15
    <3>5. listed \in Seq(Nat)
      BY <3>16
    <3>6. PICK g : g = [r EXCEPT !.listed = listed]
      OBVIOUS
    <3>7. f = ExportNext(g)
      BY <2>2, <2>4, <3>2, <3>4, <3>6 DEF Reply, Success
    <3>8. /\ g.listed = listed /\ DOMAIN g = Fields
          /\ \A field \in Fields \ {"listed"} : g[field] = r[field]
      BY <1>1, <3>6 DEF Base, Shape, Fields
    <3>9. GoesOn(g) /\ SameLine(r, g)
      BY <1>1, <3>5, <3>8 DEF GoesOn, Base, Shape, Fields, GaveUpRightly, SameLine
    <3>10. Exporting(g)
      <4>1. <<r.op, r.arg>> \in r.deeds
        BY <2>2, <2>4 DEF Replied
      <4>2. /\ g.line = r.line /\ g.sid = r.sid /\ g.deeds = r.deeds /\ g.next = 1 /\ g.got = <<>>
        BY <2>1, <3>8 DEF Fields
      <4>3. g.next <= Len(g.listed) + 1 /\ Len(g.got) = g.next - 1 /\ 1 .. Len(g.got) = {}
        BY <3>5, <3>8, <4>2
      <4> QED BY <2>1, <2>4, <3>1, <4>1, <4>2, <4>3 DEF Exporting, FirstDone
    <3>11. Sound(f) /\ Follows(g, f)
      BY <3>7, <3>9, <3>10, ExportNextIsSound
    <3>12. SameLine(r, f) /\ f.line.cmd # "run"
      BY <2>4, <3>9, <3>11 DEF Follows, SameLine
    <3>13. g.sid = r.sid /\ g.recalled = r.recalled /\ g.want = r.want
      BY <3>8 DEF Fields
    <3>14. AfterReply(r, f, status, created)
      BY <3>11, <3>12, <3>13 DEF AfterReply, Follows, Clean
    <3> QED BY <3>11, <3>14
  <2>5. ASSUME status = 200, r.line.cmd # "export" PROVE MayEnd(r, 0) \/ r.line.cmd = "use"
    <3>1. <<Operation[r.line.cmd], r.line.rule>> \in r.deeds
      BY <2>1, <2>2, <2>5 DEF Replied
    <3>2. r.line.cmd # "use" => Promise(r.line) = {<<Operation[r.line.cmd], r.line.rule>>}
      BY <2>1, <2>5, PromiseFacts
    <3> QED BY <3>1, <3>2 DEF MayEnd
  <2>6. CASE status = 200 /\ r.line.cmd = "resultShow"
    <3>1. PICK code \in {0, 1} : f = Finished(r, code)
      BY <2>2, <2>6 DEF Reply, ResultShown, Success
    <3>2. MayEnd(r, code)
      BY <2>5, <2>6 DEF MayEnd
    <3>5. code \in Codes /\ Shape(r)
      BY <1>1, CodesThereAre DEF Base
    <3>6. Sound(f) /\ Follows(r, f)
      BY <1>1, <3>1, <3>2, <3>5, FinishedIsSound
    <3>3. Sound(f) /\ Follows(r, f) /\ f.at \in {"prompt", "ended"}
      BY <3>1, <3>5, <3>6, FinishedFacts
    <3>4. AfterReply(r, f, status, created)
      BY <3>3 DEF Follows, AfterReply, Clean
    <3> QED BY <3>3, <3>4
  <2>7. CASE status = 200 /\ r.line.cmd \notin {"export", "resultShow"}
    <3>1. f = SessionReply(r)
      BY <2>2, <2>7 DEF Reply, Success
    <3>2. r.line.cmd = "create" => store[r.server].count + 1 \in Ids
      BY <2>1, <2>7, OperationFacts
    <3>3. r.line.cmd \in {"create", "use", "close"} \/ MayEnd(r, 0)
      BY <2>5, <2>7
    <3> QED BY <1>5, <2>7, <3>1, <3>2, <3>3, SessionReplyIsSound
  <2> QED BY <2>3, <2>4, <2>6, <2>7
<1> QED BY <1>1, <1>2, <1>3, <1>4, <1>5 DEF Request

\* A process that loses its connection.
CutOff(r, f) ==
  /\ SameLine(r, f)
  /\ \/ /\ r.at \in {"asked", "running"}
        /\ f.at \in {"prompt", "ended"} /\ Clean(f)
     \/ /\ r.at \notin {"asked", "running"}
        /\ f.at = r.at /\ f.sid = r.sid /\ f.recalled = r.recalled /\ f.want = r.want

\* The connection of a process is lost, whatever it is doing.
LEMMA CutIsSound ==
  ASSUME NEW r, Sound(r)
  PROVE  Sound(Cut(r)) /\ CutOff(r, Cut(r))
<1>1. PICK lost : lost = [r EXCEPT !.connected = FALSE, !.told = r.watching]
  OBVIOUS
<1>2. /\ lost.connected = FALSE /\ DOMAIN lost = Fields
      /\ \A field \in Fields \ {"connected", "told"} : lost[field] = r[field]
  BY <1>1 DEF Sound, Base, Shape, Fields
<1>3. Base(lost) /\ SameLine(r, lost)
  BY <1>2 DEF Sound, Base, Shape, Fields, GaveUpRightly, SameLine
<1>4. CASE r.at \in {"asked", "running"}
  <2>1. Cut(r) = Finished(lost, 1)
    BY <1>1, <1>4 DEF Cut
  <2>2. PICK f : f = Finished(lost, 1)
    OBVIOUS
  <2>3. Sound(f) /\ Follows(lost, f)
    BY <1>3, <2>2, CodesThereAre, FinishedIsSound DEF MayEnd
  <2>4. f.at \in {"prompt", "ended"} /\ Clean(f)
    BY <1>3, <2>2, CodesThereAre, FinishedFacts DEF Base
  <2>5. SameLine(r, f)
    BY <1>3, <2>3 DEF Follows, SameLine
  <2> QED BY <1>4, <2>1, <2>2, <2>3, <2>4, <2>5 DEF CutOff
<1>5. CASE r.at \notin {"asked", "running"}
  <2>1. Cut(r) = lost
    BY <1>1, <1>5 DEF Cut
  <2>2. HasServer(lost) /\ Asks(lost)
    BY <1>2, <1>5 DEF Sound, HasServer, Asks, Fields
  <2>3. StartsClean(lost)
    BY <1>2 DEF Sound, StartsClean, Clean, Fields
  <2>4. Writes(lost) /\ Saves(lost)
    BY <1>2 DEF Sound, Writes, Saves, FirstDone, Fields
  <2>5. Tells(lost)
    BY <1>2 DEF Sound, Tells, Fields
  <2>6. CutOff(r, lost)
    BY <1>2, <1>3, <1>5 DEF CutOff, Fields
  <2> QED BY <1>3, <2>1, <2>2, <2>3, <2>4, <2>5, <2>6 DEF Sound
<1> QED BY <1>4, <1>5

\* Cutting off a process that has had an answer it does not hear.
LEMMA CutServedIsSound ==
  ASSUME NEW r, Base(r), r.at = "asked"
  PROVE  Sound(Cut(r)) /\ CutOff(r, Cut(r))
<1>1. PICK lost : lost = [r EXCEPT !.connected = FALSE, !.told = r.watching]
  OBVIOUS
<1>2. /\ lost.connected = FALSE /\ DOMAIN lost = Fields
      /\ \A field \in Fields \ {"connected", "told"} : lost[field] = r[field]
  BY <1>1 DEF Base, Shape, Fields
<1>3. Base(lost) /\ SameLine(r, lost)
  BY <1>2 DEF Base, Shape, Fields, GaveUpRightly, SameLine
<1>4. PICK f : f = Finished(lost, 1)
  OBVIOUS
<1>5. Cut(r) = f
  BY <1>1, <1>4 DEF Cut
<1>6. Sound(f) /\ Follows(lost, f)
  BY <1>3, <1>4, CodesThereAre, FinishedIsSound DEF MayEnd
<1>7. f.at \in {"prompt", "ended"} /\ Clean(f)
  BY <1>3, <1>4, CodesThereAre, FinishedFacts DEF Base
<1>8. SameLine(r, f)
  BY <1>3, <1>6 DEF Follows, SameLine
<1> QED BY <1>5, <1>6, <1>7, <1>8 DEF CutOff

-----------------------------------------------------------------------------
(* What holds between a process and everything else.                        *)

\* A write is under way just for a process that fills the file.
FillsItsOwn(p, r, wr) == (r.at = "filling") = (wr[p] # NoWrite)

\* What the file says, or will say, is of a session that its server has answered for.
Remembers(state, kn) ==
  /\ state \in State
  /\ state.session # None => <<state.session, state.server>> \in kn
  /\ state = Nothing \/ state.server \in Servers

Knows(r, kn) ==
  /\ r.recalled => <<r.sid, r.server>> \in kn
  /\ r.want.session # None => <<r.want.session, r.want.server>> \in kn

\* A close that nobody's write came between.
ForgetsRightly(p, r, fl, tc) ==
  r.at \in {"forgetting", "opening"} /\ r.line.cmd = "close" /\ p \notin tc => fl.session = r.sid

\* A rule is in its session, or one the server took for it, or it has been deleted.
Stands(rule, sv, i, st, del) ==
  \E other \in Rivals(rule) : \/ other \in st[sv].session[i].rules
                              \/ <<sv, i, other>> \in del

InstalledSoFar(r, st, del) ==
  r.at \in {"asked", "running"} /\ r.line.cmd = "run" =>
    \A i \in 1 .. RuleCount(r.line) :
      i < r.next => Stands(r.line.rules[i], r.server, r.sid, st, del)

\* A scenario under way is one its process waits for, or of a line that is over.
OneRun(p, r, run) ==
  run.by = p =>
    /\ run.line <= r.lines
    /\ run.line = r.lines =>
         \/ r.at \in {"prompt", "ended"}
         \/ /\ r.at = "running" /\ run.server = r.server /\ run.session = r.sid
            /\ run.scenario = r.arg

WaitsForItsRun(p, r, rs) == \A run \in rs : OneRun(p, r, run)

Fits(p, r) ==
  /\ r.prompt = (p \in Prompts)
  /\ FillsItsOwn(p, r, writes)
  /\ Knows(r, known)
  /\ ForgetsRightly(p, r, file, touched)
  /\ InstalledSoFar(r, store, deleted)
  /\ WaitsForItsRun(p, r, runs)

\* The servers' own state.
ServerSession == [state : {"absent", "active", "closed"}, rules : SUBSET (RuleNames \cup Nat),
                  results : Seq(Result)]
Server == [count : Ids \cup {None}, results : Nat, session : [Ids -> ServerSession]]
Run == [by : Procs, server : Servers, session : Ids, scenario : Nat, line : Nat]

ServersOK == store \in [Servers -> Server] /\ runs \subseteq Run

FileOK ==
  /\ Remembers(file, known)
  /\ writes \in [Procs -> [state : State, clash : BOOLEAN]]
  /\ \A p \in Procs : Remembers(writes[p].state, known)

BoundsOK == touched \subseteq Procs /\ faults \in 0 .. MaxFaults

Inv ==
  /\ DOMAIN proc = Procs
  /\ \A p \in Procs : Sound(proc[p]) /\ Fits(p, proc[p])
  /\ ServersOK
  /\ FileOK
  /\ BoundsOK

\* The same in the state after a step.
FitsNext(p, r) ==
  /\ r.prompt = (p \in Prompts)
  /\ FillsItsOwn(p, r, writes')
  /\ Knows(r, known')
  /\ ForgetsRightly(p, r, file', touched')
  /\ InstalledSoFar(r, store', deleted')
  /\ WaitsForItsRun(p, r, runs')

\* The invariant after a step, from its parts.
LEMMA InvAfter ==
  ASSUME DOMAIN proc' = Procs, \A p \in Procs : Sound(proc'[p]) /\ FitsNext(p, proc'[p]),
         ServersOK', FileOK', BoundsOK'
  PROVE  Inv'
BY DEF Inv, Fits, FitsNext

-----------------------------------------------------------------------------
(* A step of one process that leaves everything else alone.                 *)

\* A fault more is within the bound.
LEMMA FaultsFacts ==
  ASSUME Inv, faults' = faults \/ Fault
  PROVE  faults' \in 0 .. MaxFaults
BY CliAssumption DEF Inv, BoundsOK, Fault

\* Such a step keeps the invariant when the process stays sound.
LEMMA ProcessStep ==
  ASSUME Inv, NEW p \in Procs, NEW f, Sound(f), Fits(p, f), Set(p, f),
         UnchangedServers, UnchangedFile, faults' = faults \/ Fault
  PROVE  Inv'
<1>1. faults' \in 0 .. MaxFaults
  BY FaultsFacts
<1>2. /\ DOMAIN proc' = Procs /\ proc'[p] = f
      /\ \A q \in Procs \ {p} : proc'[q] = proc[q]
  BY DEF Inv, Set
<1>3. /\ store' = store /\ runs' = runs /\ known' = known /\ deleted' = deleted
      /\ file' = file /\ writes' = writes /\ touched' = touched
  BY DEF UnchangedServers, UnchangedFile, fileVars
<1>4. ASSUME NEW q \in Procs PROVE Sound(proc'[q]) /\ FitsNext(q, proc'[q])
  <2>1. PICK r : r = proc'[q]
    OBVIOUS
  <2>2. Sound(r) /\ Fits(q, r)
    BY <1>2, <2>1 DEF Inv
  <2>3. FitsNext(q, r)
    BY <1>3, <2>2 DEF Fits, FitsNext
  <2> QED BY <2>1, <2>2, <2>3
<1>5. ServersOK'
  BY <1>3 DEF Inv, ServersOK
<1>6. FileOK'
  BY <1>3 DEF Inv, FileOK
<1>7. BoundsOK'
  BY <1>1, <1>3 DEF Inv, BoundsOK
<1> QED BY <1>2, <1>4, <1>5, <1>6, <1>7, InvAfter

\* What a process that leaves the file and the servers alone must keep.
LEMMA QuietFits ==
  ASSUME Inv, NEW p \in Procs, NEW r, r = proc[p], NEW f,
         f.prompt = r.prompt, r.at # "filling",
         f.at \notin {"filling", "forgetting", "opening", "running"},
         f.recalled => <<f.sid, f.server>> \in known,
         f.want \in {Nothing, r.want},
         f.at = "asked" /\ f.line.cmd = "run" => f.next = 1,
         f.lines \in Nat, r.lines \in Nat,
         \/ f.lines > r.lines
         \/ /\ f.lines = r.lines
            /\ r.at \in {"prompt", "ended", "running"} => f.at \in {"prompt", "ended"}
  PROVE  Fits(p, f)
<1>1. Fits(p, r)
  BY DEF Inv
<1>2. FillsItsOwn(p, f, writes)
  BY <1>1 DEF Fits, FillsItsOwn
<1>3. Knows(f, known)
  BY <1>1 DEF Fits, Knows, Nothing
<1>4. ForgetsRightly(p, f, file, touched)
  BY DEF ForgetsRightly
<1>5. InstalledSoFar(f, store, deleted)
  BY DEF InstalledSoFar
<1>6. ASSUME NEW run \in runs, run.by = p PROVE OneRun(p, f, run)
  <2>1. run.line \in Nat
    BY DEF Inv, ServersOK, Run
  <2>2. OneRun(p, r, run)
    BY <1>1 DEF Fits, WaitsForItsRun
  <2>3. run.line <= r.lines /\ (run.line = r.lines => r.at \in {"prompt", "ended", "running"})
    BY <1>6, <2>2 DEF OneRun
  <2> QED BY <2>1, <2>3 DEF OneRun
<1>7. WaitsForItsRun(p, f, runs)
  BY <1>6 DEF WaitsForItsRun, OneRun
<1> QED BY <1>1, <1>2, <1>3, <1>4, <1>5, <1>7 DEF Fits

\* The lines there are, and the line of a prompt.
LEMMA LineFacts ==
  /\ Lines \subseteq AnyLine
  /\ \A line \in Lines : line.cmd \in Commands
  /\ Line("repl") \in AnyLine /\ Line("repl").cmd = "repl"
  /\ Line("none") \in AnyLine
<1>1. ASSUME NEW line \in Lines PROVE line \in AnyLine /\ line.cmd \in Commands
  BY LinesAssumption DEF CommandLine, AnyLine, Commands
<1>2. ASSUME NEW cmd \in {"repl", "none"} PROVE Line(cmd) \in AnyLine /\ Line(cmd).cmd = cmd
  <2>1. <<>> \in Seq(RuleNames) /\ <<>> \in Seq(Nat)
    OBVIOUS
  <2>2. None \in Nat /\ DefaultTimeout \in Nat
    BY DEF None, DefaultTimeout
  <2> QED BY <2>1, <2>2 DEF Line, AnyLine
<1> QED BY <1>1, <1>2

\* A process is started with its command line, or a prompt.
LEMMA StartStep ==
  ASSUME Inv, NEW p \in Procs, NEW sv \in Servers, NEW line \in AnyLine,
         IF p \in Prompts THEN line.cmd = "repl" ELSE line.cmd \in Commands,
         Start(p, sv, line)
  PROVE  Inv'
<1>1. PICK r : r = proc[p]
  OBVIOUS
<1>2. /\ Sound(r) /\ r.at = "idle" /\ r.prompt = (p \in Prompts) /\ Shape(r) /\ Clean(r)
      /\ r.deeds = {} /\ r.gaveUp = None /\ r.lines \in Nat /\ GaveUpRightly(r)
      /\ (r.watching => r.server \in Servers) /\ (~r.prompt => r.code = 0)
  BY <1>1 DEF Inv, Fits, Start, Sound, Base, Shape, StartsClean, Calm, Unstarted, Tells
<1>3. CASE line.cmd = "misspelt"
  <2>1. PICK g : g = [r EXCEPT !.line = line]
    OBVIOUS
  <2>2. /\ g.line = line /\ DOMAIN g = Fields
        /\ \A field \in Fields \ {"line"} : g[field] = r[field]
    BY <1>2, <2>1 DEF Shape, Fields
  <2>3. Base(g) /\ g.deeds = {} /\ g.prompt = r.prompt /\ g.lines = r.lines
    BY <1>2, <2>2 DEF Base, Shape, Fields, GaveUpRightly
  <2>4. PICK f : f = Finished(g, 2)
    OBVIOUS
  <2>5. Sound(f) /\ SameLine(g, f) /\ Clean(f) /\ f.at \in {"prompt", "ended"}
    <3>1. MayEnd(g, 2) /\ 2 \in Codes /\ Shape(g)
      BY <2>3, CodesThereAre DEF MayEnd, Base
    <3> QED BY <2>3, <2>4, <3>1, FinishedIsSound, FinishedFacts
  <2>6. Set(p, f)
    BY <1>1, <1>3, <2>1, <2>4 DEF Start
  <2>7. Fits(p, f)
    BY <1>1, <1>2, <2>3, <2>5, QuietFits DEF SameLine, Clean
  <2> QED BY <2>5, <2>6, <2>7, ProcessStep DEF Start
<1>4. CASE line.cmd # "misspelt"
  <2>1. PICK f : f = [r EXCEPT !.at = "connecting", !.server = sv, !.line = line]
    OBVIOUS
  <2>2. /\ f.at = "connecting" /\ f.server = sv /\ f.line = line /\ DOMAIN f = Fields
        /\ \A field \in Fields \ {"at", "server", "line"} : f[field] = r[field]
    BY <1>2, <2>1 DEF Shape, Fields
  <2>3. Base(f)
    BY <1>2, <2>2 DEF Base, Shape, Fields, Awaits, GaveUpRightly
  <2>4. StartsClean(f)
    <3>1. f.prompt = r.prompt /\ f.line = line /\ f.at = "connecting"
      BY <2>2 DEF Fields
    <3>2. f.deeds = {} /\ f.gaveUp = None
      BY <1>2, <2>2 DEF Fields
    <3>3. Clean(f)
      BY <1>2, <2>2 DEF Clean, Fields
    <3>4. IF f.prompt THEN f.line.cmd = "repl" ELSE f.line.cmd \in Commands \ {"misspelt"}
      BY <1>2, <1>4, <3>1
    <3> QED BY <3>1, <3>2, <3>3, <3>4 DEF StartsClean
  <2>5. HasServer(f) /\ Asks(f) /\ Writes(f) /\ Saves(f)
    BY <2>2 DEF HasServer, Asks, Writes, Saves
  <2>6. Tells(f)
    BY <1>2, <2>2 DEF Tells, Fields
  <2>7. Set(p, f)
    BY <1>1, <1>4, <2>1 DEF Start
  <2>8. Fits(p, f)
    <3>1. f.prompt = r.prompt /\ ~f.recalled /\ f.want = r.want /\ f.lines = r.lines
      BY <1>2, <2>2 DEF Fields, Clean
    <3> QED BY <1>1, <1>2, <2>2, <3>1, QuietFits
  <2>9. Sound(f)
    BY <2>3, <2>4, <2>5, <2>6 DEF Sound
  <2> QED BY <2>7, <2>8, <2>9, ProcessStep DEF Start
<1> QED BY <1>3, <1>4

\* A line that is taken up leaves everything else alone.
LEMMA TakenUpFits ==
  ASSUME Inv, NEW p \in Procs, NEW r, r = proc[p], r.at # "filling", r.lines \in Nat,
         NEW g, g.prompt = r.prompt, g.lines \in Nat,
         g.lines > r.lines \/ (g.lines = r.lines /\ r.at \notin {"prompt", "ended", "running"}),
         NEW f, TakenUp(g, f)
  PROVE  Fits(p, f)
BY QuietFits DEF TakenUp, SameLine

\* It has its connection, and takes up its command.
LEMMA ConnectStep ==
  ASSUME Inv, NEW p \in Procs, Connect(p)
  PROVE  Inv'
<1>1. PICK r : r = proc[p]
  OBVIOUS
<1>2. /\ Sound(r) /\ r.at = "connecting" /\ Shape(r) /\ Clean(r) /\ r.server \in Servers
      /\ r.deeds = {} /\ r.gaveUp = None /\ r.lines \in Nat /\ GaveUpRightly(r)
      /\ (~r.prompt => r.code = 0)
      /\ IF r.prompt THEN r.line.cmd = "repl" ELSE r.line.cmd \in Commands \ {"misspelt"}
  BY <1>1 DEF Inv, Connect, Sound, Base, Shape, StartsClean, Calm, Unstarted, Tells, HasServer
<1>3. PICK g : g = [r EXCEPT !.connected = TRUE]
  OBVIOUS
<1>4. /\ g.connected = TRUE /\ DOMAIN g = Fields
      /\ \A field \in Fields \ {"connected"} : g[field] = r[field]
  BY <1>2, <1>3 DEF Shape, Fields
<1>5. Shape(g) /\ GoesOn(g) /\ Clean(g) /\ SameLine(r, g) /\ g.deeds = {} /\ g.gaveUp = None
  BY <1>2, <1>4 DEF GoesOn, Base, Shape, Fields, GaveUpRightly, Clean, SameLine
<1>6. CASE r.prompt
  <2>1. PICK f : f = [g EXCEPT !.at = "greeting"]
    OBVIOUS
  <2>2. /\ f.at = "greeting" /\ DOMAIN f = Fields
        /\ \A field \in Fields \ {"at"} : f[field] = g[field]
    BY <1>4, <2>1 DEF Fields
  <2>10. "greeting" \in Awaits
    BY DEF Awaits
  <2>11. Shape(f)
    BY <1>5, <2>2, <2>10 DEF Shape, Fields
  <2>3. Base(f) /\ SameLine(r, f) /\ Clean(f) /\ f.deeds = {}
    BY <1>5, <2>2, <2>11 DEF GoesOn, Base, Fields, GaveUpRightly, SameLine, Clean
  <2>4. StartsClean(f)
    BY <1>2, <1>5, <1>6, <2>2, <2>3 DEF StartsClean, SameLine
  <2>5. HasServer(f) /\ Asks(f) /\ Writes(f) /\ Saves(f)
    BY <1>2, <2>2, <2>3 DEF HasServer, Asks, Writes, Saves, SameLine
  <2>6. Tells(f)
    BY <1>6, <2>2, <2>3 DEF Tells, SameLine
  <2>7. Set(p, f)
    BY <1>1, <1>3, <1>4, <1>5, <1>6, <2>1 DEF Connect, SameLine
  <2>8. Fits(p, f)
    BY <1>1, <1>2, <2>2, <2>3, QuietFits DEF SameLine, Clean
  <2>9. Sound(f)
    BY <2>3, <2>4, <2>5, <2>6 DEF Sound
  <2> QED BY <2>7, <2>8, <2>9, ProcessStep DEF Connect
<1>7. CASE ~r.prompt
  <2>1. TakesUp(g)
    BY <1>2, <1>5, <1>7 DEF TakesUp, SameLine
  <2>2. PICK f : f = Dispatch(g)
    OBVIOUS
  <2>3. Sound(f) /\ TakenUp(g, f)
    BY <2>1, <2>2, DispatchIsSound
  <2>4. Set(p, f)
    BY <1>1, <1>3, <1>5, <1>7, <2>2 DEF Connect, SameLine
  <2>5. Fits(p, f)
    BY <1>1, <1>2, <1>5, <2>3, TakenUpFits DEF SameLine
  <2> QED BY <2>3, <2>4, <2>5, ProcessStep DEF Connect
<1> QED BY <1>6, <1>7

\* A process that ends with its command and nothing else.
LEMMA EndStep ==
  ASSUME Inv, NEW p \in Procs, NEW r, r = proc[p], r.at \notin {"filling"},
         NEW g, Base(g), SameLine(r, g) \/ (g.prompt = r.prompt /\ g.lines >= r.lines),
         NEW code \in Codes, MayEnd(g, code), Set(p, Finished(g, code)),
         UnchangedServers, UnchangedFile, faults' = faults \/ Fault
  PROVE  Inv'
<1>1. r.lines \in Nat
  BY DEF Inv, Sound, Base, Shape
<1>2. PICK f : f = Finished(g, code)
  OBVIOUS
<1>3. Sound(f)
  BY <1>2, FinishedIsSound
<1>4. SameLine(g, f) /\ Clean(f) /\ f.at \in {"prompt", "ended"}
  BY <1>2, FinishedFacts DEF Base
<1>7. f.lines \in Nat
  BY <1>3 DEF Sound, Base, Shape
<1>5. (f.lines > r.lines \/ f.lines = r.lines) /\ f.prompt = r.prompt
  BY <1>1, <1>4, <1>7 DEF SameLine
<1>6. Fits(p, f)
  BY <1>1, <1>4, <1>5, <1>7, QuietFits DEF Clean
<1> QED BY <1>2, <1>3, <1>6, ProcessStep

\* It is refused the connection: code 3.
LEMMA RefusedStep ==
  ASSUME Inv, NEW p \in Procs, Refused(p)
  PROVE  Inv'
<1>1. PICK r : r = proc[p]
  OBVIOUS
<1>2. Base(r) /\ r.at = "connecting" /\ r.deeds = {}
  BY <1>1 DEF Inv, Refused, Sound, StartsClean, Unstarted
<1>3. MayEnd(r, 3) /\ SameLine(r, r) /\ 3 \in Codes
  BY <1>2, CodesThereAre DEF MayEnd, SameLine
<1> QED BY <1>1, <1>2, <1>3, EndStep DEF Refused

\* A prompt has read the file.
LEMMA GreetStep ==
  ASSUME Inv, NEW p \in Procs, Greet(p)
  PROVE  Inv'
<1>1. PICK r : r = proc[p]
  OBVIOUS
<1>2. /\ Sound(r) /\ r.at = "greeting" /\ Base(r) /\ Shape(r) /\ Clean(r) /\ r.server \in Servers
      /\ r.lines \in Nat /\ r.prompt /\ r.line.cmd = "repl"
  BY <1>1 DEF Inv, Greet, Sound, Base, Shape, StartsClean, Calm, HasServer
<1>3. PICK f : f = [r EXCEPT !.at = "prompt", !.watching = TRUE, !.deaf = ~r.connected]
  OBVIOUS
<1>4. /\ f.at = "prompt" /\ f.watching = TRUE /\ DOMAIN f = Fields
      /\ \A field \in Fields \ {"at", "watching", "deaf"} : f[field] = r[field]
  BY <1>2, <1>3 DEF Shape, Fields
<1>5. Base(f) /\ SameLine(r, f) /\ Clean(f)
  <2>1. SameLine(r, f) /\ Clean(f)
    BY <1>2, <1>4 DEF Fields, SameLine, Clean
  <2>2. Shape(f)
    BY <1>2, <1>4 DEF Shape, Fields, Awaits
  <2>3. (f.watching => f.server \in Servers) /\ GaveUpRightly(f)
    BY <1>2, <1>4 DEF Base, Fields, GaveUpRightly
  <2> QED BY <2>1, <2>2, <2>3 DEF Base
<1>6. StartsClean(f) /\ HasServer(f) /\ Asks(f) /\ Writes(f) /\ Saves(f)
  BY <1>2, <1>4, <1>5 DEF StartsClean, Unstarted, HasServer, Asks, Writes, Saves, SameLine
<1>7. Tells(f)
  <2>1. Promise(f.line) = {}
    BY <1>2, <1>5, PromiseFacts DEF SameLine
  <2> QED BY <1>2, <1>5, <2>1 DEF Tells, SameLine
<1>8. Set(p, f)
  BY <1>1, <1>3 DEF Greet
<1>9. Fits(p, f)
  BY <1>1, <1>2, <1>4, <1>5, QuietFits DEF SameLine, Clean
<1> QED BY <1>5, <1>6, <1>7, <1>8, <1>9, ProcessStep DEF Greet, Sound

\* A prompt takes up a line.
LEMMA TypeStep ==
  ASSUME Inv, NEW p \in Procs, NEW line \in Lines, Type(p, line)
  PROVE  Inv'
<1>1. PICK r : r = proc[p]
  OBVIOUS
<1>2. /\ Sound(r) /\ r.at = "prompt" /\ Shape(r) /\ Clean(r) /\ r.server \in Servers
      /\ r.lines \in Nat /\ r.prompt
  BY <1>1 DEF Inv, Type, Sound, Base, Shape, StartsClean, Calm, HasServer
<1>3. line \in AnyLine /\ line.cmd \in Commands
  BY LineFacts
<1>4. PICK g : g = [r EXCEPT !.lines = @ + 1, !.line = line, !.deeds = {}, !.gaveUp = None]
  OBVIOUS
<1>5. /\ g.lines = r.lines + 1 /\ g.line = line /\ g.deeds = {} /\ g.gaveUp = None
      /\ DOMAIN g = Fields
      /\ \A field \in Fields \ {"lines", "line", "deeds", "gaveUp"} : g[field] = r[field]
  BY <1>2, <1>4 DEF Shape, Fields
<1>10. g.lines \in Nat /\ g.lines > r.lines
  BY <1>2, <1>5
<1>6. Shape(g)
  BY <1>2, <1>3, <1>5, <1>10 DEF Shape, Fields
<1>7. GoesOn(g) /\ Clean(g) /\ g.prompt = r.prompt /\ g.lines \in Nat /\ g.lines > r.lines
  BY <1>2, <1>5, <1>6, <1>10 DEF GoesOn, Base, Fields, GaveUpRightly, Clean
<1>8. CASE line.cmd = "misspelt"
  <2>1. Set(p, Finished(g, 2))
    BY <1>1, <1>4, <1>8 DEF Type
  <2>2. MayEnd(g, 2)
    BY <1>5 DEF MayEnd
  <2>3. Base(g) /\ g.lines >= r.lines /\ 2 \in Codes /\ r.at # "filling"
    BY <1>2, <1>7, CodesThereAre DEF GoesOn
  <2>4. UnchangedServers /\ UnchangedFile /\ faults' = faults
    BY DEF Type
  <2> QED BY <1>1, <1>7, <2>1, <2>2, <2>3, <2>4, EndStep
<1>9. CASE line.cmd # "misspelt"
  <2>1. TakesUp(g)
    BY <1>3, <1>5, <1>7, <1>9 DEF TakesUp
  <2>2. PICK f : f = Dispatch(g)
    OBVIOUS
  <2>3. Sound(f) /\ TakenUp(g, f)
    BY <2>1, <2>2, DispatchIsSound
  <2>4. Set(p, f)
    BY <1>1, <1>4, <1>9, <2>2 DEF Type
  <2>5. Fits(p, f)
    BY <1>1, <1>2, <1>7, <2>3, TakenUpFits
  <2> QED BY <2>3, <2>4, <2>5, ProcessStep DEF Type
<1> QED BY <1>8, <1>9

\* A prompt ends.
LEMMA LeaveStep ==
  ASSUME Inv, NEW p \in Procs, Leave(p)
  PROVE  Inv'
<1>1. PICK r : r = proc[p]
  OBVIOUS
<1>2. /\ Sound(r) /\ Base(r) /\ r.at = "prompt" /\ Shape(r) /\ Clean(r) /\ r.lines \in Nat
      /\ r.prompt /\ Tells(r)
  BY <1>1 DEF Inv, Leave, Sound, Base, Shape, StartsClean, Calm
<1>3. PICK f : f = [r EXCEPT !.at = "ended", !.connected = FALSE]
  OBVIOUS
<1>4. /\ f.at = "ended" /\ f.connected = FALSE /\ DOMAIN f = Fields
      /\ \A field \in Fields \ {"at", "connected"} : f[field] = r[field]
  BY <1>2, <1>3 DEF Shape, Fields
<1>5. Base(f) /\ SameLine(r, f) /\ Clean(f)
  <2>1. SameLine(r, f) /\ Clean(f)
    BY <1>2, <1>4 DEF Fields, SameLine, Clean
  <2>2. Shape(f)
    BY <1>2, <1>4 DEF Shape, Fields, Awaits
  <2>3. Base(f)
    BY <1>2, <1>4, <2>2 DEF Base, Fields, GaveUpRightly
  <2> QED BY <2>1, <2>3
<1>6. StartsClean(f) /\ HasServer(f) /\ Asks(f) /\ Writes(f) /\ Saves(f)
  BY <1>4, <1>5 DEF StartsClean, Unstarted, HasServer, Asks, Writes, Saves
<1>7. Tells(f)
  BY <1>2, <1>4 DEF Tells, Fields
<1>8. Set(p, f)
  BY <1>1, <1>3 DEF Leave
<1>9. Fits(p, f)
  BY <1>1, <1>2, <1>4, <1>5, QuietFits DEF SameLine, Clean
<1> QED BY <1>5, <1>6, <1>7, <1>8, <1>9, ProcessStep DEF Leave, Sound

-----------------------------------------------------------------------------
(* Commands that go on, or end, by themselves.                              *)

\* resolveSession() reads the file.
LEMMA ResolveStep ==
  ASSUME Inv, NEW p \in Procs, Resolve(p)
  PROVE  Inv'
<1>1. PICK r : r = proc[p]
  OBVIOUS
<1>2. /\ Sound(r) /\ r.at = "resolving" /\ Base(r) /\ Shape(r) /\ Clean(r)
      /\ r.server \in Servers /\ r.deeds = {} /\ r.gaveUp = None /\ r.lines \in Nat
      /\ (~r.prompt => r.code = 0) /\ r.line.cmd \in SessionUsers
  BY <1>1 DEF Inv, Resolve, Sound, Base, Shape, StartsClean, Calm, Unstarted, Tells, HasServer
<1>3. CASE file.session = None \/ file.server \notin {None, r.server}
  <2>1. Set(p, Finished(r, 2))
    BY <1>1, <1>3 DEF Resolve, Resolved
  <2>2. MayEnd(r, 2) /\ SameLine(r, r) /\ 2 \in Codes
    BY <1>2, CodesThereAre DEF MayEnd, SameLine
  <2> QED BY <1>1, <1>2, <2>1, <2>2, EndStep DEF Resolve
<1>4. CASE file.session # None /\ file.server \in {None, r.server}
  <2>1. /\ file.session \in Ids /\ <<file.session, file.server>> \in known
        /\ file.server = r.server
    <3>1. file \in State /\ file # Nothing /\ Remembers(file, known)
      <4>1. Remembers(file, known)
        BY DEF Inv, FileOK
      <4>2. file # Nothing
        BY <1>4 DEF Nothing
      <4> QED BY <4>1, <4>2 DEF Remembers
    <3>2. /\ file.session \in Ids /\ <<file.session, file.server>> \in known
          /\ file.server \in Servers
      BY <1>4, <3>1 DEF Remembers, State
    <3>3. file.server # None
      BY <3>2, StateFileAssumption
    <3> QED BY <1>4, <3>2, <3>3
  <2>2. PICK g : g = [r EXCEPT !.sid = file.session, !.recalled = TRUE]
    OBVIOUS
  <2>3. /\ g.sid = file.session /\ g.recalled = TRUE /\ DOMAIN g = Fields
        /\ \A field \in Fields \ {"sid", "recalled"} : g[field] = r[field]
    BY <1>2, <2>2 DEF Shape, Fields
  <2>4. Shape(g)
    BY <1>2, <2>1, <2>3 DEF Shape, Fields
  <2>5. GoesOn(g) /\ SameLine(r, g)
    BY <1>2, <2>3, <2>4 DEF GoesOn, Base, Fields, GaveUpRightly, SameLine
  <2>6. r.line.cmd \in DOMAIN Operation \cup {"run"} /\ r.line.cmd # "use"
    BY <1>2, CommandFacts DEF SessionUsers
  <2>7. Settled(g)
    BY <1>2, <2>1, <2>3, <2>5, <2>6 DEF Settled, Clean, Fields, SameLine
  <2>8. PICK f : f = Begin(g)
    OBVIOUS
  <2>9. Sound(f) /\ Follows(g, f)
    BY <2>7, <2>8, BeginIsSound
  <2>10. Set(p, f)
    BY <1>1, <1>4, <2>2, <2>8 DEF Resolve, Resolved
  <2>11. Fits(p, f)
    <3>1. SameLine(r, f) /\ f.at \in {"asked", "saving", "prompt", "ended"}
      BY <2>5, <2>9 DEF Follows, SameLine
    <3>2. f.recalled => <<f.sid, f.server>> \in known
      BY <1>4, <2>1, <2>3, <2>9, <3>1 DEF Follows, Clean, SameLine
    <3>3. g.want = Nothing /\ g.next = 1
      BY <2>7 DEF Settled
    <3>4. f.want = Nothing /\ (f.at = "asked" => f.next = 1)
      BY <2>9, <3>3 DEF Follows, Clean
    <3> QED BY <1>1, <1>2, <3>1, <3>2, <3>4, QuietFits DEF SameLine
  <2> QED BY <2>9, <2>10, <2>11, ProcessStep DEF Resolve
<1> QED BY <1>3, <1>4

\* GiveUp comes only where both timers are those of nobody's choice.
LEMMA GiveUpStep ==
  ASSUME Inv, NEW p \in Procs, GiveUp(p)
  PROVE  Inv'
<1>1. PICK r : r = proc[p]
  OBVIOUS
<1>2. /\ Sound(r) /\ r.at = "running" /\ Base(r) /\ Shape(r) /\ r.lines \in Nat
      /\ Request(r, r.op, r.arg) /\ r.op = "RUN_TEST" /\ r.line \in AnyLine
  BY <1>1 DEF Inv, GiveUp, Sound, Base, Shape, Asks
<1>3. r.arg \in 1 .. Len(r.line.scenarios)
  <2>1. r.line.cmd \in DOMAIN Operation => Operation[r.line.cmd] # "RUN_TEST"
    BY OperationFacts
  <2> QED BY <1>2, <2>1 DEF Request, RuleRequest, ScenarioRequest, ResultRequest, FirstRequest
<1>4. PICK timeout \in Nat : timeout = r.line.scenarios[r.arg]
  <2>1. r.line.scenarios \in Seq(Nat)
    BY <1>2 DEF AnyLine
  <2> QED BY <1>3, <2>1
<1>5. r.line.timeout \in Int
  BY <1>2 DEF AnyLine
<1>6. ControlTimeout(r.line, timeout) <= ScenarioTimeout(timeout)
  BY <1>1, <1>4 DEF GiveUp
<1>7. timeout = None /\ r.line.timeout <= DefaultTimeout
  BY <1>5, <1>6 DEF ControlTimeout, ScenarioTimeout, Slack, DefaultTimeout, None
<1>8. PICK g : g = [r EXCEPT !.gaveUp = r.arg]
  OBVIOUS
<1>9. /\ g.gaveUp = r.arg /\ DOMAIN g = Fields
      /\ \A field \in Fields \ {"gaveUp"} : g[field] = r[field]
  BY <1>2, <1>8 DEF Shape, Fields
<1>13. Shape(g)
  BY <1>2, <1>9 DEF Shape, Fields
<1>14. /\ g.line = r.line /\ g.prompt = r.prompt /\ g.lines = r.lines
       /\ g.watching = r.watching /\ g.server = r.server
  BY <1>9 DEF Fields
<1>15. GaveUpRightly(g)
  BY <1>4, <1>7, <1>9, <1>14 DEF GaveUpRightly
<1>10. Base(g) /\ g.prompt = r.prompt /\ g.lines >= r.lines
  BY <1>2, <1>13, <1>14, <1>15 DEF Base
<1>11. Set(p, Finished(g, 1)) /\ UnchangedServers /\ UnchangedFile /\ faults' = faults
  BY <1>1, <1>8 DEF GiveUp
<1>12. MayEnd(g, 1) /\ 1 \in Codes /\ r.at # "filling"
  BY <1>2, CodesThereAre DEF MayEnd
<1> QED BY <1>1, <1>10, <1>11, <1>12, EndStep

\* The window of `raw` is over.
LEMMA WindowEndsStep ==
  ASSUME Inv, NEW p \in Procs, WindowEnds(p)
  PROVE  Inv'
<1>1. PICK r : r = proc[p]
  OBVIOUS
<1>2. Base(r) /\ r.at = "raw" /\ r.line.cmd = "raw"
  BY <1>1 DEF Inv, WindowEnds, Sound, StartsClean
<1>3. PICK code \in {0, 1} : Set(p, Finished(r, code))
  BY <1>1 DEF WindowEnds
<1>4. MayEnd(r, code) /\ SameLine(r, r) /\ code \in Codes
  BY <1>2, PromiseFacts, CodesThereAre DEF MayEnd, SameLine
<1> QED BY <1>1, <1>2, <1>3, <1>4, EndStep DEF WindowEnds

\* An export writes its file, or cannot.
LEMMA SaveStep ==
  ASSUME Inv, NEW p \in Procs, Save(p)
  PROVE  Inv'
<1>1. PICK r : r = proc[p]
  OBVIOUS
<1>2. /\ Base(r) /\ r.at = "saving" /\ Shape(r) /\ r.lines \in Nat
      /\ r.line.cmd = "export" /\ FirstDone(r)
  BY <1>1 DEF Inv, Save, Sound, Base, Shape, Saves
<1>3. CASE Set(p, Finished(Did(r, "saved", None), 0)) /\ faults' = faults
  <2>1. PICK g : g = Did(r, "saved", None)
    OBVIOUS
  <2>2. /\ DOMAIN g = Fields /\ g.deeds = r.deeds \cup {<<"saved", None>>}
        /\ \A field \in Fields \ {"deeds"} : g[field] = r[field]
        /\ Shape(g) /\ SameLine(r, g) /\ GaveUpRightly(g)
    BY <1>2, <2>1, DidFacts DEF Base
  <2>3. Base(g)
    BY <1>2, <2>2 DEF Base, Fields
  <2>4. <<"LIST_RESULTS", r.line.rule>> \in r.deeds
    BY <1>2, OperationFacts DEF FirstDone
  <2>5. Promise(g.line) = {<<"LIST_RESULTS", r.line.rule>>, <<"saved", None>>}
    BY <1>2, <2>2, PromiseFacts DEF SameLine
  <2>6. MayEnd(g, 0) /\ 0 \in Codes
    BY <2>2, <2>4, <2>5, CodesThereAre DEF MayEnd
  <2> QED BY <1>1, <1>2, <1>3, <2>1, <2>2, <2>3, <2>6, EndStep DEF Save
<1>4. CASE Fault /\ Set(p, Finished(r, 1))
  <2>1. MayEnd(r, 1) /\ SameLine(r, r) /\ 1 \in Codes
    BY CodesThereAre DEF MayEnd, SameLine
  <2> QED BY <1>1, <1>2, <1>4, <2>1, EndStep DEF Save
<1> QED BY <1>1, <1>3, <1>4 DEF Save

\* The state file cannot be written.
LEMMA OpenFailsStep ==
  ASSUME Inv, NEW p \in Procs, OpenFails(p)
  PROVE  Inv'
<1>1. PICK r : r = proc[p]
  OBVIOUS
<1>2. /\ Base(r) /\ r.at = "opening" /\ FirstDone(r)
      /\ r.line.cmd \in {"create", "use", "close"}
  BY <1>1 DEF Inv, OpenFails, Sound, Writes
<1>3. PICK code \in {0, 1} : code = IF r.line.cmd = "use" THEN 1 ELSE 0
  OBVIOUS
<1>4. Set(p, Finished(r, code))
  BY <1>1, <1>3 DEF OpenFails
<1>5. code = 0 => Promise(r.line) = {<<Operation[r.line.cmd], r.line.rule>>}
  BY <1>2, <1>3, PromiseFacts, OperationFacts
<1>6. MayEnd(r, code) /\ SameLine(r, r) /\ code \in Codes
  BY <1>2, <1>3, <1>5, CodesThereAre DEF MayEnd, SameLine, FirstDone
<1> QED BY <1>1, <1>2, <1>4, <1>6, EndStep DEF OpenFails

\* forgetSession() reads the file once more.
LEMMA ForgetStep ==
  ASSUME Inv, NEW p \in Procs, Forget(p)
  PROVE  Inv'
<1>1. PICK r : r = proc[p]
  OBVIOUS
<1>2. /\ Sound(r) /\ Base(r) /\ Shape(r) /\ r.at = "forgetting" /\ r.line.cmd = "close"
      /\ FirstDone(r) /\ r.server \in Servers /\ (~r.prompt => r.code = 0)
  BY <1>1 DEF Inv, Forget, Sound, Base, Writes, HasServer, Tells
<1>3. CASE file.session = None
  <2>1. Set(p, Finished(r, 0))
    BY <1>1, <1>3 DEF Forget
  <2>2. Promise(r.line) = {<<Operation[r.line.cmd], r.line.rule>>}
    BY <1>2, PromiseFacts, OperationFacts
  <2>3. MayEnd(r, 0) /\ SameLine(r, r) /\ 0 \in Codes
    BY <1>2, <2>2, CodesThereAre DEF MayEnd, SameLine, FirstDone
  <2> QED BY <1>1, <1>2, <2>1, <2>3, EndStep DEF Forget
<1>4. CASE file.session # None
  <2>1. PICK w : w = [file EXCEPT !.session = None]
    OBVIOUS
  <2>2. file \in State /\ file.server \in Servers
    BY <1>4 DEF Inv, FileOK, Remembers, Nothing
  <2>3. w \in State /\ w.session = None /\ w.server \in Servers
    BY <2>1, <2>2 DEF State
  <2>4. PICK f : f = [r EXCEPT !.at = "opening", !.want = w]
    OBVIOUS
  <2>5. /\ f.at = "opening" /\ f.want = w /\ DOMAIN f = Fields
        /\ \A field \in Fields \ {"at", "want"} : f[field] = r[field]
    BY <1>2, <2>4 DEF Shape, Fields
  <2>6. "opening" \in Awaits
    BY DEF Awaits
  <2>7. Shape(f)
    BY <1>2, <2>3, <2>5, <2>6 DEF Shape, Fields
  <2>8. Base(f) /\ SameLine(r, f) /\ HasServer(f)
    BY <1>2, <2>5, <2>7 DEF Base, Fields, GaveUpRightly, SameLine, HasServer
  <2>9. StartsClean(f) /\ Asks(f) /\ Saves(f)
    BY <2>5 DEF StartsClean, Calm, Unstarted, Asks, Saves
  <2>10. Writes(f)
    BY <1>2, <2>3, <2>5 DEF Writes, FirstDone, Fields
  <2>11. Tells(f)
    BY <1>2, <2>5 DEF Tells, Fields
  <2>12. Set(p, f)
    BY <1>1, <1>4, <2>1, <2>4 DEF Forget
  <2>13. Fits(p, f)
    <3>1. Fits(p, r)
      BY <1>1 DEF Inv
    <3>2. FillsItsOwn(p, f, writes)
      BY <1>2, <2>5, <3>1 DEF Fits, FillsItsOwn
    <3>3. f.sid = r.sid /\ f.recalled = r.recalled /\ f.line = r.line
      BY <2>5 DEF Fields
    <3>4. Knows(f, known)
      BY <2>3, <2>5, <2>8, <3>1, <3>3 DEF Fits, Knows, SameLine
    <3>5. ForgetsRightly(p, f, file, touched)
      BY <1>2, <3>1, <3>3 DEF Fits, ForgetsRightly
    <3>6. InstalledSoFar(f, store, deleted)
      BY <2>5 DEF InstalledSoFar
    <3>7. WaitsForItsRun(p, f, runs)
      BY <1>2, <2>8, <3>1 DEF Fits, WaitsForItsRun, OneRun, SameLine
    <3> QED BY <2>8, <3>1, <3>2, <3>4, <3>5, <3>6, <3>7 DEF Fits, SameLine
  <2> QED BY <2>8, <2>9, <2>10, <2>11, <2>12, <2>13, ProcessStep DEF Forget, Sound
<1> QED BY <1>3, <1>4

\* A connection is lost.
LEMMA LoseStep ==
  ASSUME Inv, NEW p \in Procs, Lose(p)
  PROVE  Inv'
<1>1. PICK r : r = proc[p]
  OBVIOUS
<1>2. PICK f : f = Cut(r)
  OBVIOUS
<1>3. Sound(r) /\ Fits(p, r)
  BY <1>1 DEF Inv
<1>4. Sound(f) /\ CutOff(r, f)
  BY <1>2, <1>3, CutIsSound
<1>5. Fits(p, f)
  <2>1. FillsItsOwn(p, f, writes)
    BY <1>3, <1>4 DEF Fits, CutOff, FillsItsOwn
  <2>2. Knows(f, known)
    BY <1>3, <1>4 DEF Fits, CutOff, Knows, SameLine, Clean, Nothing
  <2>3. ForgetsRightly(p, f, file, touched)
    BY <1>3, <1>4 DEF Fits, CutOff, ForgetsRightly, SameLine
  <2>4. InstalledSoFar(f, store, deleted)
    BY <1>4 DEF CutOff, InstalledSoFar
  <2>5. WaitsForItsRun(p, f, runs)
    BY <1>3, <1>4 DEF Fits, CutOff, WaitsForItsRun, OneRun, SameLine
  <2> QED BY <1>3, <1>4, <2>1, <2>2, <2>3, <2>4, <2>5 DEF Fits, CutOff, SameLine
<1>6. Set(p, f)
  BY <1>1, <1>2 DEF Lose
<1> QED BY <1>4, <1>5, <1>6, ProcessStep DEF Lose

-----------------------------------------------------------------------------
(* Steps that concern the file.                                             *)

\* A step of one process that concerns the file: the others stay sound when what they
\* decided by the file is still so, or they are touched.
LEMMA FileContextFacts ==
  ASSUME Inv, NEW p \in Procs, NEW f, Sound(f),
         DOMAIN proc' = Procs, proc'[p] = f, \A q \in Procs \ {p} : proc'[q] = proc[q],
         f.prompt = (p \in Prompts), FillsItsOwn(p, f, writes'), Knows(f, known),
         ForgetsRightly(p, f, file', touched'), InstalledSoFar(f, store, deleted),
         WaitsForItsRun(p, f, runs),
         \A q \in Procs \ {p} : (writes'[q] = NoWrite) = (writes[q] = NoWrite),
         \A q \in Procs \ {p} : ForgetsRightly(q, proc[q], file', touched'),
         FileOK', BoundsOK', UnchangedServers
  PROVE  Inv'
<1>1. store' = store /\ runs' = runs /\ known' = known /\ deleted' = deleted
  BY DEF UnchangedServers
<1>2. FitsNext(p, f)
  BY <1>1 DEF FitsNext
<1>3. ASSUME NEW q \in Procs \ {p} PROVE Sound(proc[q]) /\ FitsNext(q, proc[q])
  <2>1. Sound(proc[q]) /\ Fits(q, proc[q])
    BY DEF Inv
  <2>2. FillsItsOwn(q, proc[q], writes')
    BY <2>1 DEF Fits, FillsItsOwn
  <2> QED BY <1>1, <2>1, <2>2 DEF Fits, FitsNext
<1>4. ServersOK'
  BY <1>1 DEF Inv, ServersOK
<1>5. ASSUME NEW q \in Procs PROVE Sound(proc'[q]) /\ FitsNext(q, proc'[q])
  <2>1. CASE q = p
    BY <1>2, <2>1
  <2>2. CASE q # p
    BY <1>3, <2>2
  <2> QED BY <2>1, <2>2
<1> QED BY <1>4, <1>5, InvAfter

\* commandSessionClose reads which session is remembered.
LEMMA RecallStep ==
  ASSUME Inv, NEW p \in Procs, Recall(p)
  PROVE  Inv'
<1>1. PICK r : r = proc[p]
  OBVIOUS
<1>2. /\ Sound(r) /\ Fits(p, r) /\ Base(r) /\ Shape(r) /\ r.at = "recalling"
      /\ r.line.cmd = "close"
      /\ FirstDone(r) /\ r.server \in Servers /\ (~r.prompt => r.code = 0)
  BY <1>1 DEF Inv, Recall, Sound, Base, Writes, HasServer, Tells
<1>3. PICK f : f = Recalled(r)
  OBVIOUS
<1>4. /\ Sound(f) /\ SameLine(r, f) /\ f.at # "filling" /\ Knows(f, known)
      /\ f.at \in {"forgetting", "prompt", "ended"}
      /\ (f.at = "forgetting" => file.session = f.sid)
  <2>1. CASE file.session = r.sid
    <3>1. f = [r EXCEPT !.at = "forgetting"]
      BY <1>3, <2>1 DEF Recalled
    <3>2. /\ f.at = "forgetting" /\ DOMAIN f = Fields
          /\ \A field \in Fields \ {"at"} : f[field] = r[field]
      BY <1>2, <3>1 DEF Shape, Fields
    <3>3. "forgetting" \in Awaits
      BY DEF Awaits
    <3>4. Shape(f)
      BY <1>2, <3>2, <3>3 DEF Shape, Fields
    <3>5. Base(f) /\ SameLine(r, f) /\ HasServer(f)
      BY <1>2, <3>2, <3>4 DEF Base, Fields, GaveUpRightly, SameLine, HasServer
    <3>6. StartsClean(f) /\ Asks(f) /\ Saves(f)
      BY <3>2 DEF StartsClean, Calm, Unstarted, Asks, Saves
    <3>7. Writes(f)
      BY <1>2, <3>2 DEF Writes, FirstDone, Fields
    <3>8. Tells(f)
      BY <1>2, <3>2 DEF Tells, Fields
    <3>9. Knows(f, known) /\ f.sid = r.sid
      BY <1>2, <3>2 DEF Fits, Knows, Fields
    <3> QED BY <2>1, <3>2, <3>5, <3>6, <3>7, <3>8, <3>9 DEF Sound
  <2>2. CASE file.session # r.sid
    <3>1. f = Finished(r, 0)
      BY <1>3, <2>2 DEF Recalled
    <3>2. Promise(r.line) = {<<Operation[r.line.cmd], r.line.rule>>}
      BY <1>2, PromiseFacts, OperationFacts
    <3>3. MayEnd(r, 0) /\ 0 \in Codes
      BY <1>2, <3>2, CodesThereAre DEF MayEnd, FirstDone
    <3>4. Sound(f)
      BY <1>2, <3>1, <3>3, FinishedIsSound
    <3>5. SameLine(r, f) /\ Clean(f) /\ f.at \in {"prompt", "ended"}
      BY <1>2, <3>1, <3>3, FinishedFacts
    <3> QED BY <3>4, <3>5 DEF Knows, Clean, Nothing
  <2> QED BY <2>1, <2>2
<1>5. /\ DOMAIN proc' = Procs /\ proc'[p] = f
      /\ \A q \in Procs \ {p} : proc'[q] = proc[q]
  BY <1>1, <1>3 DEF Inv, Recall, Set
<1>6. file' = file /\ writes' = writes /\ known' = known /\ touched' = touched \ {p}
  BY DEF Recall, fileVars, UnchangedServers
<1>7. f.prompt = (p \in Prompts)
  BY <1>2, <1>4 DEF Fits, SameLine
<1>8. FillsItsOwn(p, f, writes')
  BY <1>2, <1>4, <1>6 DEF Fits, FillsItsOwn
<1>9. ForgetsRightly(p, f, file', touched')
  BY <1>4, <1>6 DEF ForgetsRightly
<1>10. InstalledSoFar(f, store, deleted)
  BY <1>4 DEF InstalledSoFar
<1>11. WaitsForItsRun(p, f, runs)
  BY <1>2, <1>4 DEF Fits, WaitsForItsRun, OneRun, SameLine
<1>12. ASSUME NEW q \in Procs \ {p} PROVE ForgetsRightly(q, proc[q], file', touched')
  BY <1>6 DEF Inv, Fits, ForgetsRightly
<1>13. FileOK'
  BY <1>6 DEF Inv, FileOK
<1>14. BoundsOK'
  <2>1. faults' = faults
    BY DEF Recall
  <2> QED BY <1>6, <2>1 DEF Inv, BoundsOK
<1>15. UnchangedServers
  BY DEF Recall
<1> QED BY <1>4, <1>5, <1>6, <1>7, <1>8, <1>9, <1>10, <1>11, <1>12, <1>13, <1>14, <1>15,
           FileContextFacts

\* Whoever read the file and has not acted on it yet is touched by a write.
LEMMA DecidersAreTouched ==
  ASSUME Inv, NEW p \in Procs, NEW q \in Procs \ {p}, touched' = touched \cup Deciding(p),
         NEW fl
  PROVE  ForgetsRightly(q, proc[q], fl, touched')
BY DEF ForgetsRightly, Deciding

\* A write truncates the file.
LEMMA OpenStep ==
  ASSUME Inv, NEW p \in Procs, Open(p)
  PROVE  Inv'
<1>1. PICK r : r = proc[p]
  OBVIOUS
<1>2. /\ Sound(r) /\ Fits(p, r) /\ Base(r) /\ Shape(r) /\ r.at = "opening" /\ Writes(r)
      /\ r.server \in Servers /\ (~r.prompt => r.code = 0)
  BY <1>1 DEF Inv, Open, Sound, Base, HasServer, Tells
<1>3. PICK f : f = [r EXCEPT !.at = "filling"]
  OBVIOUS
<1>4. /\ f.at = "filling" /\ DOMAIN f = Fields
      /\ \A field \in Fields \ {"at"} : f[field] = r[field]
  BY <1>2, <1>3 DEF Shape, Fields
<1>5. Sound(f)
  <2>1. "filling" \in Awaits
    BY DEF Awaits
  <2>2. Shape(f)
    BY <1>2, <1>4, <2>1 DEF Shape, Fields
  <2>3. Base(f) /\ HasServer(f)
    BY <1>2, <1>4, <2>2 DEF Base, Fields, GaveUpRightly, HasServer
  <2>4. StartsClean(f) /\ Asks(f) /\ Saves(f)
    BY <1>4 DEF StartsClean, Calm, Unstarted, Asks, Saves
  <2>5. Writes(f)
    BY <1>2, <1>4 DEF Writes, FirstDone, Fields
  <2>6. Tells(f)
    BY <1>2, <1>4 DEF Tells, Fields
  <2> QED BY <2>3, <2>4, <2>5, <2>6 DEF Sound
<1>6. SameLine(r, f) /\ f.want = r.want /\ f.recalled = r.recalled /\ f.sid = r.sid
  BY <1>4 DEF SameLine, Fields
<1>7. r.want \in State /\ r.want.server \in Servers
  BY <1>2 DEF Shape, Writes
<1>8. PICK w : w = [state |-> r.want, clash |-> FALSE]
  OBVIOUS
<1>9. /\ file' = Nothing /\ writes' = [writes EXCEPT ![p] = w] /\ known' = known
      /\ touched' = touched \cup Deciding(p) /\ faults' = faults
  BY <1>1, <1>8 DEF Open, Truncate, UnchangedServers
<1>10. writes \in [Procs -> [state : State, clash : BOOLEAN]]
  BY DEF Inv, FileOK
<1>11. /\ w \in [state : State, clash : BOOLEAN] /\ w # NoWrite
       /\ w.state = r.want
  BY <1>7, <1>8, StateFileAssumption DEF NoWrite, Nothing
<1>12. writes'[p] = w /\ \A q \in Procs \ {p} : writes'[q] = writes[q]
  BY <1>9, <1>10
<1>13. /\ DOMAIN proc' = Procs /\ proc'[p] = f
       /\ \A q \in Procs \ {p} : proc'[q] = proc[q]
  BY <1>1, <1>3 DEF Inv, Open, Set
<1>14. f.prompt = (p \in Prompts)
  BY <1>2, <1>6 DEF Fits, SameLine
<1>15. FillsItsOwn(p, f, writes')
  BY <1>4, <1>11, <1>12 DEF FillsItsOwn
<1>16. Knows(f, known)
  BY <1>2, <1>6 DEF Fits, Knows, SameLine
<1>17. ForgetsRightly(p, f, file', touched')
  BY <1>4 DEF ForgetsRightly
<1>18. InstalledSoFar(f, store, deleted)
  BY <1>4 DEF InstalledSoFar
<1>19. WaitsForItsRun(p, f, runs)
  BY <1>2, <1>6 DEF Fits, WaitsForItsRun, OneRun, SameLine
<1>20. \A q \in Procs \ {p} : ForgetsRightly(q, proc[q], file', touched')
  BY <1>9, DecidersAreTouched
<1>21. FileOK'
  <2>1. Remembers(Nothing, known)
    BY DEF Remembers, Nothing, State
  <2>2. Remembers(r.want, known)
    BY <1>2, <1>7 DEF Fits, Knows, Remembers
  <2>3. writes' \in [Procs -> [state : State, clash : BOOLEAN]]
    BY <1>9, <1>10, <1>11
  <2>4. ASSUME NEW q \in Procs PROVE Remembers(writes'[q].state, known)
    BY <1>11, <1>12, <2>2 DEF Inv, FileOK
  <2> QED BY <1>9, <2>1, <2>3, <2>4 DEF FileOK
<1>22. BoundsOK'
  BY <1>9 DEF Inv, BoundsOK, Deciding
<1>23. UnchangedServers
  BY DEF Open
<1> QED BY <1>5, <1>12, <1>13, <1>14, <1>15, <1>16, <1>17, <1>18, <1>19, <1>20, <1>21, <1>22,
           <1>23, FileContextFacts

\* A write fills the file, unless it clashes with another.
LEMMA FilledStep ==
  ASSUME Inv, NEW p \in Procs, Filled(p)
  PROVE  Inv'
<1>1. PICK r : r = proc[p]
  OBVIOUS
<1>2. /\ Sound(r) /\ Fits(p, r) /\ Base(r) /\ Shape(r) /\ r.at = "filling" /\ Writes(r)
      /\ r.server \in Servers /\ (~r.prompt => r.code = 0)
  BY <1>1 DEF Inv, Filled, Sound, Base, HasServer, Tells
<1>3. PICK g : g = Did(r, "remember", r.want.session)
  OBVIOUS
<1>4. /\ DOMAIN g = Fields /\ g.deeds = r.deeds \cup {<<"remember", r.want.session>>}
      /\ \A field \in Fields \ {"deeds"} : g[field] = r[field]
      /\ Shape(g) /\ SameLine(r, g) /\ GaveUpRightly(g)
  BY <1>2, <1>3, DidFacts DEF Base
<1>5. Base(g)
  BY <1>2, <1>4 DEF Base, Fields
<1>6. MayEnd(g, 0) /\ 0 \in Codes
  <2>1. /\ r.line.cmd \in {"create", "use", "close"} /\ FirstDone(r)
        /\ (r.line.cmd = "use" => r.want.session = r.line.id)
    BY <1>2 DEF Writes
  <2>2. CASE r.line.cmd = "use"
    <3>1. Promise(r.line) = {<<"GET_SESSION", r.line.rule>>, <<"remember", r.line.id>>}
      BY <2>2, PromiseFacts
    <3>2. <<"GET_SESSION", r.line.rule>> \in r.deeds
      BY <2>1, <2>2, OperationFacts DEF FirstDone
    <3> QED BY <1>4, <2>1, <2>2, <3>1, <3>2, CodesThereAre DEF MayEnd, SameLine
  <2>3. CASE r.line.cmd # "use"
    <3>1. Promise(r.line) = {<<Operation[r.line.cmd], r.line.rule>>}
      BY <2>1, <2>3, PromiseFacts, OperationFacts
    <3> QED BY <1>4, <2>1, <3>1, CodesThereAre DEF MayEnd, SameLine, FirstDone
  <2> QED BY <2>2, <2>3
<1>7. PICK f : f = Finished(g, 0)
  OBVIOUS
<1>8. Sound(f)
  BY <1>5, <1>6, <1>7, FinishedIsSound
<1>9. SameLine(g, f) /\ Clean(f) /\ f.at \in {"prompt", "ended"}
  BY <1>4, <1>6, <1>7, FinishedFacts
<1>10. /\ file' \in {writes[p].state, Nothing} /\ known' = known
       /\ writes' = [q \in Procs |->
                       IF q = p THEN NoWrite
                       ELSE [writes[q] EXCEPT !.clash = writes[q] # NoWrite]]
       /\ touched' = touched \cup Deciding(p) /\ faults' = faults
  BY DEF Filled, Fill, UnchangedServers
<1>11. ASSUME NEW q \in Procs \ {p}
       PROVE  /\ writes'[q] \in [state : State, clash : BOOLEAN]
              /\ writes'[q].state = writes[q].state
              /\ (writes'[q] = NoWrite) = (writes[q] = NoWrite)
  <2>1. PICK w : w = writes[q]
    OBVIOUS
  <2>2. w \in [state : State, clash : BOOLEAN]
    BY <2>1 DEF Inv, FileOK
  <2>3. PICK clash \in BOOLEAN : clash = (w # NoWrite)
    OBVIOUS
  <2>4. writes'[q] = [w EXCEPT !.clash = clash]
    BY <1>10, <2>1, <2>3
  <2>5. /\ writes'[q] \in [state : State, clash : BOOLEAN] /\ writes'[q].state = w.state
        /\ writes'[q].clash = clash
    BY <2>2, <2>4
  <2>8. NoWrite.clash = FALSE
    BY DEF NoWrite
  <2>9. [NoWrite EXCEPT !.clash = FALSE] = NoWrite
    <3>1. PICK n : n = NoWrite
      OBVIOUS
    <3>2. n \in [state : State, clash : BOOLEAN]
      BY <3>1 DEF NoWrite, Nothing, State
    <3>3. PICK m : m = [n EXCEPT !.clash = FALSE]
      OBVIOUS
    <3>4. m \in [state : State, clash : BOOLEAN] /\ m.state = n.state /\ m.clash = n.clash
      BY <2>8, <3>1, <3>2, <3>3
    <3>5. m = [state |-> m.state, clash |-> m.clash] /\ n = [state |-> n.state, clash |-> n.clash]
      BY <3>2, <3>4
    <3> QED BY <3>1, <3>3, <3>4, <3>5
  <2>6. w = NoWrite => writes'[q] = NoWrite
    BY <2>3, <2>4, <2>9
  <2>7. writes'[q] = NoWrite => w = NoWrite
    BY <2>3, <2>5, <2>8
  <2> QED BY <2>1, <2>5, <2>6, <2>7
<1>12. writes'[p] = NoWrite
  BY <1>10
<1>13. /\ DOMAIN proc' = Procs /\ proc'[p] = f
       /\ \A q \in Procs \ {p} : proc'[q] = proc[q]
  BY <1>1, <1>3, <1>7 DEF Inv, Filled, Set
<1>14. f.prompt = (p \in Prompts)
  BY <1>2, <1>4, <1>9 DEF Fits, SameLine
<1>15. FillsItsOwn(p, f, writes')
  BY <1>9, <1>12 DEF FillsItsOwn
<1>16. Knows(f, known)
  BY <1>9 DEF Knows, Clean, Nothing
<1>17. ForgetsRightly(p, f, file', touched')
  BY <1>9 DEF ForgetsRightly
<1>18. InstalledSoFar(f, store, deleted)
  BY <1>9 DEF InstalledSoFar
<1>19. WaitsForItsRun(p, f, runs)
  BY <1>2, <1>4, <1>9 DEF Fits, WaitsForItsRun, OneRun, SameLine
<1>20. \A q \in Procs \ {p} : ForgetsRightly(q, proc[q], file', touched')
  BY <1>10, DecidersAreTouched
<1>21. FileOK'
  <2>1. Remembers(Nothing, known)
    BY DEF Remembers, Nothing, State
  <2>2. Remembers(file', known)
    BY <1>10, <2>1 DEF Inv, FileOK
  <2>3. NoWrite \in [state : State, clash : BOOLEAN] /\ NoWrite.state = Nothing
    BY DEF NoWrite, Nothing, State
  <2>4. ASSUME NEW q \in Procs
        PROVE  /\ writes'[q] \in [state : State, clash : BOOLEAN]
               /\ Remembers(writes'[q].state, known)
    <3>1. CASE q = p
      BY <1>12, <2>1, <2>3, <3>1
    <3>2. CASE q # p
      BY <1>11, <3>2 DEF Inv, FileOK
    <3> QED BY <3>1, <3>2
  <2>5. writes' \in [Procs -> [state : State, clash : BOOLEAN]]
    BY <1>10, <2>4
  <2> QED BY <1>10, <2>2, <2>4, <2>5 DEF FileOK
<1>22. BoundsOK'
  BY <1>10 DEF Inv, BoundsOK, Deciding
<1>23. UnchangedServers
  BY DEF Filled
<1> QED BY <1>8, <1>11, <1>13, <1>14, <1>15, <1>16, <1>17, <1>18, <1>19, <1>20, <1>21, <1>22,
           <1>23, FileContextFacts

\* Ctrl+C.
LEMMA InterruptStep ==
  ASSUME Inv, NEW p \in Procs, Interrupt(p)
  PROVE  Inv'
<1>1. PICK r : r = proc[p]
  OBVIOUS
<1>2. Base(r) /\ Shape(r) /\ Fits(p, r)
  BY <1>1 DEF Inv, Sound, Base
<1>3. PICK g : g = Finished(r, 130)
  OBVIOUS
<1>4. MayEnd(r, 130) /\ 130 \in Codes
  BY CodesThereAre DEF MayEnd
<1>5. Sound(g) /\ SameLine(r, g) /\ Clean(g) /\ g.at \in {"prompt", "ended"}
  BY <1>2, <1>3, <1>4, FinishedIsSound, FinishedFacts
<1>6. PICK f : f = [g EXCEPT !.at = "ended", !.connected = FALSE, !.code = 130]
  OBVIOUS
<1>7. Base(g) /\ Shape(g)
  BY <1>5 DEF Sound, Base
<1>8. /\ f.at = "ended" /\ f.connected = FALSE /\ f.code = 130 /\ DOMAIN f = Fields
      /\ \A field \in Fields \ {"at", "connected", "code"} : f[field] = g[field]
  BY <1>6, <1>7 DEF Shape, Fields
<1>9. Shape(f)
  <2>1. "ended" \in Awaits
    BY DEF Awaits
  <2> QED BY <1>4, <1>7, <1>8, <2>1 DEF Shape, Fields
<1>10. Base(f) /\ SameLine(r, f) /\ Clean(f)
  BY <1>5, <1>7, <1>8, <1>9 DEF Base, Fields, GaveUpRightly, SameLine, Clean
<1>11. Sound(f)
  BY <1>8, <1>10 DEF Sound, StartsClean, Unstarted, HasServer, Asks, Writes, Saves, Tells
<1>12. /\ DOMAIN proc' = Procs /\ proc'[p] = f
       /\ \A q \in Procs \ {p} : proc'[q] = proc[q]
  BY <1>1, <1>3, <1>6 DEF Inv, Interrupt, Set
<1>13. /\ file' = file /\ writes' = [writes EXCEPT ![p] = NoWrite] /\ known' = known
       /\ touched' = touched /\ Fault
  BY DEF Interrupt, Abandon, UnchangedServers
<1>14. writes \in [Procs -> [state : State, clash : BOOLEAN]]
  BY DEF Inv, FileOK
<1>15. writes'[p] = NoWrite /\ \A q \in Procs \ {p} : writes'[q] = writes[q]
  BY <1>13, <1>14
<1>16. f.prompt = (p \in Prompts)
  BY <1>2, <1>10 DEF Fits, SameLine
<1>17. FillsItsOwn(p, f, writes')
  BY <1>8, <1>15 DEF FillsItsOwn
<1>18. Knows(f, known)
  BY <1>10 DEF Knows, Clean, Nothing
<1>19. ForgetsRightly(p, f, file', touched') /\ InstalledSoFar(f, store, deleted)
  BY <1>8 DEF ForgetsRightly, InstalledSoFar
<1>20. WaitsForItsRun(p, f, runs)
  BY <1>2, <1>8, <1>10 DEF Fits, WaitsForItsRun, OneRun, SameLine
<1>21. \A q \in Procs \ {p} : ForgetsRightly(q, proc[q], file', touched')
  BY <1>13 DEF Inv, Fits
<1>22. FileOK'
  <2>1. Remembers(Nothing, known)
    BY DEF Remembers, Nothing, State
  <2>2. NoWrite \in [state : State, clash : BOOLEAN] /\ NoWrite.state = Nothing
    BY DEF NoWrite, Nothing, State
  <2>3. writes' \in [Procs -> [state : State, clash : BOOLEAN]]
    BY <1>13, <1>14, <2>2
  <2>4. ASSUME NEW q \in Procs PROVE Remembers(writes'[q].state, known)
    BY <1>15, <2>1, <2>2 DEF Inv, FileOK
  <2> QED BY <1>13, <2>3, <2>4 DEF Inv, FileOK
<1>23. BoundsOK'
  BY <1>13, FaultsFacts DEF Inv, BoundsOK
<1>24. UnchangedServers
  BY DEF Interrupt
<1> QED BY <1>11, <1>12, <1>15, <1>16, <1>17, <1>18, <1>19, <1>20, <1>21, <1>22, <1>23, <1>24,
           FileContextFacts

-----------------------------------------------------------------------------
(* What the servers do.                                                     *)

\* The statuses there are, and what 200 and 409 say of the store.
LEMMA StatusFacts ==
  ASSUME NEW r, NEW count \in Nat, count = store[r.server].count,
         NEW n \in Nat, n = Cardinality(Ids)
  PROVE  /\ Status(r) \in Statuses
         /\ Status(r) = 200 /\ r.op = "CREATE_SESSION" => count < n
         /\ Status(r) = 409 => r.op = "ADD_RULE" /\ Rivals(r.arg) \cap Session(r).rules # {}
<1>1. CASE r.op \in Sessionless
  <2>1. PICK full \in BOOLEAN : full <=> (Cardinality(Active(r.server)) >= MaxSessions)
    OBVIOUS
  <2>2. Status(r) = IF r.op = "CREATE_SESSION" /\ (full \/ count >= n) THEN 503 ELSE 200
    BY <1>1, <2>1 DEF Status
  <2> QED BY <2>2 DEF Statuses
<1>2. CASE r.op \notin Sessionless
  <2>1. PICK many \in BOOLEAN : many <=> (Cardinality(Session(r).rules) >= MaxRules)
    OBVIOUS
  <2>2. PICK rival \in BOOLEAN : rival <=> (Rivals(r.arg) \cap Session(r).rules # {})
    OBVIOUS
  <2>3. Status(r) =
          IF Session(r).state = "absent" THEN 404
          ELSE IF r.op \notin ReadOnly /\ Session(r).state = "closed" THEN 405
          ELSE IF r.op = "ADD_RULE" /\ many THEN 422
          ELSE IF r.op = "ADD_RULE" /\ rival THEN 409
          ELSE IF r.op \in {"UPDATE_RULE", "DELETE_RULE"} /\ r.arg \notin Session(r).rules THEN 404
          ELSE IF r.op = "GET_RESULT" /\ r.arg \notin Numbers(Session(r)) THEN 404
          ELSE 200
    BY <1>2, <2>1, <2>2 DEF Status
  <2>4. r.op # "CREATE_SESSION"
    BY <1>2 DEF Sessionless
  <2>5. Status(r) \in Statuses
    BY <2>3, Zenon DEF Statuses
  <2>6. Status(r) = 409 => r.op = "ADD_RULE" /\ rival
    BY <2>3
  <2> QED BY <2>2, <2>4, <2>5, <2>6
<1> QED BY <1>1, <1>2

\* A request leaves the servers what they are, gives a number that comes next, and takes
\* from a session only the rule it deletes.
LEMMA EffectFacts ==
  ASSUME Inv, NEW r, r.server \in Servers, r.op \notin Sessionless => r.sid \in Ids,
         r.op = "ADD_RULE" => r.arg \in RuleNames \cup Nat
  PROVE  /\ Effect(r) \in [Servers -> Server]
         /\ Status(r) = 200 /\ r.op = "CREATE_SESSION" => store[r.server].count + 1 \in Ids
         /\ \A sv \in Servers, i \in Ids : \A rule :
              rule \in store[sv].session[i].rules =>
                \/ rule \in Effect(r)[sv].session[i].rules
                \/ /\ Status(r) = 200 /\ r.op = "DELETE_RULE"
                   /\ sv = r.server /\ i = r.sid /\ rule = r.arg
         /\ Status(r) = 200 /\ r.op = "ADD_RULE" =>
              r.arg \in Effect(r)[r.server].session[r.sid].rules
<1>1. store \in [Servers -> Server]
  BY DEF Inv, ServersOK
<1>2. PICK s : s = store[r.server]
  OBVIOUS
<1>3. s \in Server /\ s.count \in Ids \cup {None} /\ s.session \in [Ids -> ServerSession]
  BY <1>1, <1>2 DEF Server
<1>4. Status(r) = 200 /\ r.op = "CREATE_SESSION" => s.count + 1 \in Ids
  <2>1. PICK n \in Nat : n = Cardinality(Ids)
    BY StateFileAssumption, FS_CardinalityType
  <2>2. Ids = 1 .. n
    BY <2>1, CliAssumption
  <2>3. Status(r) = 200 /\ r.op = "CREATE_SESSION" => s.count < n
    <3>1. s.count \in Nat
      BY <1>3, <2>2 DEF None
    <3> QED BY <1>2, <2>1, <3>1, StatusFacts
  <2> QED BY <1>3, <2>2, <2>3 DEF None
<1>5. CASE Effect(r) = store /\ ~(Status(r) = 200 /\ r.op = "ADD_RULE")
  BY <1>1, <1>2, <1>4, <1>5
<1>6. CASE Status(r) = 200 /\ r.op = "CREATE_SESSION"
  <2>1. PICK i \in Ids : i = s.count + 1
    BY <1>4, <1>6
  <2>2. PICK t : t = [s.session[i] EXCEPT !.state = "active"]
    OBVIOUS
  <2>3. t \in ServerSession /\ t.rules = s.session[i].rules
    <3>1. s.session[i] \in ServerSession
      BY <1>3
    <3> QED BY <2>2, <3>1 DEF ServerSession
  <2>4. PICK u : u = [s EXCEPT !.count = i, !.session = [s.session EXCEPT ![i] = t]]
    OBVIOUS
  <2>5. u \in Server /\ u.session = [s.session EXCEPT ![i] = t]
    BY <1>3, <2>3, <2>4 DEF Server
  <2>6. Effect(r) = [store EXCEPT ![r.server] = u]
    <3>1. Effect(r) = Created(r.server)
      BY <1>6 DEF Effect, Sessionless
    <3>2. Created(r.server) = [store EXCEPT ![r.server].count = i,
                                            ![r.server].session[i].state = "active"]
      BY <1>2, <2>1 DEF Created
    <3>3. PICK c : c = [s EXCEPT !.count = i]
      OBVIOUS
    <3>4. c.session = s.session /\ u = [c EXCEPT !.session = [s.session EXCEPT ![i] = t]]
      BY <1>3, <2>4, <3>3 DEF Server
    <3>5. [store EXCEPT ![r.server].count = i] = [store EXCEPT ![r.server] = c]
      BY <1>2, <3>3
    <3>6. PICK st : st = [store EXCEPT ![r.server] = c]
      OBVIOUS
    <3>7. st[r.server] = c /\ [st EXCEPT ![r.server] = u] = [store EXCEPT ![r.server] = u]
      BY <1>1, <3>6
    <3>8. Created(r.server) = [st EXCEPT ![r.server].session[i].state = "active"]
      BY <3>2, <3>5, <3>6
    <3>9. [st EXCEPT ![r.server].session[i].state = "active"]
            = [st EXCEPT ![r.server] = [c EXCEPT !.session[i].state = "active"]]
      BY <3>7
    <3>10. [c EXCEPT !.session[i].state = "active"] = u
      BY <2>2, <3>4
    <3> QED BY <3>1, <3>7, <3>8, <3>9, <3>10
  <2>7. Effect(r) \in [Servers -> Server]
    BY <1>1, <2>5, <2>6
  <2>8. ASSUME NEW sv \in Servers, NEW j \in Ids
        PROVE  Effect(r)[sv].session[j].rules = store[sv].session[j].rules
    BY <1>1, <1>2, <1>3, <2>3, <2>5, <2>6
  <2> QED BY <1>2, <1>4, <1>6, <2>7, <2>8
<1>7. CASE Status(r) = 200 /\ r.op \notin Sessionless
  <2>1. r.sid \in Ids
    BY <1>7
  <2>2. PICK t : t = s.session[r.sid]
    OBVIOUS
  <2>3. PICK t2 : t2 = Changed(t, r)
    OBVIOUS
  <2>4. t \in ServerSession
    BY <1>3, <2>1, <2>2
  <2>5. /\ t2 \in ServerSession
        /\ \A rule \in t.rules : rule \in t2.rules \/ (r.op = "DELETE_RULE" /\ rule = r.arg)
        /\ r.op = "ADD_RULE" => r.arg \in t2.rules
    <3>1. CASE r.op = "ADD_RULE"
      <4>1. t2 = [t EXCEPT !.rules = t.rules \cup {r.arg}]
        BY <2>3, <3>1 DEF Changed
      <4> QED BY <2>4, <3>1, <4>1 DEF ServerSession
    <3>2. CASE r.op = "DELETE_RULE"
      <4>1. t2 = [t EXCEPT !.rules = t.rules \ {r.arg}]
        BY <2>3, <3>2 DEF Changed
      <4> QED BY <2>4, <3>2, <4>1 DEF ServerSession
    <3>3. CASE r.op = "CLOSE_SESSION"
      <4>1. t2 = [t EXCEPT !.state = "closed"]
        BY <2>3, <3>3 DEF Changed
      <4> QED BY <2>4, <3>3, <4>1 DEF ServerSession
    <3>4. CASE r.op \notin {"ADD_RULE", "DELETE_RULE", "CLOSE_SESSION"}
      <4>1. t2 = t
        BY <2>3, <3>4 DEF Changed
      <4> QED BY <2>4, <3>4, <4>1
    <3> QED BY <3>1, <3>2, <3>3, <3>4
  <2>6. PICK u : u = [s EXCEPT !.session = [s.session EXCEPT ![r.sid] = t2]]
    OBVIOUS
  <2>7. u \in Server /\ u.session = [s.session EXCEPT ![r.sid] = t2]
    BY <1>3, <2>5, <2>6 DEF Server
  <2>8. Effect(r) = [store EXCEPT ![r.server] = u]
    <3>1. Effect(r) = [store EXCEPT ![r.server].session[r.sid] = Changed(@, r)]
      BY <1>7 DEF Effect, Sessionless
    <3> QED BY <1>1, <1>2, <1>3, <2>1, <2>2, <2>3, <2>6, <3>1
  <2>9. Effect(r) \in [Servers -> Server] /\ Effect(r)[r.server] = u
    BY <1>1, <2>7, <2>8
  <2>10. Effect(r)[r.server].session[r.sid] = t2
    BY <1>3, <2>1, <2>7, <2>9
  <2>11. ASSUME NEW sv \in Servers, NEW j \in Ids, ~(sv = r.server /\ j = r.sid)
         PROVE  Effect(r)[sv].session[j] = store[sv].session[j]
    BY <1>1, <1>2, <1>3, <2>7, <2>8, <2>11
  <2>12. ASSUME NEW sv \in Servers, NEW i \in Ids, NEW rule,
                rule \in store[sv].session[i].rules
         PROVE  \/ rule \in Effect(r)[sv].session[i].rules
                \/ /\ Status(r) = 200 /\ r.op = "DELETE_RULE"
                   /\ sv = r.server /\ i = r.sid /\ rule = r.arg
    <3>1. CASE sv = r.server /\ i = r.sid
      BY <1>2, <1>7, <2>2, <2>5, <2>10, <2>12, <3>1
    <3>2. CASE ~(sv = r.server /\ i = r.sid)
      BY <2>11, <2>12, <3>2
    <3> QED BY <3>1, <3>2
  <2> QED BY <1>2, <1>4, <2>5, <2>9, <2>10, <2>12
<1>8. \/ Effect(r) = store /\ ~(Status(r) = 200 /\ r.op = "ADD_RULE")
      \/ Status(r) = 200 /\ r.op = "CREATE_SESSION"
      \/ Status(r) = 200 /\ r.op \notin Sessionless
  BY DEF Effect, Sessionless
<1> QED BY <1>5, <1>6, <1>7, <1>8

\* The rule that a run installs next.
LEMMA RuleRequestFacts ==
  ASSUME NEW r, Base(r), RuleRequest(r, r.op, r.arg)
  PROVE  /\ r.op = "ADD_RULE" /\ r.arg \in RuleNames /\ r.arg = r.line.rules[r.next]
         /\ r.sid \in Ids /\ r.line.cmd = "run"
<1>1. r.line \in AnyLine /\ r.next \in Nat \ {0}
  BY DEF Base, Shape
<1>2. PICK rules \in Seq(RuleNames) : rules = Installed(r.line)
  BY <1>1, InstalledFacts
<1>3. RuleCount(r.line) = Len(rules) /\ Len(rules) \in Nat
  BY <1>2 DEF RuleCount
<1>4. r.next \in 1 .. Len(rules) /\ r.arg = rules[r.next]
  BY <1>1, <1>2, <1>3 DEF RuleRequest
<1>5. r.arg \in RuleNames
  BY <1>4
<1>6. rules[r.next] = r.line.rules[r.next]
  BY <1>1, <1>2, <1>3, <1>4, InstalledFacts
<1> QED BY <1>4, <1>5, <1>6 DEF RuleRequest, Running

\* What a request says, whichever it is.
LEMMA RequestFacts ==
  ASSUME NEW r, Base(r), Request(r, r.op, r.arg)
  PROVE  /\ r.op \notin Sessionless => r.sid \in Ids
         /\ r.op = "ADD_RULE" => r.arg \in RuleNames \cup Nat
         /\ r.op = "RUN_TEST" => ScenarioRequest(r, r.op, r.arg)
         /\ r.line.cmd = "run" => /\ r.sid \in Ids
                                  /\ \/ RuleRequest(r, r.op, r.arg)
                                     \/ ScenarioRequest(r, r.op, r.arg)
<1>1. r.line \in AnyLine /\ r.next \in Nat \ {0}
  BY DEF Base, Shape
<1>2. CASE RuleRequest(r, r.op, r.arg)
  <2>1. r.arg \in RuleNames /\ r.op = "ADD_RULE" /\ r.sid \in Ids
    BY <1>2, RuleRequestFacts
  <2> QED BY <1>2, <2>1
<1>3. CASE ScenarioRequest(r, r.op, r.arg)
  BY <1>3 DEF ScenarioRequest, Running
<1>4. CASE ResultRequest(r, r.op, r.arg)
  BY <1>4 DEF ResultRequest, Exporting
<1>5. CASE FirstRequest(r, r.op, r.arg)
  <2>1. r.op # "RUN_TEST" /\ r.line.cmd # "run"
    BY <1>5, OperationFacts DEF FirstRequest
  <2>2. r.arg \in RuleNames \cup Nat
    BY <1>1, <1>5 DEF FirstRequest, AnyLine
  <2> QED BY <1>5, <2>1, <2>2 DEF FirstRequest
<1> QED BY <1>2, <1>3, <1>4, <1>5 DEF Request

\* Rules leave a session only by being deleted.
RulesStay(st, next, del) ==
  \A sv \in Servers, i \in Ids : \A rule :
    rule \in st[sv].session[i].rules =>
      rule \in next[sv].session[i].rules \/ <<sv, i, rule>> \in del

\* A rule that stands goes on standing.
LEMMA StandsStill ==
  ASSUME NEW rule, NEW sv \in Servers, NEW i \in Ids, NEW st, NEW next, NEW del, NEW delNext,
         RulesStay(st, next, delNext), del \subseteq delNext, Stands(rule, sv, i, st, del)
  PROVE  Stands(rule, sv, i, next, delNext)
BY DEF RulesStay, Stands

\* So do the rules a run has installed.
LEMMA StaysInstalled ==
  ASSUME NEW r, Base(r), HasServer(r), Asks(r), NEW st, NEW next, NEW del, NEW delNext,
         RulesStay(st, next, delNext), del \subseteq delNext, InstalledSoFar(r, st, del)
  PROVE  InstalledSoFar(r, next, delNext)
<1> SUFFICES ASSUME r.at \in {"asked", "running"}, r.line.cmd = "run",
                    NEW i \in 1 .. RuleCount(r.line), i < r.next
             PROVE  Stands(r.line.rules[i], r.server, r.sid, next, delNext)
  BY DEF InstalledSoFar
<1>1. r.sid \in Ids /\ r.server \in Servers
  BY RequestFacts DEF Asks, HasServer
<1>2. Stands(r.line.rules[i], r.server, r.sid, st, del)
  BY DEF InstalledSoFar
<1> QED BY <1>1, <1>2, StandsStill

\* A step of a server and of the process it answers.
LEMMA ServerContextFacts ==
  ASSUME Inv, NEW p \in Procs, NEW f, Sound(f), FitsNext(p, f),
         DOMAIN proc' = Procs, proc'[p] = f, \A q \in Procs \ {p} : proc'[q] = proc[q],
         known \subseteq known', deleted \subseteq deleted', RulesStay(store, store', deleted'),
         \A run \in runs' \ runs : run.by = p,
         store' \in [Servers -> Server], runs' \subseteq Run,
         UnchangedFile, faults' = faults \/ Fault
  PROVE  Inv'
<1>1. file' = file /\ writes' = writes /\ touched' = touched
  BY DEF UnchangedFile, fileVars
<1>2. ASSUME NEW q \in Procs \ {p} PROVE Sound(proc[q]) /\ FitsNext(q, proc[q])
  <2>1. PICK r : r = proc[q]
    OBVIOUS
  <2>2. Sound(r) /\ Fits(q, r)
    BY <2>1 DEF Inv
  <2>3. InstalledSoFar(r, store', deleted')
    BY <2>2, StaysInstalled DEF Sound, Fits
  <2>4. WaitsForItsRun(q, r, runs')
    BY <2>2 DEF Fits, WaitsForItsRun, OneRun
  <2>5. Knows(r, known')
    BY <2>2 DEF Fits, Knows
  <2>6. FitsNext(q, r)
    BY <1>1, <2>2, <2>3, <2>4, <2>5 DEF Fits, FitsNext
  <2> QED BY <2>1, <2>2, <2>6
<1>3. ASSUME NEW q \in Procs PROVE Sound(proc'[q]) /\ FitsNext(q, proc'[q])
  <2>1. CASE q = p
    BY <2>1
  <2>2. CASE q # p
    BY <1>2, <2>2
  <2> QED BY <2>1, <2>2
<1>4. ServersOK'
  BY DEF ServersOK
<1>5. FileOK'
  BY <1>1 DEF Inv, FileOK, Remembers
<1>6. BoundsOK'
  BY <1>1, FaultsFacts DEF Inv, BoundsOK
<1> QED BY <1>3, <1>4, <1>5, <1>6, InvAfter

\* The server answers a request, or starts a scenario, or its answer is lost.
LEMMA ServeStep ==
  ASSUME Inv, NEW p \in Procs, Serve(p)
  PROVE  Inv'
<1>1. PICK r : r = proc[p]
  OBVIOUS
<1>2. /\ Sound(r) /\ Fits(p, r) /\ Base(r) /\ Shape(r) /\ r.at = "asked" /\ r.connected
      /\ Request(r, r.op, r.arg) /\ r.server \in Servers /\ (~r.prompt => r.code = 0)
      /\ r.line \in AnyLine /\ r.next \in Nat \ {0} /\ r.lines \in Nat
  BY <1>1 DEF Inv, Serve, Sound, Base, Shape, HasServer, Asks, Tells
<1>3. GoesOn(r)
  BY <1>2 DEF GoesOn
<1>4. /\ r.op \notin Sessionless => r.sid \in Ids
      /\ r.op = "ADD_RULE" => r.arg \in RuleNames \cup Nat
      /\ r.op = "RUN_TEST" => ScenarioRequest(r, r.op, r.arg)
      /\ r.line.cmd = "run" => /\ r.sid \in Ids
                               /\ \/ RuleRequest(r, r.op, r.arg)
                                  \/ ScenarioRequest(r, r.op, r.arg)
  BY <1>2, RequestFacts
<1>5. store \in [Servers -> Server] /\ runs \subseteq Run
  BY DEF Inv, ServersOK
<1>6. PICK n \in Nat : n = Cardinality(Ids) /\ Ids = 1 .. n
  BY StateFileAssumption, CliAssumption, FS_CardinalityType
<1>7. PICK count \in Nat : count = store[r.server].count
  BY <1>2, <1>5, <1>6 DEF Server, None
<1>8. PICK status : status = Status(r)
  OBVIOUS
<1>9. /\ status \in Statuses
      /\ status = 409 => r.op = "ADD_RULE" /\ Rivals(r.arg) \cap Session(r).rules # {}
  BY <1>6, <1>7, <1>8, StatusFacts
<1>10. /\ store' \in [Servers -> Server]
       /\ status = 200 /\ r.op = "CREATE_SESSION" => count + 1 \in Ids
       /\ \A sv \in Servers, i \in Ids : \A rule :
            rule \in store[sv].session[i].rules =>
              \/ rule \in store'[sv].session[i].rules
              \/ /\ status = 200 /\ r.op = "DELETE_RULE"
                 /\ sv = r.server /\ i = r.sid /\ rule = r.arg
       /\ status = 200 /\ r.op = "ADD_RULE" =>
            r.arg \in store'[r.server].session[r.sid].rules
  <2>1. store' = Effect(r)
    BY <1>1 DEF Serve
  <2> QED BY <1>2, <1>4, <1>7, <1>8, <2>1, EffectFacts
<1>11. PICK answered : answered = IF r.op = "CREATE_SESSION" THEN count + 1 ELSE r.sid
  OBVIOUS
<1>12. known' = IF status = 200 /\ answered # None
                THEN known \cup {<<answered, r.server>>} ELSE known
  BY <1>1, <1>7, <1>8, <1>11 DEF Serve
<1>13. deleted' = IF status = 200 /\ r.op = "DELETE_RULE"
                  THEN deleted \cup {<<r.server, r.sid, r.arg>>} ELSE deleted
  BY <1>1, <1>8 DEF Serve
<1>14. known \subseteq known' /\ deleted \subseteq deleted'
  BY <1>12, <1>13
<1>15. RulesStay(store, store', deleted')
  BY <1>10, <1>13 DEF RulesStay
<1>16. UnchangedFile /\ writes' = writes /\ file' = file /\ touched' = touched
  BY DEF Serve, UnchangedFile, fileVars
<1>17. InstalledSoFar(r, store', deleted')
  BY <1>2, <1>14, <1>15, StaysInstalled DEF Fits, Sound
<1>18. writes'[p] = NoWrite
  BY <1>2, <1>16 DEF Fits, FillsItsOwn
<1>19. \A run \in runs : run.by = p => run.line < r.lines
  <2>1. ASSUME NEW run \in runs, run.by = p PROVE run.line < r.lines
    <3>1. OneRun(p, r, run)
      BY <1>2 DEF Fits, WaitsForItsRun
    <3>2. run.line \in Nat
      BY <1>5 DEF Run
    <3> QED BY <1>2, <2>1, <3>1, <3>2 DEF OneRun
  <2> QED BY <2>1
<1>20. CASE r.op = "RUN_TEST" /\ status = 200
  <2>1. PICK run : run = [by |-> p, server |-> r.server, session |-> r.sid,
                          scenario |-> r.arg, line |-> r.lines]
    OBVIOUS
  <2>2. PICK f : f = [r EXCEPT !.at = "running"]
    OBVIOUS
  <2>3. runs' = runs \cup {run} /\ Set(p, f) /\ faults' = faults
    BY <1>1, <1>8, <1>20, <2>1, <2>2 DEF Serve
  <2>4. /\ f.at = "running" /\ DOMAIN f = Fields
        /\ \A field \in Fields \ {"at"} : f[field] = r[field]
    BY <1>2, <2>2 DEF Shape, Fields
  <2>5. "running" \in Awaits
    BY DEF Awaits
  <2>6. Shape(f)
    BY <1>2, <2>4, <2>5 DEF Shape, Fields
  <2>7. Base(f) /\ SameLine(r, f) /\ HasServer(f)
    BY <1>2, <2>4, <2>6 DEF Base, Fields, GaveUpRightly, SameLine, HasServer
  <2>8. StartsClean(f) /\ Writes(f) /\ Saves(f)
    BY <2>4 DEF StartsClean, Calm, Unstarted, Writes, Saves
  <2>9. Tells(f)
    BY <1>2, <2>4 DEF Tells, Fields
  <2>10. Asks(f)
    <3>1. ScenarioRequest(f, f.op, f.arg)
      BY <1>4, <1>20, <2>4 DEF ScenarioRequest, Running, Fields
    <3> QED BY <1>2, <1>20, <2>4, <3>1 DEF Asks, Request, Fields
  <2>11. Sound(f)
    BY <2>7, <2>8, <2>9, <2>10 DEF Sound
  <2>12. run \in Run
    <3>1. r.sid \in Ids /\ r.arg \in Nat
      BY <1>2, <1>4, <1>20, InstalledFacts DEF ScenarioRequest, Running
    <3> QED BY <1>2, <2>1, <3>1 DEF Run
  <2>13. WaitsForItsRun(p, f, runs')
    <3>1. /\ f.lines = r.lines /\ f.server = r.server /\ f.sid = r.sid /\ f.arg = r.arg
      BY <2>4 DEF Fields
    <3>2. OneRun(p, f, run)
      BY <1>2, <2>1, <2>4, <3>1 DEF OneRun
    <3>3. ASSUME NEW other \in runs PROVE OneRun(p, f, other)
      <4>1. other.line \in Nat
        BY <1>5 DEF Run
      <4> QED BY <1>2, <1>19, <3>1, <4>1 DEF OneRun
    <3> QED BY <2>3, <3>2, <3>3 DEF WaitsForItsRun
  <2>14. InstalledSoFar(f, store', deleted')
    BY <1>2, <1>17, <2>4 DEF InstalledSoFar, Fields
  <2>15. Knows(f, known')
    BY <1>2, <1>14, <2>4 DEF Fits, Knows, Fields
  <2>16. f.prompt = (p \in Prompts)
    BY <1>2, <2>4 DEF Fits, Fields
  <2>17. FillsItsOwn(p, f, writes') /\ ForgetsRightly(p, f, file', touched')
    BY <1>18, <2>4 DEF FillsItsOwn, ForgetsRightly
  <2>18. FitsNext(p, f)
    BY <2>13, <2>14, <2>15, <2>16, <2>17 DEF FitsNext
  <2>19. /\ DOMAIN proc' = Procs /\ proc'[p] = f
         /\ \A q \in Procs \ {p} : proc'[q] = proc[q]
    BY <2>3 DEF Inv, Set
  <2>20. runs' \subseteq Run /\ \A other \in runs' \ runs : other.by = p
    BY <1>5, <2>1, <2>3, <2>12
  <2> QED BY <1>10, <1>14, <1>15, <1>16, <2>3, <2>11, <2>18, <2>19, <2>20, ServerContextFacts
<1>21. CASE ~(r.op = "RUN_TEST" /\ status = 200)
  <2>1. PICK g : g = IF status = 200 /\ r.op # "RUN_TEST" THEN Did(r, r.op, r.arg) ELSE r
    OBVIOUS
  <2>2. /\ Replied(g, status) /\ SameLine(r, g)
        /\ \A field \in Fields \ {"deeds"} : g[field] = r[field]
    <3>1. CASE status = 200
      BY <1>2, <1>3, <1>21, <2>1, <3>1, ServedRequest
    <3>2. CASE status # 200
      BY <1>2, <1>3, <2>1, <3>2 DEF Replied, SameLine
    <3> QED BY <3>1, <3>2
  <2>3. /\ g.op = r.op /\ g.arg = r.arg /\ g.at = r.at /\ g.sid = r.sid /\ g.next = r.next
        /\ g.recalled = r.recalled /\ g.want = r.want /\ g.server = r.server
        /\ g.line = r.line /\ g.lines = r.lines /\ g.prompt = r.prompt
    BY <2>2 DEF Fields
  <2>4. runs' = runs /\ (\/ Set(p, Reply(g, status)) /\ faults' = faults
                         \/ Fault /\ Set(p, Cut(g)))
    BY <1>1, <1>8, <1>21, <2>1 DEF Serve
  <2>5. ASSUME NEW f, Set(p, f), Sound(f), SameLine(g, f), faults' = faults \/ Fault,
               f.at \notin {"filling", "forgetting", "running"},
               f.at = "opening" => f.line.cmd # "close",
               Knows(f, known'), InstalledSoFar(f, store', deleted')
        PROVE  Inv'
    <3>1. f.lines = r.lines /\ f.prompt = (p \in Prompts)
      BY <1>2, <2>3, <2>5 DEF SameLine, Fits
    <3>2. FillsItsOwn(p, f, writes') /\ ForgetsRightly(p, f, file', touched')
      BY <1>18, <2>5 DEF FillsItsOwn, ForgetsRightly
    <3>3. WaitsForItsRun(p, f, runs')
      <4>1. ASSUME NEW other \in runs PROVE OneRun(p, f, other)
        <5>1. other.line \in Nat
          BY <1>5 DEF Run
        <5> QED BY <1>2, <1>19, <3>1, <5>1 DEF OneRun
      <4> QED BY <2>4, <4>1 DEF WaitsForItsRun
    <3>4. FitsNext(p, f)
      BY <2>5, <3>1, <3>2, <3>3 DEF FitsNext
    <3>5. /\ DOMAIN proc' = Procs /\ proc'[p] = f
          /\ \A q \in Procs \ {p} : proc'[q] = proc[q]
      BY <2>5 DEF Inv, Set
    <3>6. runs' \subseteq Run /\ \A other \in runs' \ runs : other.by = p
      BY <1>5, <2>4
    <3> QED BY <1>10, <1>14, <1>15, <1>16, <2>5, <3>4, <3>5, <3>6, ServerContextFacts
  <2>6. CASE Set(p, Reply(g, status)) /\ faults' = faults
    <3>1. PICK f : f = Reply(g, status)
      OBVIOUS
    <3>2. Sound(f) /\ AfterReply(g, f, status, count + 1)
      <4>1. ResultsAreSequences(store)
        BY <1>5 DEF ResultsAreSequences, Server, ServerSession
      <4>2. g.server \in DOMAIN store /\ store[g.server].count = count
        BY <1>2, <1>5, <1>7, <2>3
      <4>3. g.op = "CREATE_SESSION" /\ status = 200 => store[g.server].count + 1 \in Ids
        BY <1>10, <2>3, <4>2
      <4> QED BY <1>9, <2>2, <3>1, <4>1, <4>2, <4>3, ReplyIsSound
    <3>3. Knows(f, known')
      <4>1. f.recalled => <<f.sid, f.server>> \in known'
        BY <1>2, <1>14, <2>3, <3>2 DEF AfterReply, SameLine, Fits, Knows
      <4>2. CASE f.at = "opening"
        <5>1. /\ f.want.server = r.server /\ status = 200 /\ f.want.session = answered
          BY <1>11, <2>3, <3>2, <4>2 DEF AfterReply
        <5>2. f.want.session # None => <<f.want.session, f.want.server>> \in known'
          BY <1>12, <5>1
        <5> QED BY <4>1, <5>2 DEF Knows
      <4>3. CASE f.at # "opening"
        <5>1. f.want \in {Nothing, r.want}
          BY <2>3, <3>2, <4>3 DEF AfterReply
        <5> QED BY <1>2, <1>14, <4>1, <5>1 DEF Knows, Fits, Nothing
      <4> QED BY <4>2, <4>3
    <3>4. InstalledSoFar(f, store', deleted')
      <4> SUFFICES ASSUME f.at \in {"asked", "running"}, f.line.cmd = "run",
                          NEW i \in 1 .. RuleCount(f.line), i < f.next
                   PROVE  Stands(f.line.rules[i], f.server, f.sid, store', deleted')
        BY DEF InstalledSoFar
      <4>1. /\ f.line = r.line /\ f.server = r.server /\ f.sid = r.sid /\ f.next = r.next + 1
            /\ r.op = "ADD_RULE" => status \in {200, 409}
        BY <2>3, <3>2 DEF AfterReply, SameLine
      <4>2. RuleCount(r.line) \in Nat /\ i \in Nat
        BY <1>2, InstalledFacts
      <4>3. CASE i < r.next
        BY <1>2, <1>17, <4>1, <4>3 DEF InstalledSoFar
      <4>4. CASE ~(i < r.next)
        <5>1. i = r.next
          BY <1>2, <4>1, <4>2, <4>4
        <5>2. RuleRequest(r, r.op, r.arg)
          <6>1. ~ScenarioRequest(r, r.op, r.arg)
            <7>1. PICK rules \in Nat : rules = RuleCount(r.line)
              BY <4>2
            <7>2. r.next <= rules
              BY <4>1, <5>1, <7>1
            <7>3. \A arg \in 1 .. Len(r.line.scenarios) : r.next # rules + arg
              BY <1>2, <7>2, InstalledFacts
            <7> QED BY <7>1, <7>3 DEF ScenarioRequest
          <6> QED BY <1>4, <4>1, <6>1
        <5>3. r.op = "ADD_RULE" /\ r.sid \in Ids /\ r.line.rules[i] = r.arg
              /\ r.arg \in RuleNames
          BY <1>2, <5>1, <5>2, RuleRequestFacts
        <5>4. CASE status = 200
          BY <1>10, <4>1, <5>3, <5>4 DEF Stands, Rivals
        <5>5. CASE status = 409
          <6>1. PICK other \in Rivals(r.arg) : other \in store[r.server].session[r.sid].rules
            BY <1>9, <5>5 DEF Session
          <6>2. other \in store'[r.server].session[r.sid].rules
            BY <1>2, <1>10, <5>3, <6>1
          <6> QED BY <4>1, <5>3, <6>1, <6>2 DEF Stands
        <5> QED BY <4>1, <5>3, <5>4, <5>5
      <4> QED BY <4>3, <4>4
    <3> QED BY <2>5, <2>6, <3>1, <3>2, <3>3, <3>4 DEF AfterReply
  <2>7. CASE Fault /\ Set(p, Cut(g))
    <3>1. PICK f : f = Cut(g)
      OBVIOUS
    <3>2. Sound(f) /\ SameLine(g, f) /\ Clean(f) /\ f.at \in {"prompt", "ended"}
      BY <1>2, <2>2, <2>3, <3>1, CutServedIsSound DEF CutOff, Replied, GoesOn
    <3>3. Knows(f, known') /\ InstalledSoFar(f, store', deleted')
      BY <3>2 DEF Knows, Clean, Nothing, InstalledSoFar
    <3> QED BY <2>5, <2>7, <3>1, <3>2, <3>3
  <2> QED BY <2>4, <2>6, <2>7
<1> QED BY <1>20, <1>21

\* One result more, or the oldest has gone for it.
LEMMA KeptFacts ==
  ASSUME NEW s \in Seq(Result), NEW item \in Result, NEW kept, kept = Append(s, item)
  PROVE  (IF Len(kept) > MaxResults THEN Tail(kept) ELSE kept) \in Seq(Result)
<1>1. kept \in Seq(Result) /\ Len(kept) = Len(s) + 1 /\ Len(s) \in Nat
  OBVIOUS
<1>2. kept # <<>>
  BY <1>1
<1>3. Tail(kept) \in Seq(Result)
  BY <1>1, <1>2
<1> QED BY <1>1, <1>3

\* The servers with a result more.
Recorded(run, number, results) ==
  [store EXCEPT ![run.server].results = number,
                ![run.server].session[run.session].results = results]

\* The end of a scenario changes the results of its session and nothing else there.
LEMMA ResultsFacts ==
  ASSUME Inv, NEW run \in Run, NEW number \in Nat, NEW results \in Seq(Result),
         NEW next, next = Recorded(run, number, results)
  PROVE  /\ next \in [Servers -> Server]
         /\ \A sv \in Servers, i \in Ids :
              next[sv].session[i].rules = store[sv].session[i].rules
<1>1. store \in [Servers -> Server] /\ run.server \in Servers /\ run.session \in Ids
  BY DEF Inv, ServersOK, Run
<1>2. PICK s : s = store[run.server]
  OBVIOUS
<1>3. s \in Server /\ s.results \in Nat /\ s.session \in [Ids -> ServerSession]
  BY <1>1, <1>2 DEF Server
<1>4. PICK t : t = s.session[run.session]
  OBVIOUS
<1>5. t \in ServerSession
  BY <1>1, <1>3, <1>4
<1>9. PICK t2 : t2 = [t EXCEPT !.results = results]
  OBVIOUS
<1>10. t2 \in ServerSession /\ t2.rules = t.rules
  BY <1>5, <1>9 DEF ServerSession
<1>11. PICK c : c = [s EXCEPT !.results = number]
  OBVIOUS
<1>12. c.session = s.session /\ c \in Server
  BY <1>3, <1>11 DEF Server
<1>13. PICK u : u = [c EXCEPT !.session = [s.session EXCEPT ![run.session] = t2]]
  OBVIOUS
<1>14. u \in Server /\ u.session = [s.session EXCEPT ![run.session] = t2]
  BY <1>3, <1>10, <1>12, <1>13 DEF Server
<1>15. next = [store EXCEPT ![run.server] = u]
  <2>1. [store EXCEPT ![run.server].results = number] = [store EXCEPT ![run.server] = c]
    BY <1>2, <1>11
  <2>2. PICK st : st = [store EXCEPT ![run.server] = c]
    OBVIOUS
  <2>3. st[run.server] = c /\ [st EXCEPT ![run.server] = u] = [store EXCEPT ![run.server] = u]
    BY <1>1, <2>2
  <2>4. next = [st EXCEPT ![run.server].session[run.session].results = results]
    BY <2>1, <2>2 DEF Recorded
  <2>5. [st EXCEPT ![run.server].session[run.session].results = results]
          = [st EXCEPT ![run.server] = [c EXCEPT !.session[run.session].results = results]]
    BY <2>3
  <2>6. [c EXCEPT !.session[run.session].results = results] = u
    BY <1>4, <1>9, <1>12, <1>13
  <2> QED BY <2>3, <2>4, <2>5, <2>6
<1>16. ASSUME NEW sv \in Servers, NEW i \in Ids
       PROVE  next[sv].session[i].rules = store[sv].session[i].rules
  <2>1. CASE sv = run.server
    <3>1. next[sv].session = [s.session EXCEPT ![run.session] = t2]
      BY <1>1, <1>14, <1>15, <2>1
    <3>2. next[sv].session[i].rules = s.session[i].rules
      BY <1>3, <1>4, <1>10, <3>1
    <3> QED BY <1>2, <2>1, <3>2
  <2>2. CASE sv # run.server
    BY <1>1, <1>15, <2>2
  <2> QED BY <2>1, <2>2
<1>17. next \in [Servers -> Server]
  BY <1>1, <1>14, <1>15
<1> QED BY <1>16, <1>17

\* A run is its fields.
LEMMA SameRun ==
  ASSUME NEW run \in Run, NEW other \in Run, run.by = other.by, run.server = other.server,
         run.session = other.session, run.scenario = other.scenario, run.line = other.line
  PROVE  run = other
<1>1. run = [by |-> run.by, server |-> run.server, session |-> run.session,
             scenario |-> run.scenario, line |-> run.line]
  BY DEF Run
<1>2. other = [by |-> other.by, server |-> other.server, session |-> other.session,
               scenario |-> other.scenario, line |-> other.line]
  BY DEF Run
<1> QED BY <1>1, <1>2

\* A scenario ends; who asked for it hears of it, unless its line is over.
LEMMA FinishStep ==
  ASSUME Inv, NEW run \in runs, NEW outcome, Finish(run, outcome)
  PROVE  Inv'
<1>1. run \in Run /\ runs \subseteq Run
  BY DEF Inv, ServersOK
<1>2. PICK p \in Procs : p = run.by
  BY <1>1 DEF Run
<1>3. PICK r : r = proc[p]
  OBVIOUS
<1>4. Sound(r) /\ Fits(p, r) /\ Base(r) /\ Shape(r) /\ r.lines \in Nat
  BY <1>3 DEF Inv, Sound, Base, Shape
<1>5. /\ store' \in [Servers -> Server] /\ RulesStay(store, store', deleted')
  <2>3. store \in [Servers -> Server] /\ run.server \in Servers /\ run.session \in Ids
    BY <1>1 DEF Inv, ServersOK, Run
  <2>4. PICK number \in Nat : number = store[run.server].results + 1
    BY <2>3 DEF Server
  <2>5. PICK item : item = [number |-> number, passed |-> outcome = "passed"]
    OBVIOUS
  <2>6. item \in Result
    BY <2>5 DEF Result
  <2>7. PICK s \in Seq(Result) : s = store[run.server].session[run.session].results
    BY <2>3 DEF Server, ServerSession
  <2>8. PICK results : results = IF Len(Append(s, item)) > MaxResults
                                 THEN Tail(Append(s, item)) ELSE Append(s, item)
    OBVIOUS
  <2>9. results \in Seq(Result)
    BY <2>6, <2>7, <2>8, KeptFacts
  <2>10. store' = Recorded(run, number, results)
    BY <2>4, <2>5, <2>7, <2>8 DEF Finish, Recorded
  <2>11. PICK next : next = store'
    OBVIOUS
  <2>12. /\ next \in [Servers -> Server]
         /\ \A sv \in Servers, i \in Ids :
              next[sv].session[i].rules = store[sv].session[i].rules
    BY <1>1, <2>9, <2>10, <2>11, ResultsFacts
  <2> QED BY <2>11, <2>12 DEF RulesStay
<1>6. /\ runs' = runs \ {run} /\ UnchangedFile /\ known' = known /\ deleted' = deleted
      /\ faults' = faults /\ writes' = writes /\ file' = file /\ touched' = touched
  BY DEF Finish, UnchangedFile, fileVars
<1>7. ASSUME NEW f, Sound(f), FitsNext(p, f),
             DOMAIN proc' = Procs, proc'[p] = f, \A q \in Procs \ {p} : proc'[q] = proc[q]
      PROVE  Inv'
  BY <1>1, <1>5, <1>6, <1>7, ServerContextFacts
<1>8. InstalledSoFar(r, store', deleted')
  BY <1>4, <1>5, <1>6, StaysInstalled DEF Fits, Sound
<1>9. CASE r.at = "running" /\ r.lines = run.line
  <2>1. /\ run.server = r.server /\ run.session = r.sid /\ run.scenario = r.arg
    BY <1>2, <1>4, <1>9 DEF Fits, WaitsForItsRun, OneRun
  <2>2. ScenarioRequest(r, r.op, r.arg) /\ r.op = "RUN_TEST" /\ GoesOn(r)
    BY <1>4, <1>9, RequestFacts DEF Sound, Asks, HasServer, Tells, GoesOn
  <2>3. PICK g : g = IF outcome = "passed" THEN Did(r, "passed", run.scenario) ELSE r
    OBVIOUS
  <2>4. /\ DOMAIN g = Fields /\ r.deeds \subseteq g.deeds
        /\ \A field \in Fields \ {"deeds"} : g[field] = r[field]
        /\ Shape(g) /\ SameLine(r, g) /\ GaveUpRightly(g)
        /\ outcome = "passed" => g.deeds = r.deeds \cup {<<"passed", r.arg>>}
        /\ outcome # "passed" => g.deeds = r.deeds
    <3>1. CASE outcome = "passed"
      BY <1>4, <2>1, <2>3, <3>1, DidFacts DEF Base
    <3>2. CASE outcome # "passed"
      BY <1>4, <2>3, <3>2 DEF Base, Shape, SameLine
    <3> QED BY <3>1, <3>2
  <2>5. /\ g.op = r.op /\ g.arg = r.arg /\ g.sid = r.sid /\ g.next = r.next
        /\ g.recalled = r.recalled /\ g.want = r.want /\ g.server = r.server
        /\ g.line = r.line /\ g.lines = r.lines /\ g.prompt = r.prompt
        /\ g.failures = r.failures /\ g.watching = r.watching /\ g.code = r.code
    BY <2>4 DEF Fields
  <2>6. GoesOn(g)
    BY <2>2, <2>4, <2>5 DEF GoesOn, Base
  <2>7. Concludes(g) /\ (outcome = "passed" => <<"passed", g.arg>> \in g.deeds)
    BY <2>2, <2>4, <2>5 DEF ScenarioRequest, Running, Concludes
  <2>8. PICK f : f = AfterScenario(g, outcome)
    OBVIOUS
  <2>9. Sound(f) /\ AfterReply(g, f, 404, 0)
    BY <2>6, <2>7, <2>8, AfterScenarioIsSound
  <2>10. Set(p, f)
    BY <1>2, <1>3, <1>9, <2>3, <2>8 DEF Finish
  <2>11. /\ DOMAIN proc' = Procs /\ proc'[p] = f
         /\ \A q \in Procs \ {p} : proc'[q] = proc[q]
    BY <2>10 DEF Inv, Set
  <2>12. /\ f.prompt = (p \in Prompts) /\ f.lines = r.lines /\ f.line = r.line
         /\ f.server = r.server
         /\ f.at \in {"asked", "saving", "prompt", "ended", "recalling"}
    BY <1>4, <2>5, <2>9 DEF AfterReply, SameLine, Fits
  <2>13. FillsItsOwn(p, f, writes') /\ ForgetsRightly(p, f, file', touched')
    BY <1>4, <1>6, <1>9, <2>12 DEF Fits, FillsItsOwn, ForgetsRightly
  <2>14. Knows(f, known')
    <3>1. f.recalled => <<f.sid, f.server>> \in known'
      BY <1>4, <1>6, <2>5, <2>9, <2>12 DEF AfterReply, Fits, Knows
    <3>2. f.want \in {Nothing, r.want}
      BY <2>5, <2>9, <2>12 DEF AfterReply
    <3> QED BY <1>4, <1>6, <3>1, <3>2 DEF Knows, Fits, Nothing
  <2>15. InstalledSoFar(f, store', deleted')
    <3> SUFFICES ASSUME f.at \in {"asked", "running"}, f.line.cmd = "run",
                        NEW i \in 1 .. RuleCount(f.line), i < f.next
                 PROVE  Stands(f.line.rules[i], f.server, f.sid, store', deleted')
      BY DEF InstalledSoFar
    <3>1. f.sid = r.sid
      BY <2>5, <2>9, <2>12 DEF AfterReply
    <3>2. i < r.next
      <4>1. PICK rules \in Nat : rules = RuleCount(r.line)
        BY <1>4, InstalledFacts DEF Shape
      <4>2. i \in 1 .. rules
        BY <2>12, <4>1
      <4>3. PICK arg \in Nat \ {0} : r.next = rules + arg
        BY <1>4, <2>2, <4>1, InstalledFacts DEF ScenarioRequest, Shape
      <4> QED BY <4>2, <4>3
    <3> QED BY <1>8, <1>9, <2>12, <3>1, <3>2 DEF InstalledSoFar
  <2>16. WaitsForItsRun(p, f, runs')
    <3>1. ASSUME NEW other \in runs \ {run} PROVE OneRun(p, f, other)
      <4>1. OneRun(p, r, other)
        BY <1>4 DEF Fits, WaitsForItsRun
      <4>2. ASSUME other.by = p, other.line = r.lines PROVE FALSE
        <5>1. other.server = r.server /\ other.session = r.sid /\ other.scenario = r.arg
          BY <1>9, <4>1, <4>2 DEF OneRun
        <5>2. other \in Run
          BY <1>1
        <5> QED BY <1>1, <1>2, <1>9, <2>1, <3>1, <4>2, <5>1, <5>2, SameRun
      <4> QED BY <2>12, <4>1, <4>2 DEF OneRun
    <3> QED BY <1>6, <3>1 DEF WaitsForItsRun
  <2>17. FitsNext(p, f)
    BY <2>12, <2>13, <2>14, <2>15, <2>16 DEF FitsNext
  <2> QED BY <1>7, <2>9, <2>11, <2>17
<1>10. CASE ~(r.at = "running" /\ r.lines = run.line)
  <2>1. proc' = proc
    BY <1>2, <1>3, <1>10 DEF Finish
  <2>2. FitsNext(p, r)
    BY <1>4, <1>6, <1>8 DEF Fits, FitsNext, WaitsForItsRun
  <2> QED BY <1>3, <1>4, <1>7, <2>1, <2>2 DEF Inv
<1> QED BY <1>9, <1>10

\* A server that has just started, and one with a session in which a test has failed.
LEMMA EmptyStoreFacts == EmptyStore \in Server
<1>1. <<>> \in Seq(Result)
  OBVIOUS
<1>2. Absent \in ServerSession
  BY <1>1 DEF Absent, ServerSession
<1> QED BY <1>2 DEF EmptyStore, Server, None

\* The other one.
LEMMA UsedStoreFacts == UsedStore \in Server /\ UsedStore.count = 1 /\ 1 \in Ids
<1>1. 1 \in Ids
  BY CliAssumption, StateFileAssumption, FS_CardinalityType
<1>2. PICK e : e = EmptyStore
  OBVIOUS
<1>3. e \in Server /\ e.session \in [Ids -> ServerSession]
  BY <1>2, EmptyStoreFacts DEF Server
<1>4. PICK results : results = <<[number |-> 1, passed |-> FALSE]>>
  OBVIOUS
<1>5. results \in Seq(Result)
  <2>1. [number |-> 1, passed |-> FALSE] \in Result
    BY DEF Result
  <2> QED BY <1>4, <2>1
<1>6. PICK t : t = [[e.session[1] EXCEPT !.state = "active"] EXCEPT !.results = results]
  OBVIOUS
<1>7. t \in ServerSession
  <2>1. e.session[1] \in ServerSession
    BY <1>1, <1>3
  <2> QED BY <1>5, <1>6, <2>1 DEF ServerSession
<1>8. PICK u : u = [[[e EXCEPT !.count = 1] EXCEPT !.results = 1]
                      EXCEPT !.session = [e.session EXCEPT ![1] = t]]
  OBVIOUS
<1>9. u \in Server /\ u.count = 1
  BY <1>1, <1>3, <1>7, <1>8 DEF Server
<1>10. UsedStore = u
  <2>1. UsedStore = [e EXCEPT !.count = 1, !.results = 1, !.session[1].state = "active",
                              !.session[1].results = results]
    BY <1>2, <1>4 DEF UsedStore
  <2>2. PICK c : c = [e EXCEPT !.count = 1, !.results = 1]
    OBVIOUS
  <2>3. c.session = e.session /\ u = [c EXCEPT !.session = [e.session EXCEPT ![1] = t]]
    BY <1>3, <1>8, <2>2 DEF Server
  <2>4. PICK s : s = [e.session EXCEPT ![1] = [e.session[1] EXCEPT !.state = "active"]]
    OBVIOUS
  <2>5. PICK d : d = [c EXCEPT !.session[1].state = "active"]
    OBVIOUS
  <2>6. d = [c EXCEPT !.session = s]
    BY <2>3, <2>4, <2>5
  <2>7. d.session = s
    BY <1>3, <2>2, <2>6 DEF Server
  <2>8. UsedStore = [d EXCEPT !.session[1].results = results]
    BY <2>1, <2>2, <2>5
  <2>9. UsedStore = [d EXCEPT !.session = [s EXCEPT ![1].results = results]]
    BY <2>7, <2>8
  <2>10. [s EXCEPT ![1].results = results] = [e.session EXCEPT ![1] = t]
    BY <1>1, <1>3, <1>6, <2>4
  <2> QED BY <2>3, <2>6, <2>9, <2>10
<1> QED BY <1>1, <1>9, <1>10

\* A process that has not been started.
LEMMA FreshIsSound ==
  ASSUME NEW p \in Procs
  PROVE  /\ Sound(Fresh(p)) /\ Fresh(p).at = "idle" /\ Fresh(p).prompt = (p \in Prompts)
         /\ Clean(Fresh(p))
<1>1. PICK line \in AnyLine : line = NoLine
  BY LineFacts DEF NoLine
<1>2. <<>> \in Seq(Nat) /\ <<>> \in Seq(RuleNames \cup Nat) /\ Nothing \in State
  BY DEF Nothing, State
<1>3. PICK nothing \in State : nothing = Nothing
  BY <1>2
<1>4. PICK f : f = Fresh(p)
  OBVIOUS
<1>12. PICK prompt : prompt = (p \in Prompts)
  OBVIOUS
<1>5. f = [at |-> "idle", prompt |-> prompt, server |-> None, connected |-> FALSE,
           watching |-> FALSE, deaf |-> FALSE, told |-> FALSE, line |-> line, lines |-> 0,
           code |-> 0, sid |-> None, recalled |-> FALSE, op |-> "none", arg |-> None, next |-> 1,
           failures |-> 0, listed |-> <<>>, got |-> <<>>, want |-> nothing,
           deeds |-> {}, gaveUp |-> None]
  BY <1>1, <1>3, <1>4, <1>12 DEF Fresh
<1>6. DOMAIN f = Fields
  BY <1>5 DEF Fields
<1>7. /\ f.at = "idle" /\ f.prompt = prompt /\ f.server = None /\ f.connected = FALSE
      /\ f.watching = FALSE /\ f.line = line /\ f.lines = 0 /\ f.code = 0 /\ f.sid = None
  BY <1>5
<1>13. /\ f.recalled = FALSE /\ f.next = 1 /\ f.failures = 0 /\ f.listed = <<>> /\ f.got = <<>>
       /\ f.want = nothing /\ f.deeds = {} /\ f.gaveUp = None
  BY <1>5
<1>14. "idle" \in Awaits /\ 0 \in Codes
  BY DEF Awaits, Codes
<1>15. f.listed \in Seq(Nat) /\ f.got \in Seq(RuleNames \cup Nat)
  BY <1>2, <1>13
<1>16. f.want \in State /\ f.line \in AnyLine
  BY <1>1, <1>3, <1>7, <1>13
<1>21. f.at = "idle" /\ f.code = 0
  BY <1>7
<1>17. f.at \in Awaits /\ f.code \in Codes
  BY <1>14, <1>21, Zenon
<1>18. f.connected \in BOOLEAN /\ f.lines \in Nat
  <2>1. f.connected = FALSE /\ f.lines = 0
    BY <1>7
  <2>2. FALSE \in BOOLEAN /\ 0 \in Nat
    OBVIOUS
  <2>3. f.connected \in BOOLEAN
    BY <2>1, <2>2, Zenon
  <2> QED BY <2>1, <2>3
<1>19. f.next \in Nat \ {0} /\ f.failures \in Nat
  BY <1>13
<1>20. f.sid \in Ids \cup {None} /\ f.server \in Servers \cup {None}
  BY <1>7
<1>8. Shape(f)
  BY <1>6, <1>15, <1>16, <1>17, <1>18, <1>19, <1>20 DEF Shape
<1>9. Base(f) /\ Clean(f)
  BY <1>3, <1>7, <1>13, <1>8 DEF Base, GaveUpRightly, Clean
<1>10. StartsClean(f) /\ HasServer(f) /\ Asks(f)
  BY <1>7, <1>13, <1>9 DEF StartsClean, HasServer, Asks
<1>11. Writes(f) /\ Saves(f) /\ Tells(f)
  BY <1>7, <1>13 DEF Writes, Saves, Tells
<1> QED BY <1>4, <1>7, <1>13, <1>9, <1>10, <1>11, <1>12 DEF Sound

\* The invariant holds at the start.
LEMMA InitIsSound ==
  ASSUME CliInit
  PROVE  Inv
<1>1. /\ proc = [p \in Procs |-> Fresh(p)] /\ store \in [Servers -> {EmptyStore, UsedStore}]
      /\ known = {<<1, sv>> : sv \in {s \in Servers : store[s].count = 1}}
      /\ file = Nothing \/ <<file.session, file.server>> \in known
      /\ runs = {} /\ faults = 0 /\ deleted = {} /\ touched = {}
      /\ file \in {Nothing} \cup [session : Ids, server : Servers]
      /\ writes = [p \in Procs |-> NoWrite]
  BY DEF CliInit, FileInit
<1>2. Remembers(Nothing, known)
  BY DEF Remembers, Nothing, State
<1>3. ASSUME NEW p \in Procs PROVE Sound(proc[p]) /\ Fits(p, proc[p])
  <2>1. PICK r : r = proc[p]
    OBVIOUS
  <2>2. Sound(r) /\ r.at = "idle" /\ r.prompt = (p \in Prompts) /\ Clean(r)
    BY <1>1, <2>1, FreshIsSound
  <2>3. FillsItsOwn(p, r, writes)
    BY <1>1, <2>2 DEF FillsItsOwn
  <2>4. Knows(r, known)
    BY <2>2 DEF Knows, Clean, Nothing
  <2>5. ForgetsRightly(p, r, file, touched) /\ InstalledSoFar(r, store, deleted)
    BY <2>2 DEF ForgetsRightly, InstalledSoFar
  <2>6. WaitsForItsRun(p, r, runs)
    BY <1>1 DEF WaitsForItsRun
  <2> QED BY <2>1, <2>2, <2>3, <2>4, <2>5, <2>6 DEF Fits
<1>4. ServersOK
  BY <1>1, EmptyStoreFacts, UsedStoreFacts DEF ServersOK
<1>5. FileOK
  <2>1. Remembers(file, known)
    <3>1. CASE file = Nothing
      BY <1>2, <3>1
    <3>2. CASE file # Nothing
      BY <1>1, <3>2 DEF Remembers, State
    <3> QED BY <3>1, <3>2
  <2>2. NoWrite.state = Nothing /\ NoWrite \in [state : State, clash : BOOLEAN]
    BY DEF NoWrite, Nothing, State
  <2> QED BY <1>1, <1>2, <2>1, <2>2 DEF FileOK
<1>6. BoundsOK
  BY <1>1, CliAssumption DEF BoundsOK
<1>7. DOMAIN proc = Procs
  BY <1>1
<1> QED BY <1>3, <1>4, <1>5, <1>6, <1>7 DEF Inv

\* A server starts anew, and cuts off who is connected to it.
LEMMA RestartStep ==
  ASSUME Inv, NEW sv \in Servers, Restart(sv)
  PROVE  Inv'
<1>1. /\ store' = [store EXCEPT ![sv] = EmptyStore]
      /\ runs' = {run \in runs : run.server # sv}
      /\ proc' = [p \in Procs |-> IF proc[p].connected /\ proc[p].server = sv
                                  THEN Cut(proc[p]) ELSE proc[p]]
      /\ file' = file /\ writes' = writes /\ touched' = touched
      /\ known' = known /\ deleted' = deleted
  BY DEF Restart, UnchangedFile, fileVars
<1>2. ASSUME NEW p \in Procs PROVE Sound(proc'[p]) /\ FitsNext(p, proc'[p])
  <2>1. PICK r : r = proc[p]
    OBVIOUS
  <2>2. Sound(r) /\ Fits(p, r)
    BY <2>1 DEF Inv
  <2>3. PICK f : f = proc'[p]
    OBVIOUS
  <2>4. CASE r.connected /\ r.server = sv
    <3>1. f = Cut(r)
      BY <1>1, <2>1, <2>3, <2>4
    <3>2. Sound(f) /\ CutOff(r, f)
      BY <2>2, <3>1, CutIsSound
    <3>3. f.prompt = (p \in Prompts) /\ Knows(f, known')
      BY <1>1, <2>2, <3>2 DEF CutOff, SameLine, Fits, Knows, Clean, Nothing
    <3>4. FillsItsOwn(p, f, writes') /\ ForgetsRightly(p, f, file', touched')
      BY <1>1, <2>2, <3>2 DEF CutOff, SameLine, Fits, FillsItsOwn, ForgetsRightly
    <3>5. InstalledSoFar(f, store', deleted')
      BY <3>2 DEF CutOff, InstalledSoFar
    <3>6. WaitsForItsRun(p, f, runs')
      BY <1>1, <2>2, <3>2 DEF CutOff, SameLine, Fits, WaitsForItsRun, OneRun
    <3> QED BY <2>3, <3>2, <3>3, <3>4, <3>5, <3>6 DEF FitsNext
  <2>5. CASE ~(r.connected /\ r.server = sv)
    <3>1. f = r
      BY <1>1, <2>1, <2>3, <2>5
    <3>2. InstalledSoFar(r, store', deleted')
      <4> SUFFICES ASSUME r.at \in {"asked", "running"}, r.line.cmd = "run",
                          NEW i \in 1 .. RuleCount(r.line), i < r.next
                   PROVE  Stands(r.line.rules[i], r.server, r.sid, store', deleted')
        BY DEF InstalledSoFar
      <4>1. r.connected /\ r.server # sv /\ r.server \in Servers
        BY <2>2, <2>5 DEF Sound, Asks, HasServer
      <4>2. store'[r.server] = store[r.server]
        BY <1>1, <4>1 DEF Inv, ServersOK
      <4>3. Stands(r.line.rules[i], r.server, r.sid, store, deleted)
        BY <2>2 DEF Fits, InstalledSoFar
      <4> QED BY <1>1, <4>2, <4>3 DEF Stands
    <3>3. WaitsForItsRun(p, r, runs')
      BY <1>1, <2>2 DEF Fits, WaitsForItsRun
    <3> QED BY <1>1, <2>2, <2>3, <3>1, <3>2, <3>3 DEF Fits, FitsNext
  <2> QED BY <2>4, <2>5
<1>3. ServersOK'
  <2>1. EmptyStore \in Server
    BY EmptyStoreFacts
  <2> QED BY <1>1, <2>1 DEF Inv, ServersOK
<1>4. FileOK'
  BY <1>1 DEF Inv, FileOK
<1>5. BoundsOK'
  BY <1>1, FaultsFacts DEF Inv, BoundsOK, Restart
<1>6. DOMAIN proc' = Procs
  BY <1>1
<1> QED BY <1>2, <1>3, <1>4, <1>5, <1>6, InvAfter

-----------------------------------------------------------------------------
(* The invariant, and what follows from it.                                 *)

\* Every step keeps the invariant.
LEMMA NextKeepsInv ==
  ASSUME Inv, [Next]_cliVars
  PROVE  Inv'
<1>1. CASE UNCHANGED cliVars
  <2>1. /\ proc' = proc /\ store' = store /\ runs' = runs /\ faults' = faults /\ known' = known
        /\ deleted' = deleted /\ touched' = touched /\ file' = file /\ writes' = writes
    BY <1>1 DEF cliVars, fileVars
  <2>2. ASSUME NEW p \in Procs PROVE Sound(proc'[p]) /\ FitsNext(p, proc'[p])
    BY <2>1 DEF Inv, Fits, FitsNext
  <2>3. ServersOK'
    BY <2>1 DEF Inv, ServersOK
  <2>4. FileOK'
    BY <2>1 DEF Inv, FileOK
  <2>5. BoundsOK'
    BY <2>1 DEF Inv, BoundsOK
  <2>6. DOMAIN proc' = Procs
    BY <2>1 DEF Inv
  <2> QED BY <2>2, <2>3, <2>4, <2>5, <2>6, InvAfter
<1>2. ASSUME NEW p \in Procs, Step(p) PROVE Inv'
  BY <1>2, ConnectStep, GreetStep, ResolveStep, ServeStep, GiveUpStep, WindowEndsStep, RecallStep,
     ForgetStep, OpenStep, FilledStep, SaveStep DEF Step
<1>3. ASSUME NEW p \in Procs,
             Refused(p) \/ Leave(p) \/ OpenFails(p) \/ Lose(p) \/ Interrupt(p)
      PROVE  Inv'
  BY <1>3, RefusedStep, LeaveStep, OpenFailsStep, LoseStep, InterruptStep
<1>4. ASSUME NEW p \in Procs \ Prompts, NEW sv \in Servers, NEW line \in Lines, Start(p, sv, line)
      PROVE  Inv'
  BY <1>4, LineFacts, StartStep
<1>5. ASSUME NEW p \in Prompts, NEW sv \in Servers, Start(p, sv, Line("repl")) PROVE Inv'
  <2>1. p \in Procs
    BY CliAssumption
  <2> QED BY <1>5, <2>1, LineFacts, StartStep
<1>6. ASSUME NEW p \in Prompts, NEW line \in Lines, Type(p, line) PROVE Inv'
  BY <1>6, CliAssumption, TypeStep
<1>7. ASSUME NEW run \in runs, NEW outcome, Finish(run, outcome) PROVE Inv'
  BY <1>7, FinishStep
<1>8. ASSUME NEW sv \in Servers, Restart(sv) PROVE Inv'
  BY <1>8, RestartStep
<1> QED BY <1>1, <1>2, <1>3, <1>4, <1>5, <1>6, <1>7, <1>8 DEF Next

\* So it always holds.
LEMMA InvHolds == Spec => []Inv
<1>1. CliInit => Inv
  BY InitIsSound
<1>2. Inv /\ [Next]_cliVars => Inv'
  BY NextKeepsInv
<1> QED BY <1>1, <1>2, PTL DEF Spec

\* However many processes share the file, and however their writes interleave, clash,
\* are cut short or fail: a command that takes its session from the file acts on one that
\* its own server has answered for, and a close that nobody wrote after forgets only the
\* session it closed (resolveSession, forgetSession).
THEOREM MemoryIsAlwaysTrue == Spec => []MemoryIsTrue
<1>1. Inv => NeverElsewhere
  <2>1. ASSUME Inv, NEW p \in Procs, proc[p].recalled
        PROVE  <<proc[p].sid, proc[p].server>> \in known
    BY <2>1 DEF Inv, Fits, Knows
  <2> QED BY <2>1 DEF NeverElsewhere
<1>2. Inv => ForgetsOnlyItsOwn
  <2>1. ASSUME Inv, NEW p \in Procs \ touched, proc[p].at = "opening",
               proc[p].line.cmd = "close"
        PROVE  file.session = proc[p].sid
    BY <2>1 DEF Inv, Fits, ForgetsRightly
  <2> QED BY <2>1 DEF ForgetsOnlyItsOwn
<1> QED BY <1>1, <1>2, InvHolds, PTL DEF MemoryIsTrue

\* Whatever is lost, refused, closed or restarted in between: exit code 0 means that all
\* the command promises was done at the server and came back, 3 that nothing was asked,
\* 2 that nothing succeeded but rules of a bundle; an export is whole; a run is given up
\* before its scenario only where neither says how long to wait (report, commandRun,
\* commandResultExport, runScenario).
THEOREM CodesAreAlwaysHonest == Spec => []CodesAreHonest
<1>1. Inv => TypeOK
  <2> SUFFICES ASSUME Inv PROVE TypeOK
    OBVIOUS
  <2>1. FileTypeOK
    BY DEF Inv, FileOK, Remembers, FileTypeOK
  <2>2. ASSUME NEW p \in Procs
        PROVE  LET r == proc[p]
               IN /\ r.at \in Awaits /\ r.code \in {0, 1, 2, 3, 130} /\ r.sid \in Ids \cup {None}
                  /\ (r.at = "filling") = (writes[p] # NoWrite)
                  /\ r.at \in {"asked", "running"} => r.connected
                  /\ r.at = "asked" /\ r.op \notin Sessionless => r.sid # None
    <3>1. PICK r : r = proc[p]
      OBVIOUS
    <3>2. Sound(r) /\ Fits(p, r)
      BY <3>1 DEF Inv
    <3>3. r.at \in Awaits /\ r.code \in {0, 1, 2, 3, 130} /\ r.sid \in Ids \cup {None}
      BY <3>2 DEF Sound, Base, Shape, Codes
    <3>4. (r.at = "filling") = (writes[p] # NoWrite)
      BY <3>2 DEF Fits, FillsItsOwn
    <3>5. r.at \in {"asked", "running"} => r.connected
      BY <3>2 DEF Sound, Asks
    <3>6. r.at = "asked" /\ r.op \notin Sessionless => r.sid # None
      BY <3>2, RequestFacts, StateFileAssumption DEF Sound, Asks
    <3> QED BY <3>1, <3>3, <3>4, <3>5, <3>6
  <2>3. \A sv \in Servers : store[sv].count \in Ids \cup {None}
    BY DEF Inv, ServersOK, Server
  <2> QED BY <2>1, <2>2, <2>3 DEF Inv, BoundsOK, TypeOK
<1>2. Inv => ZeroIsEarned
  <2>1. ASSUME Inv, NEW p \in Procs, proc[p].at \in {"prompt", "ended"}, proc[p].code = 0
        PROVE  Promise(proc[p].line) \subseteq proc[p].deeds
    BY <2>1 DEF Inv, Sound, Tells
  <2> QED BY <2>1 DEF ZeroIsEarned
<1>3. Inv => CodesTellApart
  <2>1. ASSUME Inv, NEW p \in Procs \ Prompts
        PROVE  /\ proc[p].code = 3 => proc[p].deeds = {}
               /\ proc[p].code = 2 => proc[p].deeds \subseteq RuleDeeds(proc[p].line)
    BY <2>1 DEF Inv, Fits, Sound, Tells
  <2> QED BY <2>1 DEF CodesTellApart, RuleDeeds
<1>4. Inv => ExportIsWhole
  <2>1. ASSUME Inv, NEW p \in Procs, proc[p].at = "saving"
        PROVE  proc[p].got = proc[p].listed
    BY <2>1 DEF Inv, Sound, Saves
  <2> QED BY <2>1 DEF ExportIsWhole
<1>5. Inv => OutlastsItsScenario
  <2>1. ASSUME Inv, NEW p \in Procs, proc[p].gaveUp # None
        PROVE  /\ proc[p].line.scenarios[proc[p].gaveUp] = None
               /\ proc[p].line.timeout <= DefaultTimeout
    BY <2>1 DEF Inv, Sound, Base, GaveUpRightly
  <2> QED BY <2>1 DEF OutlastsItsScenario
<1> QED BY <1>1, <1>2, <1>3, <1>4, <1>5, InvHolds, PTL DEF CodesAreHonest

\* For bundles of any length and any processes on the same session: no scenario starts
\* while a rule of its bundle is missing, unless a command deleted it (commandRun).
THEOREM RunsAlwaysHaveTheirRules == Spec => RunsWithItsRules
<1>1. ASSUME Inv, NEW p \in Procs, Serve(p), NEW run \in runs' \ runs,
             NEW rule \in ToSet(Installed(proc[run.by].line))
      PROVE  \E other \in Rivals(rule) :
               \/ other \in store[run.server].session[run.session].rules
               \/ <<run.server, run.session, other>> \in deleted
  <2>1. PICK r : r = proc[p]
    OBVIOUS
  <2>2. /\ run = [by |-> p, server |-> r.server, session |-> r.sid, scenario |-> r.arg,
                  line |-> r.lines]
        /\ r.op = "RUN_TEST" /\ r.at = "asked"
    BY <1>1, <2>1 DEF Serve
  <2>3. run.by = p /\ run.server = r.server /\ run.session = r.sid
    BY <2>2
  <2>4. Sound(r) /\ Fits(p, r) /\ r.line \in AnyLine
    BY <1>1, <2>1 DEF Inv, Sound, Base, Shape
  <2>5. ScenarioRequest(r, r.op, r.arg)
    BY <2>2, <2>4, RequestFacts DEF Sound, Asks
  <2>6. PICK rules \in Seq(RuleNames) : rules = Installed(r.line)
    BY <2>4, InstalledFacts
  <2>7. PICK i \in 1 .. Len(rules) : rules[i] = rule
    BY <1>1, <2>1, <2>3, <2>6 DEF ToSet
  <2>8. Len(rules) = RuleCount(r.line) /\ Len(rules) \in Nat
    BY <2>6 DEF RuleCount
  <2>9. r.line.rules[i] = rule
    BY <2>4, <2>6, <2>7, <2>8, InstalledFacts
  <2>10. i < r.next
    BY <2>4, <2>5, <2>7, <2>8, InstalledFacts DEF ScenarioRequest
  <2>11. Stands(rule, r.server, r.sid, store, deleted)
    BY <2>2, <2>4, <2>5, <2>7, <2>8, <2>9, <2>10 DEF Fits, InstalledSoFar, ScenarioRequest, Running
  <2> QED BY <2>3, <2>11 DEF Stands
<1>2. ASSUME Inv, Next, NEW run \in runs' \ runs PROVE \E p \in Procs : Serve(p)
  BY <1>2 DEF Next, Step, Connect, Greet, Resolve, GiveUp, WindowEnds, Recall, Forget, Open, Filled,
              Save, Refused, Leave, OpenFails, Lose, Interrupt, Start, Type, Finish, Restart,
              UnchangedServers
<1>3. ASSUME Inv, [Next]_cliVars, NEW run \in runs' \ runs,
             NEW rule \in ToSet(Installed(proc[run.by].line))
      PROVE  \E other \in Rivals(rule) :
               \/ other \in store[run.server].session[run.session].rules
               \/ <<run.server, run.session, other>> \in deleted
  <2>1. Next
    BY <1>3 DEF cliVars
  <2> QED BY <1>1, <1>2, <1>3, <2>1
<1>4. Inv /\ [Next]_cliVars =>
        [\A run \in runs' \ runs :
           \A rule \in ToSet(Installed(proc[run.by].line)) : \E other \in Rivals(rule) :
             \/ other \in store[run.server].session[run.session].rules
             \/ <<run.server, run.session, other>> \in deleted]_cliVars
  BY <1>3
<1> QED BY <1>4, InvHolds, PTL DEF Spec, RunsWithItsRules

=============================================================================
