--------------------------------- MODULE Cli ---------------------------------
(***************************************************************************)
(* apps/cli/src: processes of the command line, each one command or a       *)
(* prompt that runs several, on one connection each.  The control server    *)
(* answers a request at once, except a scenario, which takes its time.      *)
(* Output and argument spelling are left out.  A step of a process goes     *)
(* from one await of its command to the next.                               *)
(***************************************************************************)
EXTENDS StateFile, Sequences, SequencesExt, TLC

CONSTANTS Prompts,             \* the processes that run `repl`
          Lines,               \* command lines there are
          RuleNames,           \* rules that bundles and `rule add` install
          Twins,               \* pairs of rules with one match and one priority
          MaxSessions, MaxRules, MaxResults,   \* limits of the server
          MaxLines,            \* bound: lines typed at a prompt
          MaxFaults            \* bound: everything that goes wrong

ASSUME CliAssumption ==
  /\ Prompts \subseteq Procs
  /\ {MaxSessions, MaxLines, MaxFaults} \subseteq Nat
  /\ {MaxRules, MaxResults} \subseteq Nat \ {0}
  /\ Twins \subseteq RuleNames \X RuleNames
  /\ Ids = 1 .. Cardinality(Ids) /\ Ids # {}

VARIABLES proc,                \* per process: its command and how far it is
          store,               \* per server: its sessions
          runs,                \* scenarios under way at the servers
          faults,
          known,               \* history: sessions a server has answered for
          deleted,             \* history: rules deleted, with server and session
          touched              \* history: processes whose view of the file another
                               \* has written over since they read it

cliVars == <<fileVars, proc, store, runs, faults, known, deleted, touched>>

DefaultTimeout == 5            \* seconds: DEFAULT_TIMEOUT_MS
Slack == 5

\* What a command line says; the MC module overrides fields.
Line(cmd) ==
  [cmd |-> cmd, id |-> None, session |-> None, whole |-> TRUE, timeout |-> DefaultTimeout,
   json |-> FALSE, rule |-> None, rules |-> <<>>, install |-> TRUE, scenarios |-> <<>>]

-----------------------------------------------------------------------------
(* The servers: handlers.ts over the store.                                 *)

Absent == [state |-> "absent", rules |-> {}, results |-> <<>>]
EmptyStore == [count |-> 0, results |-> 0, session |-> [i \in Ids |-> Absent]]
Session(r) == store[r.server].session[r.sid]
Active(sv) == {i \in Ids : store[sv].session[i].state = "active"}

ReadOnly == {"GET_SESSION", "LIST_RULES", "LIST_RESULTS", "GET_RESULT"}
Sessionless == {"PING", "SERVER_INFO", "LIST_SESSIONS", "CREATE_SESSION"}
Success == {200, 210}

\* The rules a server refuses beside this one: of its name, or with its match.
Rivals(rule) == {other \in RuleNames : rule = other \/ <<rule, other>> \in Twins}

\* Results have a number and a verdict.
Numbers(s) == {result.number : result \in ToSet(s.results)}

\* The status of r's request.  Identifiers run out where the model's do.
Status(r) ==
  IF r.op \in Sessionless
  THEN IF r.op = "CREATE_SESSION" /\ (\/ Cardinality(Active(r.server)) >= MaxSessions
                                      \/ store[r.server].count >= Cardinality(Ids))
       THEN 503 ELSE 200
  ELSE IF Session(r).state = "absent" THEN 404
  ELSE IF r.op \notin ReadOnly /\ Session(r).state = "closed" THEN 405
  ELSE IF r.op = "ADD_RULE" /\ Cardinality(Session(r).rules) >= MaxRules THEN 422
  ELSE IF r.op = "ADD_RULE" /\ Rivals(r.arg) \cap Session(r).rules # {} THEN 409
  ELSE IF r.op \in {"UPDATE_RULE", "DELETE_RULE"} /\ r.arg \notin Session(r).rules THEN 404
  ELSE IF r.op = "GET_RESULT" /\ r.arg \notin Numbers(Session(r)) THEN 404
  ELSE 200

\* What it does to its session when it succeeds.
Changed(s, r) ==
  CASE r.op = "ADD_RULE" -> [s EXCEPT !.rules = @ \cup {r.arg}]
    [] r.op = "DELETE_RULE" -> [s EXCEPT !.rules = @ \ {r.arg}]
    [] r.op = "CLOSE_SESSION" -> [s EXCEPT !.state = "closed"]
    [] OTHER -> s

Created(sv) ==
  LET i == store[sv].count + 1
  IN [store EXCEPT ![sv].count = i, ![sv].session[i].state = "active"]

Effect(r) ==
  IF Status(r) # 200 \/ r.op \in Sessionless \ {"CREATE_SESSION"} THEN store
  ELSE IF r.op = "CREATE_SESSION" THEN Created(r.server)
  ELSE [store EXCEPT ![r.server].session[r.sid] = Changed(@, r)]

-----------------------------------------------------------------------------
(* A process, as a record: where a command goes next.                       *)

NoLine == Line("none")
Fresh(p) ==
  [at |-> "idle", prompt |-> p \in Prompts, server |-> None, connected |-> FALSE,
   watching |-> FALSE, deaf |-> FALSE, told |-> FALSE, line |-> NoLine, lines |-> 0, code |-> 0,
   sid |-> None, recalled |-> FALSE, op |-> "none", arg |-> None, next |-> 1,
   failures |-> 0, listed |-> <<>>, got |-> <<>>, want |-> Nothing,
   deeds |-> {}, gaveUp |-> None]      \* deaf, deeds and gaveUp are history

\* The command is over: main() reports its code, the prompt takes the next line
\* unless the connection is gone.  There a usage error is 1 as any other.
Finished(r, code) ==
  LET over == [r EXCEPT !.sid = None, !.recalled = FALSE, !.op = "none", !.arg = None,
                        !.next = 1, !.failures = 0, !.listed = <<>>, !.got = <<>>,
                        !.want = Nothing]
  IN IF r.prompt /\ r.watching
     THEN [over EXCEPT !.code = IF code = 0 THEN 0 ELSE 1,
                       !.at = IF r.connected THEN "prompt" ELSE "ended"]
     ELSE [over EXCEPT !.code = code, !.at = "ended", !.connected = FALSE]

\* client.send()
Ask(r, op, arg) ==
  IF r.connected THEN [r EXCEPT !.at = "asked", !.op = op, !.arg = arg] ELSE Finished(r, 1)

\* The request of each command that makes just one, or that begins with it.
Connectivity == [ping |-> "PING", info |-> "SERVER_INFO"]
SessionCommands ==
  [create |-> "CREATE_SESSION", list |-> "LIST_SESSIONS", show |-> "GET_SESSION",
   use |-> "GET_SESSION", close |-> "CLOSE_SESSION"]
RuleCommands ==
  [ruleAdd |-> "ADD_RULE", ruleList |-> "LIST_RULES", ruleUpdate |-> "UPDATE_RULE",
   ruleDelete |-> "DELETE_RULE"]
ResultCommands ==
  [resultList |-> "LIST_RESULTS", resultShow |-> "GET_RESULT", export |-> "LIST_RESULTS"]
Operation ==
  [cmd \in DOMAIN Connectivity \cup DOMAIN SessionCommands \cup DOMAIN RuleCommands
             \cup DOMAIN ResultCommands |->
     IF cmd \in DOMAIN Connectivity THEN Connectivity[cmd]
     ELSE IF cmd \in DOMAIN SessionCommands THEN SessionCommands[cmd]
     ELSE IF cmd \in DOMAIN RuleCommands THEN RuleCommands[cmd]
     ELSE ResultCommands[cmd]]

\* What options.ts makes of the arguments.
CommandLine ==
  [cmd : DOMAIN Operation \cup {"run", "raw", "scenarioShow", "misspelt"},
   id : Ids \cup {None}, session : Ids \cup {None}, whole : BOOLEAN, timeout : Int,
   json : BOOLEAN, rule : RuleNames \cup Nat, rules : Seq(RuleNames),
   install : BOOLEAN, scenarios : Seq(Nat)]

ASSUME LinesAssumption == Lines \subseteq CommandLine

RunEnded(r) == Finished(r, IF r.failures = 0 THEN 0 ELSE 1)

\* What loadScenarios() makes of a file or of flags: its rules, unless they are not to
\* be installed (--no-install-rules), beside the scenarios that --scenario selects.
Installed(line) == IF line.install THEN line.rules ELSE <<>>

\* commandRun: the rules in turn, then the scenarios, whatever came of those before.
\* That none was selected is found out when the rules are installed.
RunNext(r) ==
  LET rules == Len(Installed(r.line))
      scenarios == Len(r.line.scenarios)
  IN IF r.next <= rules THEN Ask(r, "ADD_RULE", r.line.rules[r.next])
     ELSE IF scenarios = 0 THEN Finished(r, 2)
     ELSE IF r.next <= rules + scenarios THEN Ask(r, "RUN_TEST", r.next - rules)
     ELSE RunEnded(r)

\* commandResultExport: every result of the list by itself, then the file.
ExportNext(r) ==
  IF r.next > Len(r.listed) THEN [r EXCEPT !.at = "saving"]
  ELSE Ask(r, "GET_RESULT", r.listed[r.next])

\* The rest of the arguments makes a rule, a patch or a bundle, or there is an
\* identifier: read only when the session is settled.
ArgumentsRead(line) == line.whole

Begin(r) ==
  IF ~ArgumentsRead(r.line) THEN Finished(r, 2)
  ELSE IF r.line.cmd = "run" THEN RunNext(r)
  ELSE Ask(r, Operation[r.line.cmd], r.line.rule)

\* commandScenarioShow asks the server for nothing, connected as it is: it needs the
\* name of a file (the line's id), and that it holds a bundle.
ScenarioShown(line) == IF line.id = None THEN 2 ELSE IF line.whole THEN 0 ELSE 1

\* dispatch(): which session a command acts on, as far as no file has to be read.
Dispatch(r) ==
  IF r.line.cmd \in {"ping", "info", "list", "create"} THEN Begin(r)
  ELSE IF r.line.cmd = "scenarioShow" THEN Finished(r, ScenarioShown(r.line))
  ELSE IF r.line.cmd = "raw"
  THEN IF ~r.line.whole THEN Finished(r, 2)
       ELSE IF r.connected THEN [r EXCEPT !.at = "raw"] ELSE Finished(r, 1)
  ELSE IF r.line.cmd \in {"show", "use", "close"} /\ r.line.id # None
  THEN Begin([r EXCEPT !.sid = r.line.id])
  ELSE IF r.line.cmd = "use" THEN Finished(r, 2)
  ELSE IF r.line.session # None THEN Begin([r EXCEPT !.sid = r.line.session])
  ELSE [r EXCEPT !.at = "resolving"]

\* Mutant of Resolved: the number is taken for any server.
ResolvedAnywhere(r) ==
  IF file.session = None THEN Finished(r, 2)
  ELSE Begin([r EXCEPT !.sid = file.session, !.recalled = TRUE])

\* resolveSession()
Resolved(r) ==
  IF file.session = None \/ file.server \notin {None, r.server} THEN Finished(r, 2)
  ELSE Begin([r EXCEPT !.sid = file.session, !.recalled = TRUE])

\* Mutant of AfterRule: any refusal is taken for a rule that is there.
AfterRuleAny(r, status) == RunNext([r EXCEPT !.next = @ + 1])

\* A rule of a bundle: a conflict means it is there already.
AfterRule(r, status) ==
  IF status \in Success \cup {409} THEN RunNext([r EXCEPT !.next = @ + 1]) ELSE Finished(r, 1)

\* Mutant of AfterScenario: a run without a result has not failed.
AfterScenarioLenient(r, outcome) ==
  RunNext([r EXCEPT !.next = @ + 1, !.failures = @ + IF outcome = "failed" THEN 1 ELSE 0])

\* A scenario: it has passed when the reply has a result that says so.
AfterScenario(r, outcome) ==
  RunNext([r EXCEPT !.next = @ + 1, !.failures = @ + IF outcome = "passed" THEN 0 ELSE 1])

AfterResult(r, status) ==
  IF status \in Success
  THEN ExportNext([r EXCEPT !.next = @ + 1, !.got = Append(@, r.arg)])
  ELSE Finished(r, 1)

\* rememberSession()
Remember(r, s) == [r EXCEPT !.at = "opening", !.want = [session |-> s, server |-> r.server]]

\* commandSessionCreate, commandSessionUse, commandSessionClose after a success.
SessionReply(r) ==
  CASE r.line.cmd = "create" -> Remember(r, store[r.server].count + 1)
    [] r.line.cmd = "use" -> Remember(r, r.sid)
    [] r.line.cmd = "close" -> [r EXCEPT !.at = "recalling"]
    [] OTHER -> Finished(r, 0)

\* commandResultShow: with --json the code says only that there is such a result.
ResultShown(r) ==
  IF \/ r.line.json
     \/ \E result \in ToSet(Session(r).results) : result.number = r.arg /\ result.passed
  THEN 0 ELSE 1

\* The reply to r's request, in the state in which the server gives it.  A scenario the
\* server finds invalid ends the run; by the same check none such is sent.
Reply(r, status) ==
  IF r.line.cmd = "run"
  THEN IF r.op = "ADD_RULE" THEN AfterRule(r, status)
       ELSE IF status = 422 THEN Finished(r, 1) ELSE AfterScenario(r, "refused")
  ELSE IF r.op = "GET_RESULT" /\ r.line.cmd = "export" THEN AfterResult(r, status)
  ELSE IF status \notin Success THEN Finished(r, 1)
  ELSE IF r.line.cmd = "export"
  THEN ExportNext([r EXCEPT !.listed = [i \in DOMAIN Session(r).results |->
                                          Session(r).results[i].number]])
  ELSE IF r.line.cmd = "resultShow"
  THEN Finished(r, ResultShown(r))
  ELSE SessionReply(r)

\* Mutant of Cut: the prompt is not told.
CutQuietly(r) ==
  IF r.at \in {"asked", "running"} THEN Finished([r EXCEPT !.connected = FALSE], 1)
  ELSE [r EXCEPT !.connected = FALSE]

\* The connection is lost: a request fails, and the prompt closes its input.
Cut(r) ==
  LET lost == [r EXCEPT !.connected = FALSE, !.told = r.watching]
  IN IF r.at \in {"asked", "running"} THEN Finished(lost, 1) ELSE lost

-----------------------------------------------------------------------------
(* Steps.                                                                   *)

Set(p, r) == proc' = [proc EXCEPT ![p] = r]
Did(r, what, item) == [r EXCEPT !.deeds = @ \cup {<<what, item>>}]
Fault == faults < MaxFaults /\ faults' = faults + 1
UnchangedServers == UNCHANGED <<store, runs, known, deleted>>
UnchangedFile == UNCHANGED <<fileVars, touched>>

\* main(): arguments are parsed before anything else.
Start(p, sv, line) ==
  /\ proc[p].at = "idle"
  /\ Set(p, IF line.cmd = "misspelt"
            THEN Finished([proc[p] EXCEPT !.line = line], 2)
            ELSE [proc[p] EXCEPT !.at = "connecting", !.server = sv, !.line = line])
  /\ UnchangedServers /\ UnchangedFile /\ UNCHANGED faults

Connect(p) ==
  /\ proc[p].at = "connecting"
  /\ Set(p, LET r == [proc[p] EXCEPT !.connected = TRUE]
            IN IF r.prompt THEN [r EXCEPT !.at = "greeting"] ELSE Dispatch(r))
  /\ UnchangedServers /\ UnchangedFile /\ UNCHANGED faults

Refused(p) ==
  /\ proc[p].at = "connecting"
  /\ Fault
  /\ Set(p, Finished(proc[p], 3))
  /\ UnchangedServers /\ UnchangedFile

\* runRepl() after it has read the file: from now on it hears of a loss.
Greet(p) ==
  /\ proc[p].at = "greeting"
  /\ Set(p, [proc[p] EXCEPT !.at = "prompt", !.watching = TRUE,
                            !.deaf = ~proc[p].connected])
  /\ UnchangedServers /\ UnchangedFile /\ UNCHANGED faults

\* A line of the prompt, also one that was read before its input closed.
Type(p, line) ==
  /\ proc[p].at = "prompt" /\ proc[p].lines < MaxLines
  /\ Set(p, LET r == [proc[p] EXCEPT !.lines = @ + 1, !.line = line, !.deeds = {},
                                     !.gaveUp = None]
            IN IF line.cmd = "misspelt" THEN Finished(r, 2) ELSE Dispatch(r))
  /\ UnchangedServers /\ UnchangedFile /\ UNCHANGED faults

\* The input is over: closed by the user, or because the connection is lost.
Leave(p) ==
  /\ proc[p].at = "prompt"
  /\ Set(p, [proc[p] EXCEPT !.at = "ended", !.connected = FALSE])
  /\ UnchangedServers /\ UnchangedFile /\ UNCHANGED faults

Resolve(p) ==
  /\ proc[p].at = "resolving"
  /\ Set(p, Resolved(proc[p]))
  /\ UnchangedServers /\ UnchangedFile /\ UNCHANGED faults

\* The server reads the request of p.  A scenario is started and answered later.
Serve(p) ==
  LET r == proc[p]
      status == Status(r)
      done == IF status = 200 /\ r.op # "RUN_TEST" THEN Did(r, r.op, r.arg) ELSE r
      answered == IF r.op = "CREATE_SESSION" THEN store[r.server].count + 1 ELSE r.sid
  IN /\ r.at = "asked"
     /\ store' = Effect(r)
     /\ known' = IF status = 200 /\ answered # None
                 THEN known \cup {<<answered, r.server>>} ELSE known
     /\ deleted' = IF status = 200 /\ r.op = "DELETE_RULE"
                   THEN deleted \cup {<<r.server, r.sid, r.arg>>} ELSE deleted
     /\ IF r.op = "RUN_TEST" /\ status = 200
        THEN /\ runs' = runs \cup {[by |-> p, server |-> r.server, session |-> r.sid,
                                   scenario |-> r.arg, line |-> r.lines]}
             /\ Set(p, [r EXCEPT !.at = "running"])
             /\ UNCHANGED faults
        ELSE /\ UNCHANGED runs
             /\ \/ Set(p, Reply(done, status)) /\ UNCHANGED faults
                \/ Fault /\ Set(p, Cut(done))      \* the reply is lost
     /\ UnchangedFile

\* A scenario ends: its result is stored, whatever has become of its session and of
\* who asked for it.
Finish(run, outcome) ==
  LET s == store[run.server].session[run.session]
      number == store[run.server].results + 1
      kept == Append(s.results, [number |-> number, passed |-> outcome = "passed"])
      r == proc[run.by]
      heard == r.at = "running" /\ r.lines = run.line
  IN /\ run \in runs
     /\ runs' = runs \ {run}
     /\ store' = [store EXCEPT
          ![run.server].results = number,
          ![run.server].session[run.session].results =
             IF Len(kept) > MaxResults THEN Tail(kept) ELSE kept]
     /\ IF heard
        THEN Set(run.by, AfterScenario(IF outcome = "passed"
                                       THEN Did(r, "passed", run.scenario) ELSE r, outcome))
        ELSE UNCHANGED proc
     /\ UnchangedFile /\ UNCHANGED <<known, deleted, faults>>

\* The timers, in seconds: of the scenario at the server, and of the request for it.
ScenarioTimeout(timeout) == IF timeout = None THEN DefaultTimeout ELSE timeout

ControlTimeout(line, timeout) ==
  IF line.timeout > timeout + Slack THEN line.timeout ELSE timeout + Slack

\* The client gives up first.  Messages take less than the slack: the timer can only
\* run out before the scenario's own where it is no longer than that.
GiveUp(p) ==
  LET r == proc[p]
      timeout == r.line.scenarios[r.arg]
  IN /\ r.at = "running"
     /\ ControlTimeout(r.line, timeout) <= ScenarioTimeout(timeout)
     /\ Set(p, Finished([r EXCEPT !.gaveUp = r.arg], 1))
     /\ UnchangedServers /\ UnchangedFile /\ UNCHANGED faults

\* `raw`: the window for a reply is over, or the connection is.
WindowEnds(p) ==
  /\ proc[p].at = "raw"
  /\ \E code \in {0, 1} : Set(p, Finished(proc[p], code))
  /\ UnchangedServers /\ UnchangedFile /\ UNCHANGED faults

-----------------------------------------------------------------------------
(* The file.                                                                *)

\* Processes that decided by what they read: another's write makes that stale.
Deciding(p) == {q \in Procs \ {p} : proc[q].at \in {"forgetting", "opening", "filling"}}

\* commandSessionClose, after the reply.
Recalled(r) ==
  IF file.session = r.sid THEN [r EXCEPT !.at = "forgetting"] ELSE Finished(r, 0)

Recall(p) ==
  /\ proc[p].at = "recalling"
  /\ Set(p, Recalled(proc[p]))
  /\ touched' = touched \ {p}
  /\ UNCHANGED fileVars /\ UnchangedServers /\ UNCHANGED faults

\* forgetSession() reads the file once more and drops whatever session is there.
Forget(p) ==
  /\ proc[p].at = "forgetting"
  /\ Set(p, IF file.session = None THEN Finished(proc[p], 0)
            ELSE [proc[p] EXCEPT !.at = "opening", !.want = [file EXCEPT !.session = None]])
  /\ UnchangedFile /\ UnchangedServers /\ UNCHANGED faults

Open(p) ==
  /\ proc[p].at = "opening"
  /\ Truncate(p, proc[p].want)
  /\ Set(p, [proc[p] EXCEPT !.at = "filling"])
  /\ touched' = touched \cup Deciding(p)
  /\ UnchangedServers /\ UNCHANGED faults

Filled(p) ==
  /\ proc[p].at = "filling"
  /\ Fill(p)
  /\ Set(p, Finished(Did(proc[p], "remember", proc[p].want.session), 0))
  /\ touched' = touched \cup Deciding(p)
  /\ UnchangedServers /\ UNCHANGED faults

\* The file cannot be written: only `use` says so by its code.
OpenFails(p) ==
  /\ proc[p].at = "opening"
  /\ Fault
  /\ Set(p, Finished(proc[p], IF proc[p].line.cmd = "use" THEN 1 ELSE 0))
  /\ UnchangedFile /\ UnchangedServers

\* The results are written, or cannot be.
Save(p) ==
  /\ proc[p].at = "saving"
  /\ \/ Set(p, Finished(Did(proc[p], "saved", None), 0)) /\ UNCHANGED faults
     \/ Fault /\ Set(p, Finished(proc[p], 1))
  /\ UnchangedFile /\ UnchangedServers

-----------------------------------------------------------------------------
(* Faults.                                                                  *)

Lose(p) ==
  /\ proc[p].connected /\ Fault
  /\ Set(p, Cut(proc[p]))
  /\ UnchangedFile /\ UnchangedServers

\* A server starts anew: it counts from one again and knows nothing.
Restart(sv) ==
  /\ Fault
  /\ store' = [store EXCEPT ![sv] = EmptyStore]
  /\ runs' = {run \in runs : run.server # sv}
  /\ proc' = [p \in Procs |-> IF proc[p].connected /\ proc[p].server = sv
                              THEN Cut(proc[p]) ELSE proc[p]]
  /\ UnchangedFile /\ UNCHANGED <<known, deleted>>

\* Ctrl+C: the process is gone, its write with it.
Interrupt(p) ==
  /\ proc[p].at \notin {"idle", "ended"} /\ Fault
  /\ Set(p, [Finished(proc[p], 130) EXCEPT !.at = "ended", !.connected = FALSE, !.code = 130])
  /\ Abandon(p)
  /\ UnchangedServers /\ UNCHANGED touched

-----------------------------------------------------------------------------

\* A session in which a test has failed: it may be there at the start, on any server,
\* and a file may remember it.
UsedStore ==
  [EmptyStore EXCEPT !.count = 1, !.results = 1, !.session[1].state = "active",
                     !.session[1].results = <<[number |-> 1, passed |-> FALSE]>>]

CliInit ==
  /\ FileInit
  /\ proc = [p \in Procs |-> Fresh(p)]
  /\ store \in [Servers -> {EmptyStore, UsedStore}]
  /\ known = {<<1, sv>> : sv \in {s \in Servers : store[s].count = 1}}
  /\ file = Nothing \/ <<file.session, file.server>> \in known
  /\ runs = {} /\ faults = 0 /\ deleted = {} /\ touched = {}

Step(p) ==
  \/ Connect(p) \/ Greet(p) \/ Resolve(p) \/ Serve(p) \/ GiveUp(p) \/ WindowEnds(p)
  \/ Recall(p) \/ Forget(p) \/ Open(p) \/ Filled(p) \/ Save(p)

Next ==
  \/ \E p \in Procs : \/ Step(p) \/ Refused(p) \/ Leave(p) \/ OpenFails(p) \/ Lose(p)
                      \/ Interrupt(p)
  \/ \E p \in Procs \ Prompts, sv \in Servers, line \in Lines : Start(p, sv, line)
  \/ \E p \in Prompts, sv \in Servers : Start(p, sv, Line("repl"))
  \/ \E p \in Prompts, line \in Lines : Type(p, line)
  \/ \E run \in runs, outcome \in {"passed", "failed"} : Finish(run, outcome)
  \/ \E sv \in Servers : Restart(sv)

Spec == CliInit /\ [][Next]_cliVars

\* A process goes on, the server answers and ends its scenarios, a connection is made
\* or refused, and a prompt whose input is closed reads to the end of it.
Fairness ==
  /\ \A p \in Procs : WF_cliVars(Step(p)) /\ WF_cliVars(proc[p].told /\ Leave(p))
  /\ WF_cliVars(\E run \in runs, outcome \in {"passed", "failed"} : Finish(run, outcome))

FairSpec == Spec /\ Fairness
-----------------------------------------------------------------------------
(* Properties.                                                              *)

Awaits == {"idle", "connecting", "greeting", "prompt", "resolving", "asked", "running", "raw",
           "recalling", "forgetting", "opening", "filling", "saving", "ended"}

\* Types: a write is under way just for the processes that fill the file, a request
\* just for those that are connected, and a session is wherever a request needs one.
TypeOK ==
  /\ FileTypeOK
  /\ \A p \in Procs :
       LET r == proc[p]
       IN /\ r.at \in Awaits /\ r.code \in {0, 1, 2, 3, 130} /\ r.sid \in Ids \cup {None}
          /\ (r.at = "filling") = (writes[p] # NoWrite)
          /\ r.at \in {"asked", "running"} => r.connected
          /\ r.at = "asked" /\ r.op \notin Sessionless => r.sid # None
  /\ \A sv \in Servers : store[sv].count \in Ids \cup {None}
  /\ touched \subseteq Procs /\ faults \in 0 .. MaxFaults

\* A command that takes its session from the file acts on one that this very server
\* has answered for, however the processes that write the file interleave, whatever
\* write is torn and whoever is interrupted (the purpose of `server` in CliState).
\* That a server that started anew may have given the number again is not excluded.
NeverElsewhere ==
  \A p \in Procs : proc[p].recalled => <<proc[p].sid, proc[p].server>> \in known

\* A close that no other process's write comes between forgets a session of the number
\* it closed, or nothing: what it reads the second time is what it compared.
ForgetsOnlyItsOwn ==
  \A p \in Procs \ touched :
    proc[p].at = "opening" /\ proc[p].line.cmd = "close" => file.session = proc[p].sid

\* What exit code 0 says of a command line has been done.
Promise(line) ==
  CASE line.cmd = "run" -> {<<"passed", i>> : i \in DOMAIN line.scenarios}
    [] line.cmd = "use" -> {<<"GET_SESSION", line.rule>>, <<"remember", line.id>>}
    [] line.cmd = "export" -> {<<"LIST_RESULTS", line.rule>>, <<"saved", None>>}
    [] line.cmd \in DOMAIN Operation \ {"use", "export"} -> {<<Operation[line.cmd], line.rule>>}
    [] OTHER -> {}

\* Exit code 0 is earned: the operation succeeded at the server and its reply came,
\* every scenario of a run has passed, what was to be written is written - also when
\* the session was closed or the server went away half-way.
ZeroIsEarned ==
  \A p \in Procs :
    /\ proc[p].at \in {"prompt", "ended"} /\ proc[p].code = 0
    => Promise(proc[p].line) \subseteq proc[p].deeds

\* Code 3 means nothing was asked of the server; code 2 that nothing succeeded there,
\* but for the rules of a bundle that has no scenario of the name given.
CodesTellApart ==
  \A p \in Procs \ Prompts :
    /\ proc[p].code = 3 => proc[p].deeds = {}
    /\ proc[p].code = 2 =>
         proc[p].deeds \subseteq {<<"ADD_RULE", rule>> : rule \in ToSet(proc[p].line.rules)}

\* No scenario of a bundle starts where a rule of the bundle is missing: its session
\* holds the rule or one the server took for it, unless a command has deleted that.
RunsWithItsRules ==
  [][\A run \in runs' \ runs :
       \A rule \in ToSet(Installed(proc[run.by].line)) : \E other \in Rivals(rule) :
         \/ other \in store[run.server].session[run.session].rules
         \/ <<run.server, run.session, other>> \in deleted]_cliVars

\* An export holds every result that was listed, in order, or is not written: one that
\* another run has pushed out of the store meanwhile is not passed over.
ExportIsWhole ==
  \A p \in Procs : proc[p].at = "saving" => proc[p].got = proc[p].listed

\* The client gives a run up before its scenario has timed out only when neither the
\* scenario nor the command line says how long to wait: then both wait five seconds
\* (commands.ts:463 says the request outlasts the scenario).
OutlastsItsScenario ==
  \A p \in Procs : proc[p].gaveUp # None =>
    /\ proc[p].line.scenarios[proc[p].gaveUp] = None
    /\ proc[p].line.timeout <= DefaultTimeout

\* Every command comes to its end, whatever its requests meet.
CommandsEnd ==
  \A p \in Procs :
    proc[p].at \notin {"idle", "prompt", "ended"} ~> proc[p].at \in {"prompt", "ended"}

\* A prompt that loses its connection ends by itself.  One that has lost it before it
\* watched, while it read the file, waits for a line it cannot send.
LostPromptEnds ==
  \A p \in Prompts :
    proc[p].watching /\ ~proc[p].connected /\ ~proc[p].deaf ~> proc[p].at = "ended"

\* The remembered session is one this server has answered for when it is used, and a
\* close forgets a session of the number it closed, which may be another server's
\* (commands.ts:246 compares no server), or nothing; a close that another process
\* writes in between may lose what that remembered (state.ts:84) and is not spoken of.
MemoryIsTrue ==
  /\ NeverElsewhere
  /\ ForgetsOnlyItsOwn

\* Exit codes and files say what was done, and what was given up.
CodesAreHonest ==
  /\ TypeOK
  /\ ZeroIsEarned
  /\ CodesTellApart
  /\ ExportIsWhole
  /\ OutlastsItsScenario

\* No command waits for ever, and no prompt for a server that is gone.
EveryProcessEnds ==
  /\ CommandsEnd
  /\ LostPromptEnds
=============================================================================
