------------------------------- MODULE MCCli -------------------------------
(***************************************************************************)
(* Command lines that meet each other: over the file, over a session that   *)
(* is closed or whose rules and results change, and over a connection that  *)
(* is lost.                                                                 *)
(***************************************************************************)
EXTENDS Cli

CONSTANTS a, b, here, there

MCTwins == {<<1, 2>>, <<2, 1>>}

Bundle == [Line("run") EXCEPT !.rules = <<1, 3>>, !.scenarios = <<10, None>>]

MCLines ==
  {Line(cmd) : cmd \in {"create", "close", "ruleList", "export", "misspelt", "raw"}}
  \cup {[Line("scenarioShow") EXCEPT !.id = 1], [Line("use") EXCEPT !.id = 1],
        [Line("close") EXCEPT !.id = 1],
        [Line("ruleAdd") EXCEPT !.rule = 2], [Line("ruleDelete") EXCEPT !.rule = 1],
        [Line("resultShow") EXCEPT !.rule = 2], Bundle,
        [Bundle EXCEPT !.scenarios = <<>>, !.session = 1],
        [Bundle EXCEPT !.install = FALSE, !.scenarios = <<None>>, !.timeout = 20]}

\* The server here has a session at first.  The prompt is here, and types a second line
\* when nothing has gone wrong; the other process goes elsewhere only for what
\* concerns the file.
Near ==
  /\ store[here].count > 0 \/ faults > 0
  /\ proc[b].server \in {None, here}
  /\ proc[b].lines = 2 => faults = 0 /\ proc[b].line.cmd \in {"close", "use", "run"}
  /\ proc[a].server = there => proc[a].line.cmd \in {"create", "close"}
=============================================================================
