----------------------------- MODULE Scenarios -----------------------------
(***************************************************************************)
(* What a test scenario may ask for and how an exchange is judged: the      *)
(* checks of validation.ts across the fields of a scenario, and             *)
(* assertions.ts.  A field that is only compared is one of ContentFields    *)
(* and its value an edition of the rule that produced the response.         *)
(***************************************************************************)
EXTENDS Integers, Sequences

None == 0
Modes == {"single", "fragmented", "coalesced"}
ContentFields == {"statusPhrase", "headers", "body", "bodyContains", "jsonSubset"}

\* Codes of responses: of the rule, of writeError, and none expected.
Codes == {"rule", "400", "410", "500", "close", "other"}

\* ScenarioExpectation.  content maps the fields that are given to the
\* edition whose value they name.
Expectation(editions) ==
  [timeout : BOOLEAN, disconnect : BOOLEAN, statusCode : Codes \cup {"any"},
   content : UNION {[fields -> editions] : fields \in SUBSET ContentFields}]

\* validateExpectation(): the contradictions it refuses.
ValidExpectation(e) ==
  /\ ~(e.timeout /\ e.statusCode # "any")
  /\ ~(e.timeout /\ e.disconnect)
  /\ ~(e.disconnect /\ e.statusCode # "any")
  /\ ~({"body", "bodyContains"} \subseteq DOMAIN e.content)

\* validateScenario(): the mode with the fields it needs.  Fields of another
\* mode are let through.
ValidTransmission(t) ==
  /\ t.mode \in Modes
  /\ \A k \in DOMAIN t.sizes : t.sizes[k] > 0
  /\ t.count = None \/ t.count >= 2
  /\ t.mode = "fragmented" => t.sizes # <<>> \/ t.count # None
  /\ t.mode = "coalesced" => Len(t.messages) = 2

-----------------------------------------------------------------------------
(* evaluateExchange().                                                      *)

Agrees(e, r) ==
  /\ e.statusCode # "any" => e.statusCode = r.code
  /\ \A f \in DOMAIN e.content : e.content[f] = r.edition

\* Mutant of EvaluateExchange: the response is compared first.
EvaluateResponseFirst(e, o) ==
  CASE o.response # <<>> -> IF Agrees(e, o.response[1]) THEN "passed" ELSE "failed"
    [] o.response = <<>> /\ e.timeout -> IF o.timedOut THEN "passed" ELSE "failed"
    [] o.response = <<>> /\ ~e.timeout /\ e.disconnect ->
         IF o.disconnected THEN "passed" ELSE "failed"
    [] OTHER -> IF o.timedOut THEN "timeout" ELSE "error"

\* The outcome of an exchange; response is empty or holds the first one.
EvaluateExchange(e, o) ==
  IF e.timeout THEN IF o.timedOut THEN "passed" ELSE "failed"
  ELSE IF e.disconnect THEN IF o.disconnected THEN "passed" ELSE "failed"
  ELSE IF o.timedOut THEN "timeout"
  ELSE IF o.disconnected THEN "failed"
  ELSE IF o.response = <<>> THEN "error"
  ELSE IF Agrees(e, o.response[1]) THEN "passed"
  ELSE "failed"
=============================================================================
