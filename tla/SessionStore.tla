---------------------------- MODULE SessionStore ----------------------------
(***************************************************************************)
(* The sessions of a server: packages/core/src/session-store.ts.  A call is *)
(* one use of the store by one caller.  createSession and closeSession wait *)
(* for the session's mock endpoint, RUN_TEST for its scenario, so calls     *)
(* interleave there; everything else runs to completion.  The rules of a    *)
(* session are SessionRules; here only how often they changed is kept.      *)
(***************************************************************************)
EXTENDS Integers, Sequences, FiniteSets, SequencesExt

CONSTANTS Calls,               \* the calls that are made, each once
          MaxSessions,
          MaxResultsPerSession

ASSUME StoreAssumption ==
  /\ IsFiniteSet(Calls)
  /\ MaxSessions \in Nat
  /\ MaxResultsPerSession \in Nat \ {0}

\* newSessionId: ses-1, ses-2...
SessionIds == 1 .. Cardinality(Calls)
NoSession == 0

VARIABLES call,                \* what each call asked for and was answered
          session,             \* the Map of records, and the endpoints
          sessionNumber,       \* identifiers handed out by newSessionId
          sweep,               \* closeAll(): "no", "waiting" or "done"
          swept,               \* the sessions it waits for
          completed            \* history: the tests completed for a session

storeVars == <<call, session, sessionNumber, sweep, swept, completed>>

Pending == 0
Unmade == [op |-> "none", session |-> NoSession, status |-> Pending]
Absent == [state |-> "absent", endpoint |-> "none", results |-> <<>>, rules |-> 0]

StoreInit ==
  /\ call = [c \in Calls |-> Unmade]
  /\ session = [s \in SessionIds |-> Absent]
  /\ sessionNumber = 0
  /\ sweep = "no"
  /\ swept = {}
  /\ completed = [s \in SessionIds |-> <<>>]

InState(state) == {s \in SessionIds : session[s].state = state}
Waiting(op) == {c \in Calls : call[c].op = op /\ call[c].status = Pending}
On(s) == {c \in Calls : call[c].session = s}

\* Call c is made now and answered with status, Pending while it waits.
Make(c, op, s, status) ==
  /\ call[c] = Unmade
  /\ call' = [call EXCEPT ![c] = [op |-> op, session |-> s, status |-> status]]

\* Every call of a set is answered.
Answer(cs, status) ==
  call' = [c \in Calls |-> IF c \in cs
                           THEN [call[c] EXCEPT !.status = status] ELSE call[c]]

-----------------------------------------------------------------------------

\* Mutant of NextNumber: the counter is the number of records there are.
NextNumberByRecords == Cardinality(InState("active") \cup InState("closed")) + 1

NextNumber == sessionNumber + 1

CreateSession(c) ==
  IF Cardinality(InState("active")) >= MaxSessions
  THEN /\ Make(c, "create", NoSession, 503)
       /\ UNCHANGED <<session, sessionNumber, sweep, swept, completed>>
  ELSE /\ Make(c, "create", NextNumber, Pending)
       /\ sessionNumber' = NextNumber
       /\ session' = [session EXCEPT ![NextNumber].endpoint = "starting"]
       /\ UNCHANGED <<sweep, swept, completed>>

\* startMockEndpoint() resolves: only now is the record in the Map.
EndpointListens(c) ==
  /\ c \in Waiting("create")
  /\ Answer({c}, 201)
  /\ session' = [session EXCEPT ![call[c].session].state = "active",
                                ![call[c].session].endpoint = "listening"]
  /\ UNCHANGED <<sessionNumber, sweep, swept, completed>>

\* startMockEndpoint() rejects.
EndpointFails(c) ==
  /\ c \in Waiting("create")
  /\ Answer({c}, 500)
  /\ session' = [session EXCEPT ![call[c].session].endpoint = "none"]
  /\ UNCHANGED <<sessionNumber, sweep, swept, completed>>

\* What requireActive (and closeSession) answers before anything else.
Refusal(s) ==
  CASE session[s].state = "absent" -> 404
    [] session[s].state = "closed" -> 405
    [] OTHER -> Pending

\* Mutant of CloseSession: says closed before the endpoint has stopped.
CloseSessionEarly(c, s) ==
  /\ Make(c, "close", s, Refusal(s))
  /\ session' = IF Refusal(s) = Pending
                THEN [session EXCEPT ![s].endpoint = "stopping", ![s].state = "closed"]
                ELSE session
  /\ UNCHANGED <<sessionNumber, sweep, swept, completed>>

\* endpoint.close() destroys the connections and stops listening; the record
\* stays active until it resolves.
CloseSession(c, s) ==
  /\ Make(c, "close", s, Refusal(s))
  /\ session' = IF Refusal(s) = Pending
                THEN [session EXCEPT ![s].endpoint = "stopping"] ELSE session
  /\ UNCHANGED <<sessionNumber, sweep, swept, completed>>

\* Mutant of Closers: one caller is told.
OneCloser(s) ==
  LET cs == Waiting("close") \cap On(s)
  IN  IF cs = {} THEN {} ELSE {CHOOSE c \in cs : TRUE}

Closers(s) == Waiting("close") \cap On(s)

\* The listener reports that it is closed: everyone who waits for it resumes.
EndpointStopped(s) ==
  /\ session[s].endpoint = "stopping"
  /\ session' = [session EXCEPT ![s].endpoint = "stopped", ![s].state = "closed"]
  /\ Answer(Closers(s), 204)
  /\ swept' = swept \ {s}
  /\ UNCHANGED <<sessionNumber, sweep, completed>>

\* Mutant of CloseAll: passes over the sessions that are closing already.
CloseAllListening ==
  /\ sweep = "no"
  /\ sweep' = "waiting"
  /\ swept' = {s \in InState("active") : session[s].endpoint = "listening"}
  /\ session' = [s \in SessionIds |->
                   IF s \in swept'
                   THEN [session[s] EXCEPT !.endpoint = "stopping"] ELSE session[s]]
  /\ UNCHANGED <<call, sessionNumber, completed>>

\* closeAll(): the endpoints of the sessions active at this moment.
CloseAll ==
  /\ sweep = "no"
  /\ sweep' = "waiting"
  /\ swept' = InState("active")
  /\ session' = [s \in SessionIds |->
                   IF session[s].state = "active"
                   THEN [session[s] EXCEPT !.endpoint = "stopping"] ELSE session[s]]
  /\ UNCHANGED <<call, sessionNumber, completed>>

CloseAllReturns ==
  /\ sweep = "waiting" /\ swept = {}
  /\ sweep' = "done"
  /\ UNCHANGED <<call, session, sessionNumber, swept, completed>>

\* Mutant of MutateRules: does not ask whether the session is active.
MutateRulesUnguarded(c, s) ==
  /\ Make(c, "mutate", s, IF session[s].state = "absent" THEN 404 ELSE 212)
  /\ session' = IF session[s].state = "absent"
                THEN session ELSE [session EXCEPT ![s].rules = @ + 1]
  /\ UNCHANGED <<sessionNumber, sweep, swept, completed>>

\* addRule, updateRule, deleteRule
MutateRules(c, s) ==
  /\ Make(c, "mutate", s, IF Refusal(s) = Pending THEN 212 ELSE Refusal(s))
  /\ session' = IF Refusal(s) = Pending
                THEN [session EXCEPT ![s].rules = @ + 1] ELSE session
  /\ UNCHANGED <<sessionNumber, sweep, swept, completed>>

\* RUN_TEST asks for the endpoint of an active session and runs the scenario.
RunTest(c, s) ==
  /\ Make(c, "run", s, Refusal(s))
  /\ UNCHANGED <<session, sessionNumber, sweep, swept, completed>>

\* The oldest are shifted out until the rest fits.
Kept(results) ==
  IF Len(results) > MaxResultsPerSession
  THEN SubSeq(results, Len(results) - MaxResultsPerSession + 1, Len(results))
  ELSE results

\* runScenario() resolves, and addResult() stores the result: it looks the
\* session up but does not ask whether it is still active.
TestFinished(c, status) ==
  LET s == call[c].session IN
  /\ c \in Waiting("run")
  /\ Answer({c}, status)
  /\ session' = [session EXCEPT ![s].results = Kept(Append(@, c))]
  /\ completed' = [completed EXCEPT ![s] = Append(@, c)]
  /\ UNCHANGED <<sessionNumber, sweep, swept>>

\* What one call of the store starts.
Start(c) ==
  \/ CreateSession(c)
  \/ \E s \in SessionIds : CloseSession(c, s) \/ MutateRules(c, s) \/ RunTest(c, s)

\* What a waiting call, or the sweep, resumes with.
Resume ==
  \/ \E c \in Calls : \/ EndpointListens(c)
                      \/ EndpointFails(c)
                      \/ \E status \in {210, 211, 408} : TestFinished(c, status)
  \/ \E s \in SessionIds : EndpointStopped(s)
  \/ CloseAllReturns

Next == (\E c \in Calls : Start(c)) \/ CloseAll \/ Resume

\* Endpoints start and stop, or fail, in bounded time, and every wait of a
\* scenario has a timeout.
StoreFairness ==
  /\ \A c \in Calls : /\ WF_storeVars(EndpointListens(c) \/ EndpointFails(c))
                      /\ WF_storeVars(\E status \in {210, 211, 408} : TestFinished(c, status))
  /\ \A s \in SessionIds : WF_storeVars(EndpointStopped(s))
  /\ WF_storeVars(CloseAllReturns)

Spec == StoreInit /\ [][Next]_storeVars /\ StoreFairness

-----------------------------------------------------------------------------
(* Properties *)

Statuses == {Pending, 201, 204, 210, 211, 212, 404, 405, 408, 500, 503}

TypeOK ==
  /\ call \in [Calls -> [op : {"none", "create", "close", "mutate", "run"},
                        session : SessionIds \cup {NoSession},
                        status : Statuses]]
  /\ session \in [SessionIds ->
                  [state : {"absent", "active", "closed"},
                   endpoint : {"none", "starting", "listening", "stopping", "stopped"},
                   results : Seq(Calls), rules : Nat]]
  /\ \A s \in SessionIds : Len(session[s].results) <= MaxResultsPerSession
  /\ sessionNumber \in 0 .. Cardinality(Calls)
  /\ sweep \in {"no", "waiting", "done"}
  /\ swept \subseteq SessionIds
  /\ completed \in [SessionIds -> Seq(Calls)]

\* A session is announced only when its endpoint listens (R-13.2), is called
\* closed only when it has stopped (R-13.3), and an endpoint that is stopping
\* has someone waiting who will close the session: no endpoint is left behind
\* a closed session and none is stopped under an active one for good.
EndpointFollowsState ==
  \A s \in SessionIds :
    /\ session[s].state = "absent" => session[s].endpoint \in {"none", "starting"}
    /\ session[s].state = "closed" => session[s].endpoint = "stopped"
    /\ session[s].state = "active" =>
         \/ session[s].endpoint = "listening"
         \/ session[s].endpoint = "stopping" /\ (Closers(s) # {} \/ s \in swept)

\* Calls that wait for endpoints at the same time never share a session: each
\* announced session is its caller's own and stays in the Map.
EveryCreateHasItsOwn ==
  /\ \A c \in Calls : call[c].op = "create" /\ call[c].status = 201 =>
       session[call[c].session].state # "absent"
  /\ \A c, d \in Calls :
       /\ c # d
       /\ call[c].op = "create" /\ call[d].op = "create"
       /\ call[c].session # NoSession
       => call[c].session # call[d].session

\* The results of a session are the newest completions, in the order the
\* scenarios ended, whichever was started first.
ResultsAreNewest ==
  \A s \in SessionIds :
    LET kept == Len(session[s].results)
        all == Len(completed[s])
    IN  /\ kept = IF all < MaxResultsPerSession THEN all ELSE MaxResultsPerSession
        /\ session[s].results = SubSeq(completed[s], all - kept + 1, all)

\* "terminal" and "read-only" (R-13.4): a closed session stays closed, its
\* endpoint stays stopped and its rules stay what they were, whatever was in
\* flight when it closed.  Only the run of a scenario that was under way then
\* still adds its result.
ClosedIsFinal ==
  [][\A s \in SessionIds : session[s].state = "closed" =>
       /\ session'[s].state = "closed"
       /\ session'[s].endpoint = "stopped"
       /\ session'[s].rules = session[s].rules
       /\ session'[s].results # session[s].results =>
            \E c \in Calls : /\ call[c].op = "run" /\ call[c].session = s
                             /\ call[c].status = Pending
                             /\ call'[c].status # Pending]_storeVars

\* Every call is answered and closeAll returns: also for two callers closing
\* one session, or a caller closing what the sweep closes.
EveryWaitEnds ==
  /\ \A c \in Calls : (call[c].op # "none") ~> (call[c].status # Pending)
  /\ (sweep = "waiting") ~> (sweep = "done")

\* The records agree with the endpoints and the results with what has ended,
\* through every interleaving of the waits.
StoreIsConsistent ==
  /\ TypeOK
  /\ EndpointFollowsState
  /\ ResultsAreNewest
=============================================================================
