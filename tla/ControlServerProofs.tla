------------------------ MODULE ControlServerProofs ------------------------
(***************************************************************************)
(* Theorems about ControlServer and the SessionStore below it, for any      *)
(* connections, calls, requests and maxima.  What holds of the store        *)
(* between two waits of its callers is an invariant only together with what *)
(* each waiting caller relies on: a creation that waits has a number nobody *)
(* else has and a session nobody has heard of.  A step of the server is a   *)
(* step of one connection, of one request, of the store with the handlers   *)
(* it wakes, or of the shutdown; there is a lemma for each.                 *)
(***************************************************************************)
EXTENDS ControlServer, RateLimiter, FiniteSetTheorems, SequenceTheorems, TLAPS

-----------------------------------------------------------------------------
(* The store.                                                               *)

\* The calls that were given a session of their own.
Creators == {c \in Calls : call[c].op = "create" /\ call[c].session # NoSession}

\* newSessionId hands out each number once and none beyond it is in use.
CreationsAreCounted ==
  /\ sessionNumber = Cardinality(Creators)
  /\ \A s \in SessionIds : s > sessionNumber => session[s] = Absent

\* What a call was made for; a creation waits for a session that nobody can
\* name yet.
CallFits(c) ==
  /\ call[c].op = "none" => call[c] = Unmade
  /\ call[c].op = "create" /\ call[c].session = NoSession => call[c].status = 503
  /\ call[c].op = "create" /\ call[c].session # NoSession =>
       /\ call[c].session <= sessionNumber
       /\ call[c].status = Pending => /\ session[call[c].session].state = "absent"
                                      /\ session[call[c].session].endpoint = "starting"
  /\ call[c].op \in {"close", "mutate", "run"} =>
       /\ call[c].session \in SessionIds
       /\ call[c].status = Pending => session[call[c].session].state # "absent"
CallsFitSessions == \A c \in Calls : CallFits(c)

StoreInv ==
  /\ TypeOK
  /\ EndpointFollowsState
  /\ EveryCreateHasItsOwn
  /\ ResultsAreNewest
  /\ CreationsAreCounted
  /\ CallsFitSessions

Record == [state : {"absent", "active", "closed"},
           endpoint : {"none", "starting", "listening", "stopping", "stopped"},
           results : Seq(Calls), rules : Nat]
Call == [op : {"none", "create", "close", "mutate", "run"},
         session : SessionIds \cup {NoSession}, status : Statuses]

LEMMA StoreTypes ==
  ASSUME TypeOK
  PROVE  /\ call \in [Calls -> Call]
         /\ session \in [SessionIds -> Record]
         /\ \A s \in SessionIds : Len(session[s].results) \in Nat /\ Len(completed[s]) \in Nat
         /\ sessionNumber \in Nat
         /\ Cardinality(Calls) \in Nat
         /\ SessionIds \subseteq Nat \ {0}
<1>1. call \in [Calls -> Call] /\ session \in [SessionIds -> Record]
  BY DEF TypeOK, Call, Record
<1>2. Cardinality(Calls) \in Nat
  BY FS_CardinalityType, StoreAssumption
<1>3. \A s \in SessionIds : session[s].results \in Seq(Calls) /\ completed[s] \in Seq(Calls)
  BY DEF TypeOK
<1>4. \A s \in SessionIds : Len(session[s].results) \in Nat /\ Len(completed[s]) \in Nat
  BY <1>3, LenProperties
<1> QED BY <1>1, <1>2, <1>4 DEF TypeOK, SessionIds

\* A call that was not made yet has a number left.
LEMMA NumbersSuffice ==
  ASSUME StoreInv, NEW c \in Calls, call[c] = Unmade
  PROVE  /\ NextNumber \in SessionIds
         /\ Cardinality(Creators \cup {c}) = NextNumber
         /\ session[NextNumber] = Absent
<1>1. c \notin Creators /\ Creators \cup {c} \subseteq Calls
  BY DEF Creators, Unmade
<1>2. IsFiniteSet(Creators)
  BY <1>1, FS_Subset, StoreAssumption
<1>3. Cardinality(Creators \cup {c}) = sessionNumber + 1
  BY <1>1, <1>2, FS_AddElement DEF StoreInv, CreationsAreCounted
<1>4. Cardinality(Creators \cup {c}) <= Cardinality(Calls)
  BY <1>1, FS_Subset, StoreAssumption
<1>5. NextNumber \in SessionIds
  BY <1>3, <1>4, StoreTypes DEF StoreInv, NextNumber, SessionIds
<1> QED
  BY <1>3, <1>5, StoreTypes DEF StoreInv, CreationsAreCounted, NextNumber

LEMMA CreateKeepsInvariant ==
  ASSUME StoreInv, NEW c \in Calls, CreateSession(c)
  PROVE  StoreInv'
<1>1. call[c] = Unmade /\ UNCHANGED <<sweep, swept, completed>>
  BY DEF CreateSession, Make
<1>2. CASE Cardinality(InState("active")) >= MaxSessions
  <2>1. /\ call' = [call EXCEPT ![c] = [op |-> "create", session |-> NoSession, status |-> 503]]
        /\ UNCHANGED <<session, sessionNumber>>
    BY <1>2 DEF CreateSession, Make
  <2>2. Creators' = Creators /\ \A s \in SessionIds : Closers(s)' = Closers(s)
    BY <1>1, <2>1, StoreTypes DEF StoreInv, Creators, Closers, Waiting, On, Unmade, Call, Pending
  <2>3. TypeOK'
    BY <1>1, <2>1 DEF StoreInv, TypeOK, Statuses
  <2>4. EndpointFollowsState' /\ ResultsAreNewest'
    BY <1>1, <2>1, <2>2 DEF StoreInv, EndpointFollowsState, ResultsAreNewest
  <2>5. EveryCreateHasItsOwn' /\ CallsFitSessions'
    BY <1>1, <2>1, StoreTypes
    DEF StoreInv, EveryCreateHasItsOwn, CallsFitSessions, CallFits, Call, Unmade, Pending
  <2>6. CreationsAreCounted'
    BY <2>1, <2>2 DEF StoreInv, CreationsAreCounted
  <2> QED BY <2>3, <2>4, <2>5, <2>6 DEF StoreInv
<1>3. CASE ~(Cardinality(InState("active")) >= MaxSessions)
  <2>1. /\ call' = [call EXCEPT ![c] = [op |-> "create", session |-> NextNumber,
                                         status |-> Pending]]
        /\ session' = [session EXCEPT ![NextNumber].endpoint = "starting"]
        /\ sessionNumber' = NextNumber
    BY <1>3 DEF CreateSession, Make
  <2>2. /\ NextNumber \in SessionIds
        /\ Cardinality(Creators \cup {c}) = NextNumber
        /\ session[NextNumber] = Absent
    BY <1>1, NumbersSuffice
  <2>3. Creators' = Creators \cup {c} /\ \A s \in SessionIds : Closers(s)' = Closers(s)
    BY <1>1, <2>1, <2>2, StoreTypes
    DEF StoreInv, Creators, Closers, Waiting, On, Unmade, Call, Pending, SessionIds, NoSession
  <2>4. /\ session' \in [SessionIds -> Record]
        /\ \A s \in SessionIds : /\ session'[s].results = session[s].results
                                 /\ session'[s].state = session[s].state
                                 /\ s # NextNumber => session'[s] = session[s]
        /\ session'[NextNumber].endpoint = "starting"
    <3> DEFINE new == [session[NextNumber] EXCEPT !.endpoint = "starting"]
    <3>1. session' = [session EXCEPT ![NextNumber] = new] /\ session \in [SessionIds -> Record]
      BY <2>1, StoreTypes DEF StoreInv
    <3>2. /\ new \in Record /\ new.state = session[NextNumber].state
          /\ new.results = session[NextNumber].results /\ new.endpoint = "starting"
      <4>1. session[NextNumber] \in Record
        BY <2>2, <3>1
      <4> QED BY <4>1 DEF Record
    <3> HIDE DEF new
    <3>3. /\ session' \in [SessionIds -> Record] /\ session'[NextNumber] = new
          /\ \A s \in SessionIds : s # NextNumber => session'[s] = session[s]
      BY <2>2, <3>1, <3>2
    <3> QED BY <3>2, <3>3
  <2>5. TypeOK'
    <3>1. call' \in [Calls -> Call]
      BY <2>1, <2>2, StoreTypes DEF StoreInv, Call, Statuses, Pending
    <3>2. sessionNumber' \in 0 .. Cardinality(Calls)
      BY <2>1, <2>2 DEF SessionIds
    <3>3. \A s \in SessionIds : Len(session'[s].results) <= MaxResultsPerSession
      BY <2>4 DEF StoreInv, TypeOK
    <3> QED BY <1>1, <2>4, <3>1, <3>2, <3>3 DEF StoreInv, TypeOK, Call, Record
  <2>9. EndpointFollowsState'
    BY <1>1, <2>2, <2>3, <2>4 DEF StoreInv, EndpointFollowsState, Absent
  <2>10. ResultsAreNewest'
    BY <1>1, <2>4 DEF StoreInv, ResultsAreNewest
  <2>6. EveryCreateHasItsOwn'
    BY <1>1, <2>1, <2>2, StoreTypes
    DEF StoreInv, EveryCreateHasItsOwn, CallsFitSessions, CallFits, Call, Unmade, Pending, NextNumber
  <2>7. CallsFitSessions'
    BY <1>1, <2>1, <2>2, StoreTypes
    DEF StoreInv, EveryCreateHasItsOwn, CallsFitSessions, CallFits, Call, Unmade, Pending, NextNumber, Absent, NoSession
  <2>8. CreationsAreCounted'
    BY <2>1, <2>2, <2>3, StoreTypes DEF StoreInv, CreationsAreCounted, NextNumber
  <2> QED BY <2>5, <2>6, <2>7, <2>8, <2>9, <2>10 DEF StoreInv
<1> QED BY <1>2, <1>3

\* A call that names a session, whatever it is answered at once.
LEMMA AskKeepsInvariant ==
  ASSUME StoreInv, NEW c \in Calls, NEW op \in {"close", "mutate", "run"},
         NEW s \in SessionIds, NEW status \in Statuses, Make(c, op, s, status),
         UNCHANGED <<sessionNumber, sweep, swept, completed>>,
         session' \in [SessionIds -> Record],
         \A t \in SessionIds : /\ session'[t].state = session[t].state
                               /\ session'[t].results = session[t].results
                               /\ t # s => session'[t] = session[t],
         session[s].state # "active" => session'[s] = session[s],
         status = Pending => session[s].state = "active",
         \/ session'[s].endpoint = session[s].endpoint
         \/ session'[s].endpoint = "stopping" /\ op = "close" /\ status = Pending
  PROVE  StoreInv'
<1>1. /\ call[c] = Unmade
      /\ call' = [call EXCEPT ![c] = [op |-> op, session |-> s, status |-> status]]
  BY DEF Make
<1>2. /\ Creators' = Creators
      /\ \A t \in SessionIds : Closers(t) \subseteq Closers(t)'
  BY <1>1, StoreTypes DEF StoreInv, Creators, Closers, Waiting, On, Unmade, Call
<1>3. op = "close" /\ status = Pending => c \in Closers(s)'
  BY <1>1, StoreTypes DEF StoreInv, Closers, Waiting, On, Call
<1>4. TypeOK'
  <2>1. call' \in [Calls -> Call]
    BY <1>1, StoreTypes DEF StoreInv, Call
  <2>2. \A t \in SessionIds : Len(session'[t].results) <= MaxResultsPerSession
    BY DEF StoreInv, TypeOK
  <2> QED BY <2>1, <2>2 DEF StoreInv, TypeOK, Call, Record
<1>5. EndpointFollowsState'
  <2> SUFFICES ASSUME NEW t \in SessionIds
               PROVE  /\ session'[t].state = "absent" => session'[t].endpoint \in {"none", "starting"}
                      /\ session'[t].state = "closed" => session'[t].endpoint = "stopped"
                      /\ session'[t].state = "active" =>
                           \/ session'[t].endpoint = "listening"
                           \/ /\ session'[t].endpoint = "stopping"
                              /\ Closers(t)' # {} \/ t \in swept'
    BY DEF EndpointFollowsState
  <2>1. CASE session'[t].endpoint = session[t].endpoint
    BY <1>2, <2>1 DEF StoreInv, EndpointFollowsState
  <2>2. CASE session'[t].endpoint # session[t].endpoint
    BY <1>3, <2>2 DEF StoreInv, EndpointFollowsState
  <2> QED BY <2>1, <2>2
<1>6. EveryCreateHasItsOwn'
  BY <1>1, StoreTypes DEF StoreInv, EveryCreateHasItsOwn, CallsFitSessions, CallFits, Call, Unmade
<1>7. ResultsAreNewest'
  BY DEF StoreInv, ResultsAreNewest
<1>8. CreationsAreCounted'
  <2>1. \A t \in SessionIds : session[t] = Absent => session'[t] = Absent
    BY DEF Absent
  <2> QED BY <1>2, <2>1 DEF StoreInv, CreationsAreCounted
<1>9. CallsFitSessions'
  <2> SUFFICES ASSUME NEW d \in Calls
               PROVE  /\ call'[d].op = "none" => call'[d] = Unmade
                      /\ call'[d].op = "create" /\ call'[d].session = NoSession
                           => call'[d].status = 503
                      /\ call'[d].op = "create" /\ call'[d].session # NoSession =>
                           /\ call'[d].session <= sessionNumber'
                           /\ call'[d].status = Pending =>
                                /\ session'[call'[d].session].state = "absent"
                                /\ session'[call'[d].session].endpoint = "starting"
                      /\ call'[d].op \in {"close", "mutate", "run"} =>
                           /\ call'[d].session \in SessionIds
                           /\ call'[d].status = Pending
                                => session'[call'[d].session].state # "absent"
    BY DEF CallsFitSessions, CallFits
  <2>1. CASE d = c
    <3>1. call'[d].op = op /\ call'[d].session = s /\ call'[d].status = status
      BY <1>1, <2>1, StoreTypes DEF StoreInv, Call
    <3> QED BY <3>1
  <2>2. CASE d # c
    <3>1. call'[d] = call[d]
      BY <1>1, <2>2, StoreTypes DEF StoreInv
    <3>2. CASE call[d].op = "create" /\ call[d].session # NoSession
      <4>1. call[d].session \in SessionIds
        BY <3>2, StoreTypes DEF StoreInv, Call
      <4>2. call[d].status = Pending =>
              /\ session[call[d].session].state = "absent"
              /\ session[call[d].session].endpoint = "starting"
        BY <3>2 DEF StoreInv, CallsFitSessions, CallFits
      <4>3. call[d].status = Pending => session'[call[d].session] = session[call[d].session]
        BY <4>1, <4>2
      <4> QED BY <3>1, <3>2, <4>2, <4>3 DEF StoreInv, CallsFitSessions, CallFits
    <3>3. CASE ~(call[d].op = "create" /\ call[d].session # NoSession)
      BY <3>1, <3>3 DEF StoreInv, CallsFitSessions, CallFits
    <3> QED BY <3>2, <3>3
  <2> QED BY <2>1, <2>2
<1> QED BY <1>4, <1>5, <1>6, <1>7, <1>8, <1>9 DEF StoreInv

LEMMA CloseKeepsInvariant ==
  ASSUME StoreInv, NEW c \in Calls, NEW s \in SessionIds, CloseSession(c, s)
  PROVE  StoreInv'
<1>1. Refusal(s) \in Statuses /\ (Refusal(s) = Pending <=> session[s].state = "active")
  BY StoreTypes DEF StoreInv, Refusal, Statuses, Record, Pending
<1>2. session' \in [SessionIds -> Record]
  BY StoreTypes DEF StoreInv, CloseSession, Record
<1>3. \A t \in SessionIds : /\ session'[t].state = session[t].state
                            /\ session'[t].results = session[t].results
                            /\ t # s => session'[t] = session[t]
  BY StoreTypes DEF StoreInv, CloseSession, Record
<1>4. /\ session[s].state # "active" => session'[s] = session[s]
      /\ session[s].state = "active" => session'[s].endpoint = "stopping"
  BY <1>1, StoreTypes DEF StoreInv, CloseSession, Record
<1> QED BY <1>1, <1>2, <1>3, <1>4, AskKeepsInvariant DEF CloseSession

LEMMA MutateKeepsInvariant ==
  ASSUME StoreInv, NEW c \in Calls, NEW s \in SessionIds, MutateRules(c, s)
  PROVE  StoreInv'
<1> DEFINE status == IF Refusal(s) = Pending THEN 212 ELSE Refusal(s)
<1>1. status \in Statuses /\ (Refusal(s) = Pending <=> session[s].state = "active")
  BY StoreTypes DEF StoreInv, Refusal, Statuses, Record, Pending
<1>2. session' \in [SessionIds -> Record]
  <2>1. session[s] \in Record /\ session[s].rules + 1 \in Nat
    BY StoreTypes DEF StoreInv, Record
  <2>2. [session[s] EXCEPT !.rules = session[s].rules + 1] \in Record
    BY <2>1 DEF Record
  <2> QED BY <2>2, StoreTypes DEF StoreInv, MutateRules
<1>3. \A t \in SessionIds : /\ session'[t].state = session[t].state
                            /\ session'[t].results = session[t].results
                            /\ session'[t].endpoint = session[t].endpoint
                            /\ t # s => session'[t] = session[t]
  BY StoreTypes DEF StoreInv, MutateRules, Record
<1>4. session[s].state # "active" => session'[s] = session[s]
  BY <1>1 DEF MutateRules
<1> QED BY <1>1, <1>2, <1>3, <1>4, AskKeepsInvariant DEF MutateRules

LEMMA RunKeepsInvariant ==
  ASSUME StoreInv, NEW c \in Calls, NEW s \in SessionIds, RunTest(c, s)
  PROVE  StoreInv'
<1>1. Refusal(s) \in Statuses /\ (Refusal(s) = Pending <=> session[s].state = "active")
  BY StoreTypes DEF StoreInv, Refusal, Statuses, Record, Pending
<1> QED BY <1>1, StoreTypes, AskKeepsInvariant DEF RunTest, StoreInv

-----------------------------------------------------------------------------
(* What every answer has in common.                                         *)

\* Some waiting calls get their answer, the others stay as they are, and no
\* session that has come to be goes back.
CallsSettle ==
  /\ sessionNumber' = sessionNumber
  /\ call' \in [Calls -> Call]
  /\ \A d \in Calls : \/ call'[d] = call[d]
                      \/ /\ call[d].op # "none" /\ call[d].status = Pending
                         /\ call'[d].op = call[d].op /\ call'[d].session = call[d].session
                         /\ call'[d].status # Pending
                         /\ call[d].op = "create" /\ call'[d].status = 201 =>
                              session'[call[d].session].state # "absent"
  /\ \A t \in SessionIds : session[t].state # "absent" => session'[t].state # "absent"
  /\ \A d \in Calls : /\ call[d].op = "create" /\ call[d].session # NoSession
                      /\ call'[d].status = Pending
                      => /\ session'[call[d].session].state = session[call[d].session].state
                         /\ session'[call[d].session].endpoint
                              = session[call[d].session].endpoint

LEMMA AnswersArePointwise ==
  ASSUME StoreInv, NEW cs \in SUBSET Calls, NEW status \in Statuses, Answer(cs, status)
  PROVE  /\ call' \in [Calls -> Call]
         /\ \A d \in cs : /\ call'[d].op = call[d].op
                          /\ call'[d].session = call[d].session
                          /\ call'[d].status = status
         /\ \A d \in Calls : d \notin cs => call'[d] = call[d]
<1>1. call \in [Calls -> Call]
  BY StoreTypes DEF StoreInv
<1>2. \A d \in Calls : /\ [call[d] EXCEPT !.status = status] \in Call
                       /\ [call[d] EXCEPT !.status = status].op = call[d].op
                       /\ [call[d] EXCEPT !.status = status].session = call[d].session
                       /\ [call[d] EXCEPT !.status = status].status = status
  BY <1>1 DEF Call
<1> QED BY <1>1, <1>2 DEF Answer

LEMMA OneAnswer ==
  ASSUME StoreInv, NEW c \in Calls, NEW status \in Statuses, Answer({c}, status)
  PROVE  /\ call' \in [Calls -> Call]
         /\ call'[c].op = call[c].op /\ call'[c].session = call[c].session
         /\ call'[c].status = status
         /\ \A d \in Calls : d # c => call'[d] = call[d]
<1>1. {c} \in SUBSET Calls /\ c \in {c} /\ \A d \in Calls : d # c => d \notin {c}
  OBVIOUS
<1> HIDE DEF Answer
<1>2. /\ call' \in [Calls -> Call]
      /\ \A d \in {c} : /\ call'[d].op = call[d].op
                        /\ call'[d].session = call[d].session
                        /\ call'[d].status = status
      /\ \A d \in Calls : d \notin {c} => call'[d] = call[d]
  BY <1>1, AnswersArePointwise
<1> QED BY <1>1, <1>2

LEMMA SettlingKeepsCalls ==
  ASSUME StoreInv, CallsSettle
  PROVE  EveryCreateHasItsOwn' /\ CallsFitSessions'
<1>1. \A d \in Calls : /\ call'[d].op = call[d].op /\ call'[d].session = call[d].session
                       /\ call'[d].status # call[d].status => call[d].status = Pending
  BY DEF CallsSettle
<1>2. \A d \in Calls : call[d].session # NoSession => call[d].session \in SessionIds
  <2>1. \A d \in Calls : call[d] \in Call
    BY StoreTypes DEF StoreInv
  <2> QED BY <2>1 DEF Call
<1>3. \A d \in Calls : /\ call[d].op = "none" => call[d] = Unmade
                       /\ call[d].op = "create" /\ call[d].session = NoSession
                           => call[d].status = 503
  BY DEF StoreInv, CallsFitSessions, CallFits
<1>4. ASSUME NEW d \in Calls, call'[d].op = "create", call'[d].status = 201
      PROVE  session'[call'[d].session].state # "absent"
  <2>1. CASE call[d].status = 201
    <3>1. session[call[d].session].state # "absent"
      BY <1>1, <1>4, <2>1 DEF StoreInv, EveryCreateHasItsOwn
    <3>2. call[d].session \in SessionIds
      BY <1>1, <1>2, <1>3, <1>4, <2>1
    <3> QED BY <1>1, <3>1, <3>2 DEF CallsSettle
  <2>2. CASE call[d].status # 201
    BY <1>1, <1>4, <2>2 DEF CallsSettle
  <2> QED BY <2>1, <2>2
<1>5. EveryCreateHasItsOwn'
  <2>1. \A d, e \in Calls : /\ d # e /\ call'[d].op = "create" /\ call'[e].op = "create"
                            /\ call'[d].session # NoSession
                           => call'[d].session # call'[e].session
    BY <1>1 DEF StoreInv, EveryCreateHasItsOwn
  <2> QED BY <1>4, <2>1 DEF EveryCreateHasItsOwn
<1>6. ASSUME NEW d \in Calls PROVE CallFits(d)'
  <2>1. call'[d].op = "none" => call'[d] = Unmade
    BY <1>1, <1>3 DEF CallsSettle
  <2>2. call'[d].op = "create" /\ call'[d].session = NoSession => call'[d].status = 503
    <3>1. 503 # Pending
      BY DEF Pending
    <3> QED BY <1>1, <1>3, <3>1
  <2>3. CallFits(d) /\ sessionNumber' = sessionNumber
    BY DEF StoreInv, CallsFitSessions, CallsSettle
  <2>4. call'[d].op = "create" /\ call'[d].session # NoSession =>
          /\ call'[d].session <= sessionNumber'
          /\ call'[d].status = Pending =>
               /\ session'[call'[d].session].state = "absent"
               /\ session'[call'[d].session].endpoint = "starting"
    <3>1. call'[d].status = Pending => call[d].status = Pending
      BY <1>1
    <3> QED BY <1>1, <2>3, <3>1 DEF CallsSettle, CallFits
  <2>5. call'[d].op \in {"close", "mutate", "run"} =>
          /\ call'[d].session \in SessionIds
          /\ call'[d].status = Pending => session'[call'[d].session].state # "absent"
    <3>1. call'[d].status = Pending => call[d].status = Pending
      BY <1>1
    <3> QED BY <1>1, <2>3, <3>1 DEF CallsSettle, CallFits
  <2> QED BY <2>1, <2>2, <2>4, <2>5 DEF CallFits
<1> QED BY <1>5, <1>6 DEF CallsFitSessions

-----------------------------------------------------------------------------
(* The waits end.                                                           *)

LEMMA ListensKeepsInvariant ==
  ASSUME StoreInv, NEW c \in Calls, EndpointListens(c)
  PROVE  StoreInv'
<1> DEFINE s == call[c].session
<1>1. /\ call[c].op = "create" /\ call[c].status = Pending /\ call[c] \in Call
      /\ Answer({c}, 201) /\ UNCHANGED <<sessionNumber, sweep, swept, completed>>
  BY StoreTypes DEF StoreInv, EndpointListens, Waiting
<1>2. /\ s \in SessionIds /\ s <= sessionNumber
      /\ session[s].state = "absent"
  BY <1>1 DEF StoreInv, CallsFitSessions, CallFits, Call, Pending
<1>3. /\ session' \in [SessionIds -> Record]
      /\ \A t \in SessionIds : /\ session'[t].results = session[t].results
                               /\ t # s => session'[t] = session[t]
      /\ session'[s].state = "active" /\ session'[s].endpoint = "listening"
  <2> DEFINE new == [session[s] EXCEPT !.state = "active", !.endpoint = "listening"]
  <2>1. session' = [session EXCEPT ![s] = new]
    BY <1>2, StoreTypes DEF StoreInv, EndpointListens
  <2>2. /\ new \in Record /\ new.state = "active" /\ new.endpoint = "listening"
        /\ new.results = session[s].results
    <3>1. session[s] \in Record
      BY <1>2, StoreTypes DEF StoreInv
    <3> QED BY <3>1 DEF Record
  <2> HIDE DEF new
  <2>3. session \in [SessionIds -> Record]
    BY StoreTypes DEF StoreInv
  <2>4. /\ session' \in [SessionIds -> Record] /\ session'[s] = new
        /\ \A t \in SessionIds : t # s => session'[t] = session[t]
    BY <1>2, <2>1, <2>2, <2>3
  <2> QED BY <1>2, <2>2, <2>4
<1>11. /\ call' \in [Calls -> Call]
       /\ call'[c].op = "create" /\ call'[c].session = s /\ call'[c].status = 201
       /\ \A d \in Calls : d # c => call'[d] = call[d]
  <2>1. PICK status \in Statuses : status = 201
    BY DEF Statuses
  <2>2. Answer({c}, status)
    BY <1>1, <2>1
  <2>3. /\ call' \in [Calls -> Call]
        /\ call'[c].op = call[c].op /\ call'[c].session = call[c].session
        /\ call'[c].status = status
        /\ \A d \in Calls : d # c => call'[d] = call[d]
    BY <2>2, OneAnswer
  <2> QED BY <1>1, <2>1, <2>3 DEF s
<1>4. Creators' = Creators /\ \A t \in SessionIds : Closers(t)' = Closers(t)
  BY <1>1, <1>11 DEF Creators, Closers, Waiting, On
<1> HIDE DEF s
<1>5. TypeOK'
  <2>2. \A t \in SessionIds : Len(session'[t].results) <= MaxResultsPerSession
    BY <1>3 DEF StoreInv, TypeOK
  <2> QED BY <1>1, <1>3, <1>11, <2>2 DEF StoreInv, TypeOK, Call, Record
<1>6. EndpointFollowsState'
  BY <1>1, <1>3, <1>4 DEF StoreInv, EndpointFollowsState
<1>7. EveryCreateHasItsOwn' /\ CallsFitSessions'
  <2>1. 201 # Pending /\ s # NoSession
    BY <1>2, StoreTypes DEF StoreInv, Pending, NoSession
  <2>2. \A d \in Calls : d # c /\ call[d].op = "create" => call[d].session # s
    BY <1>1, <2>1 DEF StoreInv, EveryCreateHasItsOwn, s
  <2>3. \A d \in Calls : call[d].session # NoSession => call[d].session \in SessionIds
    BY StoreTypes DEF StoreInv, Call
  <2>4. \A d \in Calls : call[d].op = "create" /\ call[d].session # NoSession
                          /\ call'[d].status = Pending
                        => session'[call[d].session] = session[call[d].session]
    BY <1>3, <1>11, <2>1, <2>2, <2>3
  <2>5. \A t \in SessionIds : session[t].state # "absent" => session'[t].state # "absent"
    BY <1>2, <1>3
  <2>6. \A d \in Calls : d # c => call'[d] = call[d]
    BY <1>11
  <2> QED BY <1>1, <1>3, <1>11, <2>1, <2>4, <2>5, <2>6, SettlingKeepsCalls DEF CallsSettle, s
<1>8. ResultsAreNewest'
  BY <1>1, <1>3 DEF StoreInv, ResultsAreNewest
<1>9. CreationsAreCounted'
  BY <1>1, <1>2, <1>3, <1>4, StoreTypes DEF StoreInv, CreationsAreCounted, Absent
<1> QED BY <1>5, <1>6, <1>7, <1>8, <1>9 DEF StoreInv

LEMMA FailsKeepsInvariant ==
  ASSUME StoreInv, NEW c \in Calls, EndpointFails(c)
  PROVE  StoreInv'
<1> DEFINE s == call[c].session
<1>1. /\ call[c].op = "create" /\ call[c].status = Pending /\ call[c] \in Call
      /\ Answer({c}, 500) /\ UNCHANGED <<sessionNumber, sweep, swept, completed>>
  BY StoreTypes DEF StoreInv, EndpointFails, Waiting
<1>2. /\ s \in SessionIds /\ s <= sessionNumber
      /\ session[s].state = "absent"
  BY <1>1 DEF StoreInv, CallsFitSessions, CallFits, Call, Pending
<1>3. /\ session' \in [SessionIds -> Record]
      /\ \A t \in SessionIds : /\ session'[t].results = session[t].results
                               /\ session'[t].state = session[t].state
                               /\ t # s => session'[t] = session[t]
      /\ session'[s].endpoint = "none"
  <2> DEFINE new == [session[s] EXCEPT !.endpoint = "none"]
  <2>1. session' = [session EXCEPT ![s] = new]
    BY <1>2, StoreTypes DEF StoreInv, EndpointFails
  <2>2. /\ new \in Record /\ new.state = session[s].state /\ new.endpoint = "none"
        /\ new.results = session[s].results
    <3>1. session[s] \in Record
      BY <1>2, StoreTypes DEF StoreInv
    <3> QED BY <3>1 DEF Record
  <2> HIDE DEF new
  <2>3. session \in [SessionIds -> Record]
    BY StoreTypes DEF StoreInv
  <2>4. /\ session' \in [SessionIds -> Record] /\ session'[s] = new
        /\ \A t \in SessionIds : t # s => session'[t] = session[t]
    BY <1>2, <2>1, <2>2, <2>3
  <2> QED BY <1>2, <2>2, <2>4
<1>11. /\ call' \in [Calls -> Call]
       /\ call'[c].op = "create" /\ call'[c].session = s /\ call'[c].status = 500
       /\ \A d \in Calls : d # c => call'[d] = call[d]
  <2>1. PICK status \in Statuses : status = 500
    BY DEF Statuses
  <2>2. Answer({c}, status)
    BY <1>1, <2>1
  <2>3. /\ call' \in [Calls -> Call]
        /\ call'[c].op = call[c].op /\ call'[c].session = call[c].session
        /\ call'[c].status = status
        /\ \A d \in Calls : d # c => call'[d] = call[d]
    BY <2>2, OneAnswer
  <2> QED BY <1>1, <2>1, <2>3 DEF s
<1>4. Creators' = Creators /\ \A t \in SessionIds : Closers(t)' = Closers(t)
  BY <1>1, <1>11 DEF Creators, Closers, Waiting, On
<1> HIDE DEF s
<1>5. TypeOK'
  <2>2. \A t \in SessionIds : Len(session'[t].results) <= MaxResultsPerSession
    BY <1>3 DEF StoreInv, TypeOK
  <2> QED BY <1>1, <1>3, <1>11, <2>2 DEF StoreInv, TypeOK, Call, Record
<1>6. EndpointFollowsState'
  BY <1>1, <1>2, <1>3, <1>4 DEF StoreInv, EndpointFollowsState
<1>7. EveryCreateHasItsOwn' /\ CallsFitSessions'
  <2>1. 500 # Pending /\ s # NoSession
    BY <1>2, StoreTypes DEF StoreInv, Pending, NoSession
  <2>2. \A d \in Calls : d # c /\ call[d].op = "create" => call[d].session # s
    BY <1>1, <2>1 DEF StoreInv, EveryCreateHasItsOwn, s
  <2>3. \A d \in Calls : call[d].session # NoSession => call[d].session \in SessionIds
    BY StoreTypes DEF StoreInv, Call
  <2>4. \A d \in Calls : call[d].op = "create" /\ call[d].session # NoSession
                          /\ call'[d].status = Pending
                        => session'[call[d].session] = session[call[d].session]
    BY <1>3, <1>11, <2>1, <2>2, <2>3
  <2>5. \A t \in SessionIds : session[t].state # "absent" => session'[t].state # "absent"
    BY <1>2, <1>3
  <2>6. \A d \in Calls : d # c => call'[d] = call[d]
    BY <1>11
  <2> QED BY <1>1, <1>3, <1>11, <2>1, <2>4, <2>5, <2>6, SettlingKeepsCalls DEF CallsSettle, s
<1>8. ResultsAreNewest'
  BY <1>1, <1>3 DEF StoreInv, ResultsAreNewest
<1>9. CreationsAreCounted'
  BY <1>1, <1>2, <1>3, <1>4, StoreTypes DEF StoreInv, CreationsAreCounted, Absent
<1> QED BY <1>5, <1>6, <1>7, <1>8, <1>9 DEF StoreInv

LEMMA StoppedKeepsInvariant ==
  ASSUME StoreInv, NEW s \in SessionIds, EndpointStopped(s)
  PROVE  StoreInv'
<1>1. /\ UNCHANGED <<sessionNumber, sweep, completed>>
      /\ swept' = swept \ {s}
      /\ session[s].endpoint = "stopping"
      /\ session[s].state = "active"
  BY StoreTypes DEF EndpointStopped, StoreInv, EndpointFollowsState, Record
<1>2. /\ session' \in [SessionIds -> Record]
      /\ \A t \in SessionIds : /\ session'[t].results = session[t].results
                               /\ t # s => session'[t] = session[t]
      /\ session'[s].state = "closed" /\ session'[s].endpoint = "stopped"
  BY StoreTypes DEF StoreInv, EndpointStopped, Record
<1>3. /\ call' \in [Calls -> Call]
      /\ \A c \in Calls : /\ call'[c].op = call[c].op
                          /\ call'[c].session = call[c].session
                          /\ c \notin Closers(s) => call'[c] = call[c]
      /\ \A c \in Closers(s) : call'[c].status = 204
  <2>1. PICK status \in Statuses : status = 204
    BY DEF Statuses
  <2>2. Closers(s) \in SUBSET Calls /\ Answer(Closers(s), status)
    BY <2>1 DEF EndpointStopped, Closers, On
  <2>3. /\ call' \in [Calls -> Call]
        /\ \A d \in Closers(s) : /\ call'[d].op = call[d].op
                                 /\ call'[d].session = call[d].session
                                 /\ call'[d].status = status
        /\ \A d \in Calls : d \notin Closers(s) => call'[d] = call[d]
    BY <2>2, AnswersArePointwise
  <2> QED BY <2>1, <2>3
<1>4. /\ Creators' = Creators
      /\ \A t \in SessionIds : t # s => Closers(t)' = Closers(t)
      /\ \A c \in Closers(s) : call[c].op = "close"
  BY <1>3 DEF Creators, Closers, Waiting, On
<1>5. TypeOK'
  <2>1. \A t \in SessionIds : Len(session'[t].results) <= MaxResultsPerSession
    BY <1>2 DEF StoreInv, TypeOK
  <2> QED BY <1>1, <1>2, <1>3, <2>1 DEF StoreInv, TypeOK, Call, Record
<1>6. EndpointFollowsState'
  BY <1>1, <1>2, <1>4 DEF StoreInv, EndpointFollowsState
<1>7. EveryCreateHasItsOwn' /\ CallsFitSessions'
  <2>1. \A d \in Calls : d \in Closers(s) => /\ call[d].op = "close" /\ call[d].status = Pending
                                             /\ call'[d].status # Pending
    BY <1>3 DEF Closers, Waiting, Pending
  <2>2. \A t \in SessionIds : session[t].state # "absent" => session'[t].state # "absent"
    BY <1>2
  <2>3. \A d \in Calls : call[d].session # NoSession => call[d].session \in SessionIds
    BY StoreTypes DEF StoreInv, Call
  <2>4. ASSUME NEW d \in Calls, call[d].op = "create", call[d].session # NoSession,
               call'[d].status = Pending
        PROVE  session'[call[d].session] = session[call[d].session]
    <3>1. call[d].status = Pending
      BY <1>3, <2>1, <2>4
    <3>2. session[call[d].session].state = "absent"
      BY <2>4, <3>1 DEF StoreInv, CallsFitSessions, CallFits
    <3> QED BY <1>1, <1>2, <2>3, <2>4, <3>2
  <2>5. \A d \in Calls : \/ call'[d] = call[d]
                         \/ /\ call[d].op = "close" /\ call[d].status = Pending
                            /\ call'[d].op = call[d].op /\ call'[d].session = call[d].session
                            /\ call'[d].status # Pending
    BY <1>3, <2>1
  <2> QED BY <1>1, <1>3, <2>2, <2>4, <2>5, SettlingKeepsCalls DEF CallsSettle
<1>8. ResultsAreNewest'
  BY <1>1, <1>2 DEF StoreInv, ResultsAreNewest
<1>9. CreationsAreCounted'
  BY <1>1, <1>2, <1>4, StoreTypes DEF StoreInv, CreationsAreCounted, Absent
<1> QED BY <1>5, <1>6, <1>7, <1>8, <1>9 DEF StoreInv

LEMMA SweepKeepsInvariant ==
  ASSUME StoreInv, CloseAll
  PROVE  StoreInv'
<1>1. /\ UNCHANGED <<call, sessionNumber, completed>>
      /\ sweep' = "waiting" /\ swept' = InState("active")
  BY DEF CloseAll
<1>2. /\ session' \in [SessionIds -> Record]
      /\ \A t \in SessionIds : /\ session'[t].results = session[t].results
                               /\ session'[t].state = session[t].state
                               /\ session[t].state # "active" => session'[t] = session[t]
                               /\ session[t].state = "active" => session'[t].endpoint = "stopping"
  BY StoreTypes DEF StoreInv, CloseAll, Record
<1>3. Creators' = Creators /\ swept' \subseteq SessionIds
  BY <1>1 DEF Creators, InState
<1>4. TypeOK'
  BY <1>1, <1>2, <1>3 DEF StoreInv, TypeOK, Record
<1>5. EndpointFollowsState'
  BY <1>1, <1>2 DEF StoreInv, EndpointFollowsState, InState
<1>6. EveryCreateHasItsOwn' /\ CallsFitSessions'
  <2>1. \A t \in SessionIds : session[t].state # "absent" => session'[t].state # "absent"
    BY <1>2
  <2>2. \A d \in Calls : call[d].session # NoSession => call[d].session \in SessionIds
    BY StoreTypes DEF StoreInv, Call
  <2>3. ASSUME NEW d \in Calls, call[d].op = "create", call[d].session # NoSession,
               call'[d].status = Pending
        PROVE  session'[call[d].session] = session[call[d].session]
    <3>1. session[call[d].session].state = "absent"
      BY <1>1, <2>3 DEF StoreInv, CallsFitSessions, CallFits
    <3> QED BY <1>2, <2>2, <2>3, <3>1
  <2>4. call' \in [Calls -> Call] /\ \A d \in Calls : call'[d] = call[d]
    BY <1>1, StoreTypes DEF StoreInv
  <2> QED BY <1>1, <2>1, <2>3, <2>4, SettlingKeepsCalls DEF CallsSettle
<1>7. ResultsAreNewest'
  BY <1>1, <1>2 DEF StoreInv, ResultsAreNewest
<1>8. CreationsAreCounted'
  BY <1>1, <1>2, <1>3, StoreTypes DEF StoreInv, CreationsAreCounted, Absent
<1> QED BY <1>4, <1>5, <1>6, <1>7, <1>8 DEF StoreInv

LEMMA ReturnKeepsInvariant ==
  ASSUME StoreInv, CloseAllReturns
  PROVE  StoreInv'
<1>1. sweep' = "done" /\ UNCHANGED <<call, session, sessionNumber, swept, completed>>
  BY DEF CloseAllReturns
<1>2. TypeOK' /\ ResultsAreNewest'
  BY <1>1 DEF StoreInv, TypeOK, ResultsAreNewest
<1>3. EndpointFollowsState'
  BY <1>1 DEF StoreInv, EndpointFollowsState, Closers, Waiting, On
<1>4. EveryCreateHasItsOwn' /\ CreationsAreCounted' /\ CallsFitSessions'
  BY <1>1 DEF StoreInv, EveryCreateHasItsOwn, CreationsAreCounted, CallsFitSessions, CallFits, Creators
<1> QED BY <1>2, <1>3, <1>4 DEF StoreInv

\* addResult keeps the newest: with one more completion the results kept are
\* again a suffix of all of them, as long as the maximum allows.
LEMMA KeptIsNewest ==
  ASSUME NEW all \in Seq(Calls), NEW results \in Seq(Calls), NEW c \in Calls,
         Len(results) = IF Len(all) < MaxResultsPerSession
                        THEN Len(all) ELSE MaxResultsPerSession,
         results = SubSeq(all, Len(all) - Len(results) + 1, Len(all))
  PROVE  /\ Append(all, c) \in Seq(Calls) /\ Kept(Append(results, c)) \in Seq(Calls)
         /\ Len(Kept(Append(results, c))) =
              IF Len(Append(all, c)) < MaxResultsPerSession
              THEN Len(Append(all, c)) ELSE MaxResultsPerSession
         /\ Kept(Append(results, c)) =
              SubSeq(Append(all, c), Len(Append(all, c)) - Len(Kept(Append(results, c))) + 1,
                     Len(Append(all, c)))
<1> DEFINE n == Len(all)
           m == Len(results)
           full == Append(all, c)
           longer == Append(results, c)
           kept == Kept(longer)
<1>1. /\ n \in Nat /\ m \in Nat /\ m <= n /\ MaxResultsPerSession \in Nat \ {0}
      /\ m <= MaxResultsPerSession
  BY LenProperties, StoreAssumption
<1>2. /\ full \in Seq(Calls) /\ Len(full) = n + 1
      /\ longer \in Seq(Calls) /\ Len(longer) = m + 1
      /\ \A i \in 1 .. n : full[i] = all[i]
      /\ \A i \in 1 .. m : longer[i] = results[i]
      /\ full[n + 1] = c /\ longer[m + 1] = c
  BY AppendProperties
<1>3. \A i \in 1 .. m : results[i] = all[n - m + i]
  <2>1. \A i \in n - m + 1 .. n : all[i] \in Calls
    BY <1>1, ElementOfSeq
  <2> HIDE DEF n, m
  <2>2. \A i \in 1 .. n - (n - m + 1) + 1 :
          SubSeq(all, n - m + 1, n)[i] = all[(n - m + 1) + i - 1]
    BY <1>1, <2>1, SubSeqProperties
  <2>3. results = SubSeq(all, n - m + 1, n)
    BY DEF n, m
  <2> SUFFICES ASSUME NEW i \in 1 .. m PROVE results[i] = all[n - m + i]
    OBVIOUS
  <2>4. i \in 1 .. n - (n - m + 1) + 1 /\ (n - m + 1) + i - 1 = n - m + i
    BY <1>1
  <2> QED BY <2>2, <2>3, <2>4
<1> HIDE DEF n, m, full, longer
<1>4. \A i \in 1 .. m + 1 : longer[i] = full[n - m + i]
  <2> SUFFICES ASSUME NEW i \in 1 .. m + 1 PROVE longer[i] = full[n - m + i]
    OBVIOUS
  <2>1. CASE i = m + 1
    BY <1>1, <1>2, <2>1
  <2>2. CASE i # m + 1
    <3>1. i \in 1 .. m /\ n - m + i \in 1 .. n
      BY <1>1, <2>2
    <3> QED BY <1>2, <1>3, <3>1
  <2> QED BY <2>1, <2>2
<1>5. \A i \in 1 .. m + 1 : longer[i] \in Calls
  BY <1>2, ElementOfSeq
<1>6. \A i \in 1 .. n + 1 : full[i] \in Calls
  BY <1>2, ElementOfSeq
<1>7. CASE m + 1 > MaxResultsPerSession
  <2>1. m = MaxResultsPerSession /\ kept = SubSeq(longer, 2, m + 1)
    BY <1>1, <1>2, <1>7 DEF Kept
  <2>2. /\ kept \in Seq(Calls) /\ Len(kept) = m
        /\ \A i \in 1 .. m : kept[i] = longer[i + 1]
    <3>1. \A i \in 2 .. m + 1 : longer[i] \in Calls
      BY <1>1, <1>5
    <3>2. /\ SubSeq(longer, 2, m + 1) \in Seq(Calls)
          /\ Len(SubSeq(longer, 2, m + 1)) = IF 2 <= m + 1 THEN m + 1 - 2 + 1 ELSE 0
          /\ \A i \in 1 .. m + 1 - 2 + 1 : SubSeq(longer, 2, m + 1)[i] = longer[2 + i - 1]
      BY <1>1, <3>1, SubSeqProperties
    <3> QED BY <1>1, <2>1, <3>2
  <2> DEFINE from == n + 1 - m + 1
             top == n + 1
             w == SubSeq(full, from, top)
  <2>3. /\ w \in Seq(Calls) /\ Len(w) = m
        /\ \A i \in 1 .. m : w[i] = full[n + 1 - m + i]
    <3>1. from \in Int /\ top \in Int /\ from <= top /\ top - from + 1 = m
      BY <1>1, <2>1
    <3>2. \A i \in from .. top : full[i] \in Calls
      BY <1>1, <1>6
    <3>3. ASSUME NEW i \in 1 .. m PROVE from + i - 1 = n + 1 - m + i
      BY <1>1
    <3> HIDE DEF from, top
    <3>4. /\ w \in Seq(Calls)
          /\ Len(w) = IF from <= top THEN top - from + 1 ELSE 0
          /\ \A i \in 1 .. top - from + 1 : w[i] = full[from + i - 1]
      BY <3>1, <3>2, SubSeqProperties
    <3> QED BY <3>1, <3>3, <3>4
  <2>4. ASSUME NEW i \in 1 .. m PROVE longer[i + 1] = full[n + 1 - m + i]
    <3>1. i + 1 \in 1 .. m + 1 /\ n - m + (i + 1) = n + 1 - m + i
      BY <1>1
    <3> QED BY <1>4, <3>1
  <2>5. \A i \in 1 .. Len(kept) : kept[i] = w[i]
    BY <2>2, <2>3, <2>4
  <2>6. kept = w
    <3> HIDE DEF kept, w
    <3> QED BY <2>2, <2>3, <2>5, SeqEqual
  <2>7. Len(kept) = IF n + 1 < MaxResultsPerSession THEN n + 1 ELSE MaxResultsPerSession
    BY <1>1, <2>1, <2>2
  <2>8. Len(full) - Len(kept) + 1 = from
    <3> HIDE DEF kept
    <3> QED BY <1>1, <1>2, <2>2
  <2>9. kept = SubSeq(full, Len(full) - Len(kept) + 1, Len(full))
    BY <1>2, <2>6, <2>8
  <2> HIDE DEF kept
  <2> QED BY <1>2, <2>2, <2>7, <2>9 DEF full, longer, kept
<1>8. CASE ~(m + 1 > MaxResultsPerSession)
  <2>1. m = n /\ kept = longer
    <3>1. kept = longer
      BY <1>1, <1>2, <1>8 DEF Kept
    <3>2. m = IF n < MaxResultsPerSession THEN n ELSE MaxResultsPerSession
      BY DEF n, m
    <3> QED BY <1>1, <1>8, <3>1, <3>2
  <2>2. longer = full
    BY <1>1, <1>2, <1>4, <2>1, SeqEqual
  <2>3. full = SubSeq(full, 1, n + 1)
    BY <1>2, SubSeqFull
  <2>4. Len(kept) = IF n + 1 < MaxResultsPerSession THEN n + 1 ELSE MaxResultsPerSession
    BY <1>1, <1>2, <1>8, <2>1
  <2>5. n + 1 - (n + 1) + 1 = 1
    BY <1>1
  <2> HIDE DEF kept
  <2> QED BY <1>2, <2>1, <2>2, <2>3, <2>4, <2>5 DEF full, longer, kept
<1> QED BY <1>1, <1>7, <1>8

\* ResultsAreNewest, of one session.
Newest(results, ended) ==
  /\ Len(results) = IF Len(ended) < MaxResultsPerSession
                    THEN Len(ended) ELSE MaxResultsPerSession
  /\ results = SubSeq(ended, Len(ended) - Len(results) + 1, Len(ended))

LEMMA NewestOfEach ==
  /\ ResultsAreNewest <=> \A s \in SessionIds : Newest(session[s].results, completed[s])
  /\ ResultsAreNewest' <=> \A s \in SessionIds : Newest(session'[s].results, completed'[s])
BY DEF ResultsAreNewest, Newest

LEMMA FinishKeepsInvariant ==
  ASSUME StoreInv, NEW c \in Calls, NEW status \in {210, 211, 408}, TestFinished(c, status)
  PROVE  StoreInv'
<1> DEFINE s == call[c].session
<1>1. /\ call[c].op = "run" /\ call[c].status = Pending /\ call[c] \in Call
      /\ UNCHANGED <<sessionNumber, sweep, swept>>
      /\ s \in SessionIds /\ session[s].state # "absent"
  <2>1. /\ call[c].op = "run" /\ call[c].status = Pending /\ call[c] \in Call
        /\ UNCHANGED <<sessionNumber, sweep, swept>>
    BY StoreTypes DEF StoreInv, TestFinished, Waiting
  <2>2. CallFits(c)
    BY DEF StoreInv, CallsFitSessions
  <2> QED BY <2>1, <2>2 DEF CallFits
<1>12. /\ call' \in [Calls -> Call] /\ status # Pending
       /\ call'[c].op = "run" /\ call'[c].session = s /\ call'[c].status = status
       /\ \A d \in Calls : d # c => call'[d] = call[d]
  <2>1. status \in Statuses /\ status # Pending
    BY DEF Statuses, Pending
  <2>2. Answer({c}, status)
    BY DEF TestFinished
  <2>3. /\ call' \in [Calls -> Call]
        /\ call'[c].op = call[c].op /\ call'[c].session = call[c].session
        /\ call'[c].status = status
        /\ \A d \in Calls : d # c => call'[d] = call[d]
    BY <2>1, <2>2, OneAnswer
  <2> QED BY <1>1, <2>1, <2>3 DEF s
<1>2. /\ session[s].results \in Seq(Calls) /\ completed[s] \in Seq(Calls)
      /\ completed \in [SessionIds -> Seq(Calls)]
      /\ session' = [session EXCEPT ![s].results = Kept(Append(session[s].results, c))]
      /\ completed' = [completed EXCEPT ![s] = Append(completed[s], c)]
  BY <1>1, StoreTypes DEF StoreInv, TypeOK, TestFinished, Record
<1> HIDE DEF s
<1> DEFINE ends == Append(completed[s], c)
           newest == Kept(Append(session[s].results, c))
<1>3. /\ ends \in Seq(Calls) /\ newest \in Seq(Calls)
      /\ Len(newest) = IF Len(ends) < MaxResultsPerSession THEN Len(ends) ELSE MaxResultsPerSession
      /\ newest = SubSeq(ends, Len(ends) - Len(newest) + 1, Len(ends))
  <2> DEFINE results == session[s].results
             ended == completed[s]
  <2>1. /\ Len(results) = IF Len(ended) < MaxResultsPerSession
                         THEN Len(ended) ELSE MaxResultsPerSession
        /\ results = SubSeq(ended, Len(ended) - Len(results) + 1, Len(ended))
        /\ results \in Seq(Calls) /\ ended \in Seq(Calls)
    <3>1. Newest(session[s].results, completed[s])
      BY <1>1, NewestOfEach DEF StoreInv
    <3> QED BY <1>2, <3>1 DEF Newest
  <2> HIDE DEF results, ended
  <2>2. /\ Append(ended, c) \in Seq(Calls) /\ Kept(Append(results, c)) \in Seq(Calls)
        /\ Len(Kept(Append(results, c))) =
             IF Len(Append(ended, c)) < MaxResultsPerSession
             THEN Len(Append(ended, c)) ELSE MaxResultsPerSession
        /\ Kept(Append(results, c)) =
             SubSeq(Append(ended, c),
                    Len(Append(ended, c)) - Len(Kept(Append(results, c))) + 1,
                    Len(Append(ended, c)))
    BY <2>1, KeptIsNewest
  <2>3. ends = Append(ended, c) /\ newest = Kept(Append(results, c))
    BY DEF results, ended
  <2> HIDE DEF ends, newest
  <2> QED BY <2>2, <2>3
<1> HIDE DEF ends, newest
<1>4. /\ session' \in [SessionIds -> Record]
      /\ \A t \in SessionIds : /\ session'[t].state = session[t].state
                               /\ session'[t].endpoint = session[t].endpoint
                               /\ t # s => session'[t] = session[t]
      /\ session'[s].results = newest
      /\ completed' \in [SessionIds -> Seq(Calls)]
      /\ completed'[s] = ends /\ \A t \in SessionIds : t # s => completed'[t] = completed[t]
  <2> DEFINE new == [session[s] EXCEPT !.results = newest]
  <2>1. session' = [session EXCEPT ![s] = new] /\ session \in [SessionIds -> Record]
    BY <1>1, <1>2, StoreTypes DEF StoreInv, newest
  <2>2. /\ new \in Record /\ new.state = session[s].state
        /\ new.endpoint = session[s].endpoint /\ new.results = newest
    <3>1. session[s] \in Record
      BY <1>1, <2>1
    <3> QED BY <1>3, <3>1 DEF Record
  <2> HIDE DEF new
  <2>3. /\ session' \in [SessionIds -> Record]
        /\ session'[s] = new /\ \A t \in SessionIds : t # s => session'[t] = session[t]
    BY <1>1, <2>1, <2>2
  <2>4. /\ completed' \in [SessionIds -> Seq(Calls)]
        /\ completed'[s] = ends /\ \A t \in SessionIds : t # s => completed'[t] = completed[t]
    BY <1>1, <1>2, <1>3 DEF ends
  <2> QED BY <2>2, <2>3, <2>4
<1>5. Creators' = Creators /\ \A t \in SessionIds : Closers(t)' = Closers(t)
  BY <1>1, <1>12 DEF Creators, Closers, Waiting, On
<1>6. TypeOK'
  <2>2. Len(newest) <= MaxResultsPerSession
    BY <1>3, LenProperties, StoreAssumption
  <2>3. ASSUME NEW t \in SessionIds PROVE Len(session'[t].results) <= MaxResultsPerSession
    <3>1. CASE t = s
      BY <1>4, <2>2, <3>1
    <3>2. CASE t # s
      BY <1>4, <3>2 DEF StoreInv, TypeOK
    <3> QED BY <3>1, <3>2
  <2> QED BY <1>1, <1>4, <1>12, <2>3 DEF StoreInv, TypeOK, Call, Record
<1>7. EndpointFollowsState'
  BY <1>1, <1>4, <1>5 DEF StoreInv, EndpointFollowsState
<1>8. EveryCreateHasItsOwn' /\ CallsFitSessions'
  <2>1. \A t \in SessionIds : session[t].state # "absent" => session'[t].state # "absent"
    BY <1>4
  <2>2. \A d \in Calls : call[d].session # NoSession => call[d].session \in SessionIds
    BY StoreTypes DEF StoreInv, Call
  <2>3. \A d \in Calls : call[d].session # NoSession =>
          /\ session'[call[d].session].state = session[call[d].session].state
          /\ session'[call[d].session].endpoint = session[call[d].session].endpoint
    BY <1>4, <2>2
  <2>4. \A d \in Calls : \/ call'[d] = call[d]
                         \/ /\ call[d].op = "run" /\ call[d].status = Pending
                            /\ call'[d].op = call[d].op /\ call'[d].session = call[d].session
                            /\ call'[d].status # Pending
    BY <1>1, <1>12 DEF s
  <2> QED BY <1>1, <1>12, <2>1, <2>3, <2>4, SettlingKeepsCalls DEF CallsSettle
<1>9. ResultsAreNewest'
  <2>1. Newest(newest, ends)
    BY <1>3 DEF Newest
  <2>2. \A t \in SessionIds : Newest(session[t].results, completed[t])
    BY NewestOfEach DEF StoreInv
  <2>3. \A t \in SessionIds : Newest(session'[t].results, completed'[t])
    BY <1>4, <2>1, <2>2
  <2> QED BY <2>3, NewestOfEach
<1>10. CreationsAreCounted'
  <2>1. s <= sessionNumber
    BY <1>1, StoreTypes DEF StoreInv, CreationsAreCounted, Absent
  <2> QED BY <1>1, <1>4, <1>5, <2>1, StoreTypes DEF StoreInv, CreationsAreCounted
<1> QED BY <1>6, <1>7, <1>8, <1>9, <1>10 DEF StoreInv

-----------------------------------------------------------------------------
(* The theorems.                                                            *)

LEMMA InitInvariant == StoreInit => StoreInv
<1> SUFFICES ASSUME StoreInit PROVE StoreInv
  OBVIOUS
<1>1. /\ \A c \in Calls : call[c] = Unmade
      /\ \A s \in SessionIds : session[s] = Absent /\ completed[s] = <<>>
      /\ sessionNumber = 0
  BY DEF StoreInit
<1>2. TypeOK
  <2>1. Cardinality(Calls) \in Nat
    BY FS_CardinalityType, StoreAssumption
  <2>2. 0 \in 0 .. Cardinality(Calls)
    BY <2>1
  <2> QED BY <2>2, StoreAssumption
          DEF StoreInit, TypeOK, Unmade, Absent, Statuses, Pending, NoSession
<1>3. Creators = {}
  BY <1>1 DEF Creators, Unmade
<1>4. CreationsAreCounted
  BY <1>1, <1>3, FS_EmptySet DEF CreationsAreCounted
<1>5. ResultsAreNewest
  <2>1. Newest(<<>>, <<>>)
    <3>1. Len(<<>>) = 0 /\ <<>> \in Seq(Calls)
      OBVIOUS
    <3>2. SubSeq(<<>>, 0 - 0 + 1, 0) = <<>>
      BY SMT
    <3> QED BY <3>1, <3>2, StoreAssumption DEF Newest
  <2>2. \A s \in SessionIds : session[s].results = <<>> /\ completed[s] = <<>>
    BY <1>1 DEF Absent
  <2> QED BY <2>1, <2>2, NewestOfEach
<1>6. EndpointFollowsState /\ EveryCreateHasItsOwn /\ CallsFitSessions
  BY <1>1 DEF EndpointFollowsState, EveryCreateHasItsOwn, CallsFitSessions, CallFits, Unmade, Absent
<1> QED BY <1>2, <1>4, <1>5, <1>6 DEF StoreInv

LEMMA StartKeepsInvariant ==
  ASSUME StoreInv, NEW c \in Calls, Start(c)
  PROVE  StoreInv'
<1>1. CASE CreateSession(c)
  BY <1>1, CreateKeepsInvariant
<1>2. ASSUME NEW s \in SessionIds, CloseSession(c, s) \/ MutateRules(c, s) \/ RunTest(c, s)
      PROVE  StoreInv'
  BY <1>2, CloseKeepsInvariant, MutateKeepsInvariant, RunKeepsInvariant
<1> QED BY <1>1, <1>2 DEF Start

LEMMA ResumeKeepsInvariant ==
  ASSUME StoreInv, Resume
  PROVE  StoreInv'
<1>1. ASSUME NEW c \in Calls, EndpointListens(c) \/ EndpointFails(c)
      PROVE  StoreInv'
  BY <1>1, ListensKeepsInvariant, FailsKeepsInvariant
<1>2. ASSUME NEW c \in Calls, NEW status \in {210, 211, 408}, TestFinished(c, status)
      PROVE  StoreInv'
  BY <1>2, FinishKeepsInvariant
<1>3. ASSUME NEW s \in SessionIds, EndpointStopped(s)
      PROVE  StoreInv'
  BY <1>3, StoppedKeepsInvariant
<1>4. CASE CloseAllReturns
  BY <1>4, ReturnKeepsInvariant
<1> QED BY <1>1, <1>2, <1>3, <1>4 DEF Resume

LEMMA StutterKeepsInvariant ==
  ASSUME StoreInv, UNCHANGED storeVars
  PROVE  StoreInv'
<1>1. Creators' = Creators /\ \A s \in SessionIds : Closers(s)' = Closers(s)
  BY DEF storeVars, Creators, Closers, Waiting, On
<1>2. TypeOK' /\ EndpointFollowsState' /\ EveryCreateHasItsOwn'
  BY <1>1 DEF StoreInv, storeVars, TypeOK, EndpointFollowsState, EveryCreateHasItsOwn
<1>3. ResultsAreNewest'
  BY NewestOfEach DEF StoreInv, storeVars
<1>4. CreationsAreCounted' /\ CallsFitSessions'
  BY <1>1 DEF StoreInv, storeVars, CreationsAreCounted, CallsFitSessions, CallFits
<1> QED BY <1>2, <1>3, <1>4 DEF StoreInv

LEMMA NextKeepsInvariant == StoreInv /\ [Next]_storeVars => StoreInv'
BY StartKeepsInvariant, SweepKeepsInvariant, ResumeKeepsInvariant, StutterKeepsInvariant
DEF Next

LEMMA StoreInvariant == Spec => []StoreInv
BY InitInvariant, NextKeepsInvariant, PTL DEF Spec

\* However the waits of the callers interleave, a session is announced only
\* while its endpoint listens, an endpoint that stops has someone who will
\* close its session, and the results kept are the newest completions.
THEOREM StoreStaysConsistent == Spec => []StoreIsConsistent
<1>1. StoreInv => StoreIsConsistent
  BY DEF StoreInv, StoreIsConsistent
<1> QED BY <1>1, StoreInvariant, PTL

\* However many creations wait for their endpoints at once, no two of them
\* are given one session.
THEOREM CreationsDoNotMeet == Spec => []EveryCreateHasItsOwn
<1>1. StoreInv => EveryCreateHasItsOwn
  BY DEF StoreInv
<1> QED BY <1>1, StoreInvariant, PTL

\* What a step leaves of a session that was closed before it.
Untouched(s) ==
  \/ session'[s] = session[s]
  \/ /\ session'[s].state = session[s].state
     /\ session'[s].endpoint = session[s].endpoint
     /\ session'[s].rules = session[s].rules
     /\ \E c \in Calls : /\ call[c].op = "run" /\ call[c].session = s
                         /\ call[c].status = Pending /\ call'[c].status # Pending

LEMMA StartsLeaveClosed ==
  ASSUME StoreInv, NEW c \in Calls, Start(c),
         NEW s \in SessionIds, session[s].state = "closed"
  PROVE  session'[s] = session[s]
<1>1. CASE CreateSession(c)
  <2>1. CASE session' = session
    BY <2>1
  <2>2. CASE /\ call[c] = Unmade
             /\ session' = [session EXCEPT ![NextNumber].endpoint = "starting"]
    <3>1. session[NextNumber] = Absent
      BY <2>2, NumbersSuffice
    <3>2. s # NextNumber
      BY <3>1 DEF Absent
    <3> QED BY <2>2, <3>2, StoreTypes DEF StoreInv
  <2> QED BY <1>1, <2>1, <2>2 DEF CreateSession, Make
<1>2. ASSUME NEW t \in SessionIds, CloseSession(c, t) \/ MutateRules(c, t) \/ RunTest(c, t)
      PROVE  session'[s] = session[s]
  <2>1. CASE t = s
    <3>1. Refusal(t) # Pending
      BY <2>1 DEF Refusal, Pending
    <3> QED BY <1>2, <3>1 DEF CloseSession, MutateRules, RunTest
  <2>2. CASE t # s
    BY <1>2, <2>2, StoreTypes DEF StoreInv, CloseSession, MutateRules, RunTest
  <2> QED BY <2>1, <2>2
<1> QED BY <1>1, <1>2 DEF Start

LEMMA ResumesLeaveClosed ==
  ASSUME StoreInv, Resume, NEW s \in SessionIds, session[s].state = "closed"
  PROVE  Untouched(s)
<1>1. ASSUME NEW c \in Calls, EndpointListens(c) \/ EndpointFails(c)
      PROVE  session'[s] = session[s]
  <2>1. call[c].op = "create" /\ call[c].status = Pending
    BY <1>1 DEF EndpointListens, EndpointFails, Waiting
  <2>2. session[call[c].session].state = "absent"
    BY <2>1 DEF StoreInv, CallsFitSessions, CallFits, Pending
  <2>3. s # call[c].session
    BY <2>2
  <2> QED BY <1>1, <2>3, StoreTypes DEF StoreInv, EndpointListens, EndpointFails
<1>2. ASSUME NEW c \in Calls, NEW status \in {210, 211, 408}, TestFinished(c, status)
      PROVE  Untouched(s)
  <2>1. /\ call[c].op = "run" /\ call[c].status = Pending /\ call'[c].status # Pending
    BY <1>2, StoreTypes DEF StoreInv, TestFinished, Waiting, Answer, Pending, Call
  <2>2. session' = [session EXCEPT ![call[c].session].results = Kept(Append(@, c))]
    BY <1>2 DEF TestFinished
  <2>3. CASE call[c].session = s
    <3>1. /\ session'[s].state = session[s].state /\ session'[s].rules = session[s].rules
          /\ session'[s].endpoint = session[s].endpoint
      BY <2>2, <2>3, StoreTypes DEF StoreInv, Record
    <3> QED BY <2>1, <2>3, <3>1 DEF Untouched
  <2>4. CASE call[c].session # s
    BY <2>2, <2>4, StoreTypes DEF StoreInv, Untouched
  <2> QED BY <2>3, <2>4
<1>3. ASSUME NEW t \in SessionIds, EndpointStopped(t)
      PROVE  session'[s] = session[s]
  <2>1. session[t].endpoint = "stopping"
    BY <1>3 DEF EndpointStopped
  <2>2. s # t
    BY <2>1 DEF StoreInv, EndpointFollowsState
  <2> QED BY <1>3, <2>2, StoreTypes DEF StoreInv, EndpointStopped
<1>4. CASE CloseAllReturns
  BY <1>4 DEF CloseAllReturns, Untouched
<1> QED BY <1>1, <1>2, <1>3, <1>4 DEF Resume, Untouched

LEMMA StepsLeaveClosed ==
  ASSUME StoreInv, [Next]_storeVars, NEW s \in SessionIds, session[s].state = "closed"
  PROVE  Untouched(s)
<1>1. ASSUME NEW c \in Calls, Start(c) PROVE Untouched(s)
  BY <1>1, StartsLeaveClosed DEF Untouched
<1>2. CASE CloseAll
  BY <1>2 DEF CloseAll, Untouched
<1>3. CASE Resume
  BY <1>3, ResumesLeaveClosed
<1>4. CASE UNCHANGED storeVars
  BY <1>4 DEF storeVars, Untouched
<1> QED BY <1>1, <1>2, <1>3, <1>4 DEF Next

\* No step of any caller reopens a closed session, starts its endpoint again
\* or changes its rules; only a scenario already under way adds its result.
THEOREM ClosedStaysClosed == Spec => ClosedIsFinal
<1> DEFINE Final(s) ==
      /\ session'[s].state = "closed"
      /\ session'[s].endpoint = "stopped"
      /\ session'[s].rules = session[s].rules
      /\ session'[s].results # session[s].results =>
           \E c \in Calls : /\ call[c].op = "run" /\ call[c].session = s
                            /\ call[c].status = Pending
                            /\ call'[c].status # Pending
<1>1. ASSUME StoreInv, [Next]_storeVars, NEW s \in SessionIds, session[s].state = "closed"
      PROVE  Final(s)
  <2>1. session[s].endpoint = "stopped"
    BY <1>1 DEF StoreInv, EndpointFollowsState
  <2> QED BY <1>1, <2>1, StepsLeaveClosed DEF Untouched
<1>2. StoreInv /\ [Next]_storeVars
        => [\A s \in SessionIds : session[s].state = "closed" => Final(s)]_storeVars
  BY <1>1
<1> QED BY <1>2, StoreInvariant, PTL DEF Spec, ClosedIsFinal

-----------------------------------------------------------------------------
(* The server.                                                              *)

ConnState ==
  [socket : {"none", "open", "destroyed", "closed"},
   ended : BOOLEAN, peerEnded : BOOLEAN, tracked : BOOLEAN,
   fault : {"none", "writing", "late", "done"},
   inFlight : Nat, closeWhenIdle : BOOLEAN]
RequestState ==
  [conn : Conns \cup {NoConn},
   pc : {"none", "handling", "writing", "late", "sent", "lost"}, close : BOOLEAN]

StatesAreTyped ==
  /\ conn \in [Conns -> ConnState]
  /\ request \in [Requests -> RequestState]
  /\ phase \in {"listening", "draining", "destroyed", "closed"}

\* A request was read from a connection that had been accepted, and nothing
\* has happened yet on one that has not.
RequestsHaveConnections ==
  /\ \A r \in Requests : request[r].pc # "none" =>
       /\ request[r].conn \in Conns
       /\ conn[request[r].conn].socket # "none"
  /\ \A c \in Conns : conn[c].socket = "none" =>
       conn[c].fault = "none" /\ ~conn[c].closeWhenIdle

\* Once the sweep has begun, nothing stops that it does not wait for.
SweepCoversStopping ==
  /\ phase = "listening" => sweep = "no"
  /\ sweep # "no" => \A s \in SessionIds : session[s].endpoint = "stopping" => s \in swept
  /\ sweep = "done" => swept = {}

ServerInv ==
  /\ StoreInv
  /\ StatesAreTyped
  /\ Cardinality(Tracked) <= MaxConnections
  /\ InFlightIsExact
  /\ RequestsHaveConnections
  /\ SweepCoversStopping

LEMMA ServerSets ==
  /\ IsFiniteSet(Tracked) /\ Cardinality(Tracked) \in Nat
  /\ \A c : IsFiniteSet(InFlight(c)) /\ Cardinality(InFlight(c)) \in 0 .. Cardinality(Requests)
<1>1. IsFiniteSet(Tracked) /\ Cardinality(Tracked) \in Nat
  <2>1. Tracked \subseteq Conns
    BY DEF Tracked
  <2> QED BY <2>1, FS_Subset, FS_CardinalityType, ServerAssumption
<1>2. ASSUME NEW c
      PROVE  IsFiniteSet(InFlight(c)) /\ Cardinality(InFlight(c)) \in 0 .. Cardinality(Requests)
  <2>1. InFlight(c) \subseteq Requests /\ IsFiniteSet(Requests)
    BY StoreAssumption DEF InFlight, Requests
  <2>2. /\ IsFiniteSet(InFlight(c)) /\ Cardinality(InFlight(c)) <= Cardinality(Requests)
        /\ Cardinality(InFlight(c)) \in Nat /\ Cardinality(Requests) \in Nat
    BY <2>1, FS_Subset, FS_CardinalityType
  <2> QED BY <2>2
<1> QED BY <1>1, <1>2

\* A step of one connection, from its state to k.
LEMMA ConnectionKeepsInvariant ==
  ASSUME ServerInv, NEW c \in Conns, NEW k \in ConnState,
         conn' = [conn EXCEPT ![c] = k],
         UNCHANGED <<storeVars, request, phase>>,
         k.inFlight = conn[c].inFlight,
         k.socket # "none",
         k.closeWhenIdle /\ k.inFlight = 0 => k.ended \/ k.socket # "open",
         k.tracked => conn[c].tracked \/ ~Crowded
  PROVE  ServerInv'
<1>1. /\ conn' \in [Conns -> ConnState]
      /\ conn'[c] = k /\ \A d \in Conns : d # c => conn'[d] = conn[d]
  BY DEF ServerInv, StatesAreTyped
<1>2. StoreInv'
  BY StutterKeepsInvariant DEF ServerInv
<1>3. StatesAreTyped'
  BY <1>1 DEF ServerInv, StatesAreTyped
<1>4. Cardinality(Tracked)' <= MaxConnections
  <2>1. CASE k.tracked /\ ~conn[c].tracked
    <3>1. Tracked' = Tracked \cup {c} /\ c \notin Tracked
      BY <1>1, <2>1 DEF Tracked
    <3>2. Cardinality(Tracked)' = Cardinality(Tracked) + 1
      BY <3>1, ServerSets, FS_AddElement
    <3> QED BY <2>1, <3>2, ServerSets, ServerAssumption DEF Crowded
  <2>2. CASE ~(k.tracked /\ ~conn[c].tracked)
    <3>1. Tracked' \subseteq Tracked
      BY <1>1, <2>2 DEF Tracked
    <3>2. Cardinality(Tracked)' <= Cardinality(Tracked) /\ Cardinality(Tracked)' \in Nat
      BY <3>1, ServerSets, FS_Subset, FS_CardinalityType
    <3> QED BY <3>2, ServerSets, ServerAssumption DEF ServerInv
  <2> QED BY <2>1, <2>2
<1>5. InFlightIsExact'
  <2>1. \A d \in Conns : InFlight(d)' = InFlight(d)
    BY DEF InFlight
  <2> QED BY <1>1, <2>1 DEF ServerInv, InFlightIsExact
<1>6. RequestsHaveConnections'
  BY <1>1 DEF ServerInv, RequestsHaveConnections
<1>7. SweepCoversStopping'
  BY DEF ServerInv, SweepCoversStopping, storeVars
<1> QED BY <1>2, <1>3, <1>4, <1>5, <1>6, <1>7 DEF ServerInv

LEMMA EndIfIdleFacts ==
  ASSUME NEW k \in ConnState
  PROVE  /\ EndIfIdle(k) \in ConnState
         /\ EndIfIdle(k).inFlight = k.inFlight
         /\ EndIfIdle(k).socket = k.socket
         /\ EndIfIdle(k).tracked = k.tracked
         /\ EndIfIdle(k).peerEnded = k.peerEnded
         /\ EndIfIdle(k).closeWhenIdle = k.closeWhenIdle
         /\ k.closeWhenIdle /\ k.inFlight = 0 =>
              EndIfIdle(k).ended \/ EndIfIdle(k).socket # "open"
         /\ EndIfIdle(k).ended /\ ~k.ended => k.inFlight = 0
BY DEF EndIfIdle, ConnState

LEMMA WrittenFacts ==
  ASSUME NEW k \in ConnState, NEW as
  PROVE  /\ Written(k, as) \in ConnState
         /\ Written(k, as).inFlight = k.inFlight
         /\ Written(k, as).tracked = k.tracked
         /\ Written(k, as).ended = k.ended
         /\ Written(k, as).peerEnded = k.peerEnded
         /\ Written(k, as).closeWhenIdle = k.closeWhenIdle
         /\ k.socket # "none" => Written(k, as).socket # "none"
BY DEF Written, ConnState

\* The connection after FaultWritten.
FaultEnds(c) ==
  [Written(conn[c], conn[c].fault) EXCEPT !.fault = "done", !.closeWhenIdle = TRUE]

LEMMA FaultWrittenFacts ==
  ASSUME ServerInv, NEW c \in Conns, FaultWritten(c)
  PROVE  /\ FaultEnds(c) \in ConnState
         /\ conn' = [conn EXCEPT ![c] = EndIfIdle(FaultEnds(c))]
         /\ FaultEnds(c).inFlight = conn[c].inFlight
         /\ FaultEnds(c).ended = conn[c].ended
         /\ FaultEnds(c).tracked = conn[c].tracked
         /\ FaultEnds(c).socket # "none"
<1>1. conn[c] \in ConnState /\ conn \in [Conns -> ConnState]
  BY DEF ServerInv, StatesAreTyped
<1>2. conn[c].socket # "none"
  BY DEF ServerInv, RequestsHaveConnections, FaultWritten
<1> DEFINE w == Written(conn[c], conn[c].fault)
<1>3. /\ w \in ConnState /\ w.inFlight = conn[c].inFlight /\ w.ended = conn[c].ended
      /\ w.tracked = conn[c].tracked /\ w.socket # "none"
  BY <1>1, <1>2, WrittenFacts
<1>4. FaultEnds(c) = [w EXCEPT !.fault = "done", !.closeWhenIdle = TRUE]
  BY DEF FaultEnds
<1>5. conn' = [conn EXCEPT ![c] = EndIfIdle(FaultEnds(c))]
  BY <1>1 DEF FaultWritten, FaultEnds
<1> HIDE DEF w
<1> QED BY <1>3, <1>4, <1>5 DEF ConnState

LEMMA ConnectionsKeepInvariant ==
  ASSUME ServerInv, NEW c \in Conns,
         \/ Accept(c) \/ ReceiveFault(c) \/ FaultWritten(c) \/ PeerEnds(c)
         \/ PeerResets(c) \/ CloseCompletes(c) \/ OnClose(c)
  PROVE  ServerInv'
<1> DEFINE k == conn[c]
<1>1. /\ k \in ConnState /\ conn \in [Conns -> ConnState]
      /\ k.closeWhenIdle /\ k.inFlight = 0 => k.ended \/ k.socket # "open"
      /\ k.socket = "none" => ~k.closeWhenIdle
  BY DEF ServerInv, StatesAreTyped, InFlightIsExact, RequestsHaveConnections
<1>2. CASE Accept(c)
  <2> DEFINE new == [k EXCEPT !.socket = "open", !.tracked = ~Crowded,
                              !.fault = IF Crowded THEN "writing" ELSE "none"]
  <2>1. conn' = [conn EXCEPT ![c] = new] /\ k.socket = "none"
    BY <1>1, <1>2 DEF Accept
  <2>2. /\ new \in ConnState /\ new.inFlight = k.inFlight /\ new.socket # "none"
        /\ ~new.closeWhenIdle /\ (new.tracked => ~Crowded)
    BY <1>1, <2>1 DEF ConnState
  <2> HIDE DEF new
  <2> QED BY <1>2, <2>1, <2>2, ConnectionKeepsInvariant DEF Accept
<1>3. CASE ReceiveFault(c)
  <2> DEFINE new == [k EXCEPT !.fault = Respond(k)]
  <2>1. conn' = [conn EXCEPT ![c] = new] /\ k.socket = "open" /\ Respond(k) \in {"writing", "late"}
    BY <1>1, <1>3 DEF ReceiveFault, Hears, Respond
  <2>2. /\ new \in ConnState /\ new.inFlight = k.inFlight /\ new.socket # "none"
        /\ new.tracked = k.tracked
        /\ new.closeWhenIdle /\ new.inFlight = 0 => new.ended \/ new.socket # "open"
    BY <1>1, <2>1 DEF ConnState
  <2> HIDE DEF new
  <2> QED BY <1>3, <2>1, <2>2, ConnectionKeepsInvariant DEF ReceiveFault
<1>4. CASE FaultWritten(c)
  <2> DEFINE new == EndIfIdle(FaultEnds(c))
  <2>1. /\ new \in ConnState /\ conn' = [conn EXCEPT ![c] = new]
        /\ new.inFlight = k.inFlight /\ new.socket # "none" /\ new.tracked = k.tracked
        /\ new.closeWhenIdle /\ new.inFlight = 0 => new.ended \/ new.socket # "open"
    BY <1>4, FaultWrittenFacts, EndIfIdleFacts
  <2> HIDE DEF new
  <2> QED BY <1>4, <2>1, ConnectionKeepsInvariant DEF FaultWritten
<1>5. CASE PeerEnds(c)
  <2> DEFINE new == [k EXCEPT !.peerEnded = TRUE, !.ended = TRUE]
  <2>1. conn' = [conn EXCEPT ![c] = new] /\ k.socket = "open"
    BY <1>1, <1>5 DEF PeerEnds
  <2>2. /\ new \in ConnState /\ new.inFlight = k.inFlight /\ new.socket # "none"
        /\ new.tracked = k.tracked /\ new.ended
    BY <1>1, <2>1 DEF ConnState
  <2> HIDE DEF new
  <2> QED BY <1>5, <2>1, <2>2, ConnectionKeepsInvariant DEF PeerEnds
<1>6. CASE PeerResets(c) \/ CloseCompletes(c)
  <2> DEFINE new == [k EXCEPT !.socket = "destroyed"]
  <2>1. conn' = [conn EXCEPT ![c] = new]
    BY <1>1, <1>6 DEF PeerResets, CloseCompletes
  <2>2. /\ new \in ConnState /\ new.inFlight = k.inFlight /\ new.socket = "destroyed"
        /\ new.tracked = k.tracked
    BY <1>1 DEF ConnState
  <2> HIDE DEF new
  <2> QED BY <1>6, <2>1, <2>2, ConnectionKeepsInvariant DEF PeerResets, CloseCompletes
<1>7. CASE OnClose(c)
  <2> DEFINE new == [k EXCEPT !.socket = "closed", !.tracked = FALSE]
  <2>1. conn' = [conn EXCEPT ![c] = new]
    BY <1>1, <1>7 DEF OnClose
  <2>2. /\ new \in ConnState /\ new.inFlight = k.inFlight /\ new.socket = "closed"
        /\ ~new.tracked
    BY <1>1 DEF ConnState
  <2> HIDE DEF new
  <2> QED BY <1>7, <2>1, <2>2, ConnectionKeepsInvariant DEF OnClose
<1> QED BY <1>2, <1>3, <1>4, <1>5, <1>6, <1>7

-----------------------------------------------------------------------------
(* Requests.                                                                *)

\* A request is read: whatever it does to the store, one more is in flight.
LEMMA DispatchKeepsInvariant ==
  ASSUME ServerInv, NEW c \in Conns, NEW r \in Requests, Arrives(c, r),
         NEW pc \in {"handling", "writing", "late"}, NEW close \in BOOLEAN,
         Dispatched(c, r, pc, close),
         StoreInv', SweepCoversStopping'
  PROVE  ServerInv'
<1> DEFINE k == conn[c]
           new == [k EXCEPT !.inFlight = k.inFlight + 1]
           req == [conn |-> c, pc |-> pc, close |-> close]
<1>1. /\ conn \in [Conns -> ConnState] /\ k \in ConnState /\ k.inFlight \in Nat
      /\ request \in [Requests -> RequestState]
      /\ conn' = [conn EXCEPT ![c] = new]
      /\ request' = [request EXCEPT ![r] = req]
      /\ phase' = phase
  BY DEF ServerInv, StatesAreTyped, Dispatched, ConnState
<1>2. /\ new \in ConnState /\ new.inFlight = k.inFlight + 1 /\ new.tracked = k.tracked
      /\ new.socket = k.socket /\ req \in RequestState
      /\ req.conn = c /\ req.pc = pc
  BY <1>1 DEF ConnState, RequestState
<1>3. k.socket = "open" /\ request[r].pc = "none"
  BY DEF Arrives, Hears
<1> HIDE DEF k, new, req
<1>4. /\ conn' \in [Conns -> ConnState] /\ request' \in [Requests -> RequestState]
      /\ conn'[c] = new /\ \A d \in Conns : d # c => conn'[d] = conn[d]
      /\ request'[r] = req /\ \A q \in Requests : q # r => request'[q] = request[q]
      /\ k = conn[c]
  BY <1>1, <1>2 DEF k
<1>5. StatesAreTyped'
  BY <1>1, <1>4 DEF ServerInv, StatesAreTyped
<1>6. Cardinality(Tracked)' <= MaxConnections
  <2>1. Tracked' = Tracked
    BY <1>2, <1>4 DEF Tracked
  <2> QED BY <2>1 DEF ServerInv
<1>7. /\ InFlight(c)' = InFlight(c) \cup {r} /\ r \notin InFlight(c)
      /\ \A d \in Conns : d # c => InFlight(d)' = InFlight(d)
  BY <1>2, <1>3, <1>4 DEF InFlight
<1>8. InFlightIsExact'
  <2>1. Cardinality(InFlight(c)') = Cardinality(InFlight(c)) + 1
    BY <1>7, ServerSets, FS_AddElement
  <2>2. new.inFlight = Cardinality(InFlight(c)') /\ new.inFlight # 0
    BY <1>1, <1>2, <1>4, <2>1 DEF ServerInv, InFlightIsExact
  <2> QED BY <1>4, <1>7, <2>2 DEF ServerInv, InFlightIsExact
<1>9. RequestsHaveConnections'
  BY <1>2, <1>3, <1>4 DEF ServerInv, RequestsHaveConnections
<1> QED BY <1>5, <1>6, <1>8, <1>9 DEF ServerInv

LEMMA ReceivesKeepInvariant ==
  ASSUME ServerInv, NEW c \in Conns, NEW r \in Requests,
         ReceiveRefused(c, r) \/ ReceiveSimple(c, r) \/ ReceiveCall(c, r)
  PROVE  ServerInv'
<1>1. Arrives(c, r) /\ phase' = phase /\ Respond(conn[c]) \in {"writing", "late"}
  BY DEF ReceiveRefused, ReceiveSimple, ReceiveCall, Arrives, Hears, Respond, Dispatched
<1>2. CASE ReceiveRefused(c, r) \/ ReceiveSimple(c, r)
  <2>1. UNCHANGED storeVars
    BY <1>2 DEF ReceiveRefused, ReceiveSimple
  <2>2. StoreInv' /\ SweepCoversStopping'
    BY <1>1, <2>1, StutterKeepsInvariant DEF ServerInv, SweepCoversStopping, storeVars
  <2> QED BY <1>1, <1>2, <2>2, DispatchKeepsInvariant DEF ReceiveRefused, ReceiveSimple
<1>3. CASE ReceiveCall(c, r)
  <2>1. /\ phase = "listening" /\ Start(r) /\ r \in Calls
        /\ Dispatched(c, r, IF call'[r].status = Pending THEN "handling" ELSE Respond(conn[c]),
                      FALSE)
    BY <1>3 DEF ReceiveCall, Requests
  <2>2. StoreInv'
    BY <2>1, StartKeepsInvariant DEF ServerInv
  <2>3. sweep' = sweep
    BY <2>1 DEF Start, CreateSession, CloseSession, MutateRules, RunTest
  <2>4. SweepCoversStopping'
    BY <1>1, <2>1, <2>3 DEF ServerInv, SweepCoversStopping
  <2> QED BY <1>1, <2>1, <2>2, <2>4, DispatchKeepsInvariant
<1> QED BY <1>2, <1>3

\* What the store resumes with starts no closing that the sweep would miss.
LEMMA ResumeKeepsSweep ==
  ASSUME StoreInv, SweepCoversStopping, Resume, phase' = phase
  PROVE  SweepCoversStopping'
<1>1. ASSUME NEW c \in Calls, EndpointListens(c) \/ EndpointFails(c)
      PROVE  SweepCoversStopping'
  <2>1. sweep' = sweep /\ swept' = swept
    BY <1>1 DEF EndpointListens, EndpointFails
  <2>2. \A s \in SessionIds : session'[s].endpoint = "stopping" => session[s].endpoint = "stopping"
    <3>1. /\ call[c].op = "create" /\ call[c].status = Pending
      BY <1>1 DEF EndpointListens, EndpointFails, Waiting
    <3>2. call[c].session \in SessionIds
      <4>1. CallFits(c) /\ call[c] \in Call
        BY StoreTypes DEF StoreInv, CallsFitSessions
      <4> QED BY <3>1, <4>1 DEF CallFits, Call, Pending
    <3>3. session[call[c].session] \in Record /\ session \in [SessionIds -> Record]
      BY <3>2, StoreTypes DEF StoreInv
    <3>4. CASE EndpointListens(c)
      <4> DEFINE new == [session[call[c].session] EXCEPT !.state = "active",
                                                         !.endpoint = "listening"]
      <4>1. session' = [session EXCEPT ![call[c].session] = new]
        BY <3>2, <3>3, <3>4 DEF EndpointListens
      <4>2. new.endpoint = "listening"
        BY <3>3 DEF Record
      <4> HIDE DEF new
      <4> QED BY <3>2, <3>3, <4>1, <4>2
    <3>5. CASE EndpointFails(c)
      BY <3>2, <3>3, <3>5 DEF EndpointFails, Record
    <3> QED BY <1>1, <3>4, <3>5
  <2> QED BY <2>1, <2>2 DEF SweepCoversStopping
<1>2. ASSUME NEW c \in Calls, NEW status \in {210, 211, 408}, TestFinished(c, status)
      PROVE  SweepCoversStopping'
  <2>1. sweep' = sweep /\ swept' = swept
    BY <1>2 DEF TestFinished
  <2>2. \A s \in SessionIds : session'[s].endpoint = session[s].endpoint
    BY <1>2, StoreTypes DEF StoreInv, TestFinished, Record
  <2> QED BY <2>1, <2>2 DEF SweepCoversStopping
<1>3. ASSUME NEW t \in SessionIds, EndpointStopped(t)
      PROVE  SweepCoversStopping'
  <2>1. sweep' = sweep /\ swept' = swept \ {t}
    BY <1>3 DEF EndpointStopped
  <2>2. /\ \A s \in SessionIds : s # t => session'[s] = session[s]
        /\ session'[t].endpoint = "stopped"
    BY <1>3, StoreTypes DEF StoreInv, EndpointStopped, Record
  <2> QED BY <2>1, <2>2 DEF SweepCoversStopping
<1>4. CASE CloseAllReturns
  BY <1>4 DEF CloseAllReturns, SweepCoversStopping
<1> QED BY <1>1, <1>2, <1>3, <1>4 DEF Resume

\* The requests that HandlersResume wakes, and those whose socket is gone.
Resumed == {r \in Handled : call'[r].status # Pending}
Dropped(c) == {r \in Resumed : request[r].conn = c /\ conn[c].socket # "open"}

LEMMA HandlersResumeFacts ==
  ASSUME ServerInv, HandlersResume
  PROVE  /\ \A c \in Conns : /\ Dropped(c) \subseteq InFlight(c)
                             /\ InFlight(c)' = InFlight(c) \ Dropped(c)
                             /\ Dropped(c) # {} => conn[c].socket # "open"
                             /\ IsFiniteSet(Dropped(c))
                             /\ conn'[c] = [conn[c] EXCEPT !.inFlight =
                                              conn[c].inFlight - Cardinality(Dropped(c))]
         /\ request' \in [Requests -> RequestState]
         /\ \A r \in Requests : /\ request'[r].conn = request[r].conn
                                /\ request'[r].pc = "none" <=> request[r].pc = "none"
         /\ DOMAIN conn' = Conns /\ conn' = [c \in Conns |-> conn'[c]]
         /\ Resume /\ phase' = phase
<1>1. /\ Resume /\ phase' = phase
      /\ request' = [r \in Requests |->
                       IF r \in Resumed
                       THEN [request[r] EXCEPT !.pc = Respond(conn[request[r].conn])]
                       ELSE request[r]]
      /\ conn' = [c \in Conns |->
                    [conn[c] EXCEPT !.inFlight = conn[c].inFlight - Cardinality(Dropped(c))]]
  BY DEF HandlersResume, Resumed, Dropped
<1>2. \A r \in Requests : request[r] \in RequestState
  BY DEF ServerInv, StatesAreTyped
<1>3. \A c \in Conns : /\ Respond(conn[c]) \in {"writing", "late", "lost"}
                       /\ Respond(conn[c]) = "lost" <=> conn[c].socket # "open"
  BY DEF Respond, ServerInv, StatesAreTyped, ConnState
<1>9. \A r \in Requests : request[r].pc # "none" => request[r].conn \in Conns
  BY DEF ServerInv, RequestsHaveConnections
<1>4. \A r \in Requests : /\ request'[r] \in RequestState
                          /\ request'[r].conn = request[r].conn
                          /\ r \notin Resumed => request'[r] = request[r]
                          /\ r \in Resumed =>
                               /\ request[r].pc = "handling"
                               /\ request'[r].pc = Respond(conn[request[r].conn])
  BY <1>1, <1>2, <1>3, <1>9 DEF RequestState, Resumed, Handled
<1>5. request' \in [Requests -> RequestState]
  BY <1>1, <1>4
<1>6. ASSUME NEW c \in Conns
      PROVE  /\ Dropped(c) \subseteq InFlight(c)
             /\ InFlight(c)' = InFlight(c) \ Dropped(c)
             /\ Dropped(c) # {} => conn[c].socket # "open"
             /\ IsFiniteSet(Dropped(c))
  <2>1. Dropped(c) \subseteq InFlight(c)
    BY DEF Dropped, InFlight, Resumed, Handled
  <2>2. IsFiniteSet(Dropped(c))
    BY <2>1, ServerSets, FS_Subset
  <2>3. InFlight(c)' = InFlight(c) \ Dropped(c)
    BY <1>3, <1>4 DEF InFlight, Dropped, Resumed, Handled
  <2>4. Dropped(c) # {} => conn[c].socket # "open"
    BY DEF Dropped
  <2> QED BY <2>1, <2>2, <2>3, <2>4
<1>7. \A r \in Requests : request'[r].pc = "none" <=> request[r].pc = "none"
  BY <1>3, <1>4, <1>9
<1> HIDE DEF Dropped, Resumed
<1>8. /\ \A c \in Conns : conn'[c] = [conn[c] EXCEPT !.inFlight =
                                        conn[c].inFlight - Cardinality(Dropped(c))]
      /\ DOMAIN conn' = Conns /\ conn' = [c \in Conns |-> conn'[c]]
  BY <1>1
<1> QED BY <1>1, <1>4, <1>5, <1>6, <1>7, <1>8

LEMMA HandlersResumeKeepsInvariant ==
  ASSUME ServerInv, HandlersResume
  PROVE  ServerInv'
<1>1. /\ request' \in [Requests -> RequestState]
      /\ \A r \in Requests : /\ request'[r].conn = request[r].conn
                             /\ request'[r].pc = "none" <=> request[r].pc = "none"
      /\ DOMAIN conn' = Conns /\ conn' = [c \in Conns |-> conn'[c]]
      /\ Resume /\ phase' = phase
  BY HandlersResumeFacts
<1>2. ASSUME NEW c \in Conns
      PROVE  /\ conn'[c] \in ConnState
             /\ conn'[c].inFlight = Cardinality(InFlight(c)')
             /\ conn'[c].socket = conn[c].socket /\ conn'[c].tracked = conn[c].tracked
             /\ conn'[c].fault = conn[c].fault
             /\ conn'[c].closeWhenIdle = conn[c].closeWhenIdle
             /\ conn'[c].ended = conn[c].ended /\ conn'[c].peerEnded = conn[c].peerEnded
             /\ conn'[c].inFlight # conn[c].inFlight => conn[c].socket # "open"
  <2> DEFINE d == Cardinality(Dropped(c))
             n == Cardinality(InFlight(c))
  <2>1. /\ Dropped(c) \subseteq InFlight(c) /\ InFlight(c)' = InFlight(c) \ Dropped(c)
        /\ Dropped(c) # {} => conn[c].socket # "open"
        /\ IsFiniteSet(Dropped(c)) /\ IsFiniteSet(InFlight(c))
        /\ conn'[c] = [conn[c] EXCEPT !.inFlight = conn[c].inFlight - d]
    BY HandlersResumeFacts, ServerSets
  <2>2. d \in Nat /\ n \in Nat /\ d <= n
    BY <2>1, FS_Subset, FS_CardinalityType
  <2>3. Cardinality(InFlight(c) \ Dropped(c)) = n - d
    <3>1. InFlight(c) \cap Dropped(c) = Dropped(c)
      BY <2>1
    <3>2. Cardinality(InFlight(c) \ Dropped(c)) = n - Cardinality(InFlight(c) \cap Dropped(c))
      BY <2>1, FS_Difference
    <3> QED BY <3>1, <3>2
  <2>4. conn[c].inFlight = n /\ conn[c] \in ConnState
    BY DEF ServerInv, InFlightIsExact, StatesAreTyped
  <2>5. Dropped(c) = {} => d = 0
    BY FS_EmptySet
  <2> HIDE DEF d, n
  <2>6. n - d \in Nat
    BY <2>2
  <2>7. conn'[c] = [conn[c] EXCEPT !.inFlight = n - d]
    BY <2>1, <2>4
  <2>8. d # 0 => conn[c].socket # "open"
    BY <2>1, <2>5
  <2>9. n - d = Cardinality(InFlight(c)')
    BY <2>1, <2>3
  <2>10. n - d # n => d # 0
    BY <2>2
  <2> QED BY <2>4, <2>6, <2>7, <2>8, <2>9, <2>10 DEF ConnState
<1>3. StoreInv'
  BY <1>1, ResumeKeepsInvariant DEF ServerInv
<1>4. StatesAreTyped'
  <2>1. conn' \in [Conns -> ConnState]
    BY <1>1, <1>2
  <2> QED BY <1>1, <2>1 DEF ServerInv, StatesAreTyped
<1>5. Cardinality(Tracked)' <= MaxConnections
  <2>1. Tracked' = Tracked
    BY <1>2 DEF Tracked
  <2> QED BY <2>1 DEF ServerInv
<1>6. InFlightIsExact'
  BY <1>2 DEF ServerInv, InFlightIsExact
<1>7. RequestsHaveConnections'
  BY <1>1, <1>2 DEF ServerInv, RequestsHaveConnections
<1>8. SweepCoversStopping'
  BY <1>1, ResumeKeepsSweep DEF ServerInv
<1> QED BY <1>3, <1>4, <1>5, <1>6, <1>7, <1>8 DEF ServerInv

\* The connection of request r once its write is over, before it may end.
WriteEnds(r) ==
  [Written(conn[request[r].conn], request[r].pc) EXCEPT
     !.inFlight = conn[request[r].conn].inFlight - 1,
     !.closeWhenIdle = conn[request[r].conn].closeWhenIdle \/ request[r].close]

LEMMA WriteDoneFacts ==
  ASSUME ServerInv, NEW r \in Requests, WriteDone(r), NEW c, c = request[r].conn
  PROVE  /\ c \in Conns /\ r \in InFlight(c)
         /\ InFlight(c)' = InFlight(c) \ {r}
         /\ \A d \in Conns : d # c => InFlight(d)' = InFlight(d)
         /\ conn[c].inFlight - 1 \in Nat
         /\ conn[c].inFlight - 1 = Cardinality(InFlight(c)')
         /\ WriteEnds(r) \in ConnState
         /\ WriteEnds(r).inFlight = conn[c].inFlight - 1
         /\ WriteEnds(r).tracked = conn[c].tracked
         /\ WriteEnds(r).ended = conn[c].ended
         /\ WriteEnds(r).socket # "none"
         /\ conn' = [conn EXCEPT ![c] = EndIfIdle(WriteEnds(r))]
         /\ request' \in [Requests -> RequestState]
         /\ \A q \in Requests : /\ request'[q].conn = request[q].conn
                                /\ request'[q].pc = "none" <=> request[q].pc = "none"
         /\ UNCHANGED <<storeVars, phase>>
<1>1. /\ request \in [Requests -> RequestState] /\ conn \in [Conns -> ConnState]
      /\ request[r] \in RequestState
      /\ request[r].pc \in {"writing", "late"} /\ c \in Conns /\ r \in InFlight(c)
      /\ conn[c].socket # "none"
      /\ UNCHANGED <<storeVars, phase>>
  BY DEF ServerInv, StatesAreTyped, RequestsHaveConnections, WriteDone, InFlight
<1> DEFINE lost == request[r].pc = "late" \/ conn[c].socket # "open"
<1>2. request' = [request EXCEPT ![r].pc = IF lost THEN "lost" ELSE "sent"]
  BY DEF WriteDone
<1> DEFINE new == [request[r] EXCEPT !.pc = IF lost THEN "lost" ELSE "sent"]
<1>3. request' = [request EXCEPT ![r] = new]
  BY <1>1, <1>2
<1>4. new \in RequestState /\ new.conn = c /\ new.pc \in {"lost", "sent"}
  BY <1>1 DEF RequestState
<1> HIDE DEF new, lost
<1>5. /\ request' \in [Requests -> RequestState]
      /\ request'[r] = new /\ \A q \in Requests : q # r => request'[q] = request[q]
  BY <1>1, <1>3, <1>4
<1>6. \A q \in Requests : /\ request'[q].conn = request[q].conn
                          /\ request'[q].pc = "none" <=> request[q].pc = "none"
  BY <1>1, <1>4, <1>5
<1>7. /\ InFlight(c)' = InFlight(c) \ {r}
      /\ \A d \in Conns : d # c => InFlight(d)' = InFlight(d)
  BY <1>4, <1>5 DEF InFlight
<1>8. /\ conn[c].inFlight = Cardinality(InFlight(c)) /\ conn[c].inFlight \in Nat
      /\ Cardinality(InFlight(c) \ {r}) = Cardinality(InFlight(c)) - 1
      /\ Cardinality(InFlight(c) \ {r}) \in Nat
  <2>1. Cardinality(InFlight(c) \ {r}) = Cardinality(InFlight(c)) - 1
    BY <1>1, ServerSets, FS_RemoveElement
  <2>2. IsFiniteSet(InFlight(c) \ {r})
    BY ServerSets, FS_Subset
  <2> QED BY <1>1, <2>1, <2>2, FS_CardinalityType DEF ServerInv, InFlightIsExact, ConnState
<1> DEFINE n == conn[c].inFlight - 1
           w == Written(conn[c], request[r].pc)
           close == conn[c].closeWhenIdle \/ request[r].close
<1>9. n \in Nat /\ n = Cardinality(InFlight(c)')
  BY <1>7, <1>8
<1>10. /\ w \in ConnState /\ w.tracked = conn[c].tracked /\ w.ended = conn[c].ended
       /\ w.socket # "none" /\ w.closeWhenIdle = conn[c].closeWhenIdle
  BY <1>1, WrittenFacts
<1>11. close \in BOOLEAN
  BY <1>1 DEF ConnState, RequestState
<1>12. WriteEnds(r) = [w EXCEPT !.inFlight = n, !.closeWhenIdle = close]
  BY <1>5 DEF WriteEnds
<1>13. conn' = [conn EXCEPT ![c] = EndIfIdle(WriteEnds(r))]
  <2>1. w.inFlight = conn[c].inFlight
    BY <1>1, WrittenFacts
  <2>2. [w EXCEPT !.inFlight = @ - 1, !.closeWhenIdle = @ \/ request[r].close]
          = [w EXCEPT !.inFlight = n, !.closeWhenIdle = close]
    BY <1>10, <2>1
  <2>3. conn' = [conn EXCEPT ![c] =
                   EndIfIdle([w EXCEPT !.inFlight = @ - 1,
                                       !.closeWhenIdle = @ \/ request[r].close])]
    BY DEF WriteDone
  <2> QED BY <1>12, <2>2, <2>3
<1> HIDE DEF n, w, close
<1>14. /\ WriteEnds(r) \in ConnState /\ WriteEnds(r).inFlight = n
       /\ WriteEnds(r).tracked = conn[c].tracked /\ WriteEnds(r).ended = conn[c].ended
       /\ WriteEnds(r).socket # "none"
  BY <1>9, <1>10, <1>11, <1>12 DEF ConnState
<1> QED BY <1>1, <1>5, <1>6, <1>7, <1>9, <1>13, <1>14 DEF n

LEMMA WriteDoneKeepsInvariant ==
  ASSUME ServerInv, NEW r \in Requests, WriteDone(r)
  PROVE  ServerInv'
<1> PICK c : c = request[r].conn
  OBVIOUS
<1> DEFINE new == EndIfIdle(WriteEnds(r))
<1>1. /\ c \in Conns
      /\ \A d \in Conns : d # c => InFlight(d)' = InFlight(d)
      /\ WriteEnds(r) \in ConnState
      /\ WriteEnds(r).inFlight = Cardinality(InFlight(c)')
      /\ WriteEnds(r).tracked = conn[c].tracked
      /\ WriteEnds(r).socket # "none"
      /\ conn' = [conn EXCEPT ![c] = EndIfIdle(WriteEnds(r))]
      /\ request' \in [Requests -> RequestState]
      /\ \A q \in Requests : /\ request'[q].conn = request[q].conn
                             /\ request'[q].pc = "none" <=> request[q].pc = "none"
      /\ UNCHANGED <<storeVars, phase>>
  BY WriteDoneFacts
<1>2. /\ new \in ConnState /\ new.inFlight = Cardinality(InFlight(c)')
      /\ new.tracked = conn[c].tracked /\ new.socket # "none"
      /\ new.closeWhenIdle /\ new.inFlight = 0 => new.ended \/ new.socket # "open"
  BY <1>1, EndIfIdleFacts
<1> HIDE DEF new
<1>3. /\ conn' \in [Conns -> ConnState]
      /\ conn'[c] = new /\ \A d \in Conns : d # c => conn'[d] = conn[d]
  BY <1>1, <1>2 DEF ServerInv, StatesAreTyped, new
<1>4. StoreInv'
  BY <1>1, StutterKeepsInvariant DEF ServerInv
<1>5. StatesAreTyped'
  BY <1>1, <1>3 DEF ServerInv, StatesAreTyped
<1>6. Cardinality(Tracked)' <= MaxConnections
  <2>1. Tracked' = Tracked
    BY <1>1, <1>2, <1>3 DEF Tracked
  <2> QED BY <2>1 DEF ServerInv
<1>7. InFlightIsExact'
  BY <1>1, <1>2, <1>3 DEF ServerInv, InFlightIsExact
<1>8. RequestsHaveConnections'
  BY <1>1, <1>2, <1>3 DEF ServerInv, RequestsHaveConnections
<1>9. SweepCoversStopping'
  BY <1>1 DEF ServerInv, SweepCoversStopping, storeVars
<1> QED BY <1>4, <1>5, <1>6, <1>7, <1>8, <1>9 DEF ServerInv

-----------------------------------------------------------------------------
(* Shutdown.                                                                *)

LEMMA ShutdownKeepsInvariant ==
  ASSUME ServerInv, Close \/ Sweep \/ DestroySockets \/ ListenerClosed
  PROVE  ServerInv'
<1>1. CASE Close \/ ListenerClosed
  <2>1. /\ UNCHANGED storeVars /\ conn' = conn /\ request' = request
        /\ phase' \in {"draining", "closed"}
    BY <1>1 DEF Close, ListenerClosed
  <2>2. StoreInv'
    BY <2>1, StutterKeepsInvariant DEF ServerInv
  <2>3. StatesAreTyped' /\ RequestsHaveConnections' /\ SweepCoversStopping'
    BY <2>1 DEF ServerInv, StatesAreTyped, RequestsHaveConnections, SweepCoversStopping, storeVars
  <2>4. Tracked' = Tracked /\ \A c \in Conns : InFlight(c)' = InFlight(c)
    BY <2>1 DEF Tracked, InFlight
  <2> QED BY <2>1, <2>2, <2>3, <2>4 DEF ServerInv, InFlightIsExact
<1>2. CASE Sweep
  <2>1. /\ CloseAll /\ phase = "draining" /\ phase' = phase /\ conn' = conn /\ request' = request
    BY <1>2 DEF Sweep, serverVars
  <2>2. StoreInv'
    BY <2>1, SweepKeepsInvariant DEF ServerInv
  <2>3. StatesAreTyped' /\ RequestsHaveConnections'
    BY <2>1 DEF ServerInv, StatesAreTyped, RequestsHaveConnections
  <2>4. Tracked' = Tracked /\ \A c \in Conns : InFlight(c)' = InFlight(c)
    BY <2>1 DEF Tracked, InFlight
  <2>5. SweepCoversStopping'
    <3>1. /\ sweep' = "waiting" /\ swept' = InState("active")
          /\ \A s \in SessionIds : session'[s].state = session[s].state
      BY <2>1, StoreTypes DEF ServerInv, StoreInv, CloseAll, Record
    <3>2. \A s \in SessionIds : session'[s].endpoint = "stopping" => session'[s].state = "active"
      <4>1. TypeOK' /\ EndpointFollowsState'
        BY <2>2 DEF StoreInv
      <4>2. \A s \in SessionIds : session'[s].state \in {"absent", "active", "closed"}
        BY <4>1 DEF TypeOK
      <4> QED BY <4>1, <4>2 DEF EndpointFollowsState
    <3> QED BY <2>1, <3>1, <3>2 DEF SweepCoversStopping, InState
  <2> QED BY <2>1, <2>2, <2>3, <2>4, <2>5 DEF ServerInv, InFlightIsExact
<1>3. CASE DestroySockets
  <2>1. /\ UNCHANGED storeVars /\ request' = request /\ phase' = "destroyed"
        /\ phase = "draining"
    BY <1>3 DEF DestroySockets
  <2>2. ASSUME NEW c \in Conns
        PROVE  /\ conn'[c] \in ConnState
               /\ conn'[c].inFlight = conn[c].inFlight /\ conn'[c].ended = conn[c].ended
               /\ conn'[c].closeWhenIdle = conn[c].closeWhenIdle
               /\ conn'[c].fault = conn[c].fault /\ ~conn'[c].tracked
               /\ conn'[c].socket = "none" <=> conn[c].socket = "none"
               /\ conn'[c].socket = "open" => conn[c].socket = "open"
    <3>1. conn[c] \in ConnState
      BY DEF ServerInv, StatesAreTyped
    <3>2. conn'[c] = [conn[c] EXCEPT !.socket = IF conn[c].tracked /\ conn[c].socket = "open"
                                                THEN "destroyed" ELSE conn[c].socket,
                                     !.tracked = FALSE]
      BY <1>3 DEF DestroySockets
    <3> QED BY <3>1, <3>2 DEF ConnState
  <2>3. conn' \in [Conns -> ConnState]
    <3>1. conn' = [c \in Conns |-> conn'[c]]
      BY <1>3 DEF DestroySockets
    <3> QED BY <2>2, <3>1
  <2>4. StoreInv'
    BY <2>1, StutterKeepsInvariant DEF ServerInv
  <2>5. StatesAreTyped'
    BY <2>1, <2>3 DEF ServerInv, StatesAreTyped
  <2>6. Cardinality(Tracked)' <= MaxConnections
    <3>1. Tracked' = {}
      BY <2>2 DEF Tracked
    <3> QED BY <3>1, FS_EmptySet, ServerAssumption
  <2>7. InFlightIsExact'
    <3>1. \A c \in Conns : InFlight(c)' = InFlight(c)
      BY <2>1 DEF InFlight
    <3> QED BY <2>2, <3>1 DEF ServerInv, InFlightIsExact
  <2>8. RequestsHaveConnections'
    BY <2>1, <2>2 DEF ServerInv, RequestsHaveConnections
  <2>9. SweepCoversStopping'
    BY <2>1 DEF ServerInv, SweepCoversStopping, storeVars
  <2> QED BY <2>4, <2>5, <2>6, <2>7, <2>8, <2>9 DEF ServerInv
<1> QED BY <1>1, <1>2, <1>3

-----------------------------------------------------------------------------
(* The theorems.                                                            *)

LEMMA ServerInitInvariant == Init => ServerInv
<1> SUFFICES ASSUME Init PROVE ServerInv
  OBVIOUS
<1>1. /\ conn = [c \in Conns |-> Unconnected] /\ request = [r \in Requests |-> Unreceived]
      /\ phase = "listening" /\ StoreInit
  BY DEF Init
<1>2. StoreInv
  BY <1>1, InitInvariant
<1>3. StatesAreTyped
  BY <1>1 DEF StatesAreTyped, ConnState, RequestState, Unconnected, Unreceived
<1>4. Tracked = {} /\ \A c \in Conns : InFlight(c) = {}
  BY <1>1 DEF Tracked, InFlight, Unconnected, Unreceived
<1>5. Cardinality({}) = 0
  BY FS_EmptySet
<1>6. Cardinality(Tracked) <= MaxConnections
  BY <1>4, <1>5, ServerAssumption
<1>7. InFlightIsExact
  BY <1>1, <1>4, <1>5 DEF InFlightIsExact, Unconnected
<1>8. RequestsHaveConnections
  BY <1>1 DEF RequestsHaveConnections, Unconnected, Unreceived
<1>9. SweepCoversStopping
  BY <1>1 DEF SweepCoversStopping, StoreInit
<1> QED BY <1>2, <1>3, <1>6, <1>7, <1>8, <1>9 DEF ServerInv

LEMMA ServerStutterKeepsInvariant ==
  ASSUME ServerInv, UNCHANGED vars
  PROVE  ServerInv'
<1>1. /\ UNCHANGED storeVars /\ conn' = conn /\ request' = request /\ phase' = phase
  BY DEF vars, serverVars
<1>2. StoreInv'
  BY <1>1, StutterKeepsInvariant DEF ServerInv
<1>3. StatesAreTyped' /\ RequestsHaveConnections' /\ SweepCoversStopping'
  BY <1>1 DEF ServerInv, StatesAreTyped, RequestsHaveConnections, SweepCoversStopping, storeVars
<1>4. Tracked' = Tracked /\ \A c \in Conns : InFlight(c)' = InFlight(c)
  BY <1>1 DEF Tracked, InFlight
<1> QED BY <1>1, <1>2, <1>3, <1>4 DEF ServerInv, InFlightIsExact

LEMMA ServerNextKeepsInvariant == ServerInv /\ [ServerNext]_vars => ServerInv'
<1> SUFFICES ASSUME ServerInv, [ServerNext]_vars PROVE ServerInv'
  OBVIOUS
<1>1. ASSUME NEW c \in Conns,
             \/ Accept(c) \/ ReceiveFault(c) \/ FaultWritten(c) \/ PeerEnds(c)
             \/ PeerResets(c) \/ CloseCompletes(c) \/ OnClose(c)
      PROVE  ServerInv'
  BY <1>1, ConnectionsKeepInvariant
<1>2. ASSUME NEW c \in Conns, NEW r \in Requests,
             ReceiveRefused(c, r) \/ ReceiveSimple(c, r) \/ ReceiveCall(c, r)
      PROVE  ServerInv'
  BY <1>2, ReceivesKeepInvariant
<1>3. CASE HandlersResume
  BY <1>3, HandlersResumeKeepsInvariant
<1>4. ASSUME NEW r \in Requests, WriteDone(r)
      PROVE  ServerInv'
  BY <1>4, WriteDoneKeepsInvariant
<1>5. CASE Close \/ Sweep \/ DestroySockets \/ ListenerClosed
  BY <1>5, ShutdownKeepsInvariant
<1>6. CASE UNCHANGED vars
  BY <1>6, ServerStutterKeepsInvariant
<1> QED BY <1>1, <1>2, <1>3, <1>4, <1>5, <1>6 DEF ServerNext

LEMMA ServerInvariant == ServerSpec => []ServerInv
BY ServerInitInvariant, ServerNextKeepsInvariant, PTL DEF ServerSpec

\* The counter that decides when a connection may end is the number of
\* requests in flight on it, never more connections are served than allowed,
\* and no connection that was to end when idle is idle and open; whatever
\* handlers, sockets and the shutdown do, for any number of each.
THEOREM CountsStayExact == ServerSpec => []CountsAreExact
<1>1. ASSUME ServerInv PROVE CountsAreExact
  <2>1. \A c \in Conns : conn[c].inFlight \in 0 .. Cardinality(Requests)
    BY <1>1, ServerSets DEF ServerInv, InFlightIsExact
  <2>2. conn \in [Conns -> [socket : {"none", "open", "destroyed", "closed"},
                            ended : BOOLEAN, peerEnded : BOOLEAN, tracked : BOOLEAN,
                            fault : {"none", "writing", "late", "done"},
                            inFlight : 0 .. Cardinality(Requests),
                            closeWhenIdle : BOOLEAN]]
    BY <1>1, <2>1 DEF ServerInv, StatesAreTyped, ConnState
  <2> QED BY <1>1, <2>2 DEF ServerInv, StoreInv, StatesAreTyped, RequestState,
                            CountsAreExact, ServerTypeOK
<1> QED BY <1>1, ServerInvariant, PTL

\* The server ends a connection only with no request in flight on it, unless
\* the peer ended it first: no response is cut off.
THEOREM ClosesAreDeferred == ServerSpec => CloseIsDeferred
<1> DEFINE Deferred == \A c \in Conns :
                         /\ ~conn[c].ended /\ conn'[c].ended
                         /\ ~conn'[c].peerEnded
                         => InFlight(c)' = {}
<1>1. ASSUME ServerInv, ServerNext, NEW c \in Conns, ~conn[c].ended, conn'[c].ended,
             ~conn'[c].peerEnded
      PROVE  InFlight(c)' = {}
  <2>1. /\ conn \in [Conns -> ConnState]
        /\ \A d \in Conns : conn[d] \in ConnState /\ conn[d].ended \in BOOLEAN
    BY <1>1 DEF ServerInv, StatesAreTyped, ConnState
  <2>2. \A d \in Conns : IsFiniteSet(InFlight(d)) /\ IsFiniteSet(InFlight(d)')
    <3>1. \A d \in Conns : InFlight(d) \subseteq Requests /\ InFlight(d)' \subseteq Requests
      BY DEF InFlight
    <3> QED BY <3>1, FS_Subset, StoreAssumption DEF Requests
  <2>3. ASSUME NEW d \in Conns, FaultWritten(d)
        PROVE  InFlight(c)' = {}
    <3>1. /\ FaultEnds(d) \in ConnState
          /\ conn' = [conn EXCEPT ![d] = EndIfIdle(FaultEnds(d))]
          /\ FaultEnds(d).inFlight = conn[d].inFlight
          /\ FaultEnds(d).ended = conn[d].ended
      BY <1>1, <2>3, FaultWrittenFacts
    <3>2. d = c
      BY <1>1, <2>1, <3>1
    <3>3. conn[c].inFlight = 0
      BY <1>1, <2>1, <3>1, <3>2, EndIfIdleFacts
    <3>4. InFlight(c) = {}
      BY <1>1, <2>2, <3>3, FS_EmptySet DEF ServerInv, InFlightIsExact
    <3> QED BY <2>3, <3>4 DEF FaultWritten, InFlight
  <2>4. ASSUME NEW r \in Requests, WriteDone(r)
        PROVE  InFlight(c)' = {}
    <3> PICK d : d = request[r].conn
      OBVIOUS
    <3>1. /\ d \in Conns /\ WriteEnds(r) \in ConnState
          /\ conn' = [conn EXCEPT ![d] = EndIfIdle(WriteEnds(r))]
          /\ WriteEnds(r).inFlight = Cardinality(InFlight(d)')
          /\ WriteEnds(r).ended = conn[d].ended
      BY <1>1, <2>4, WriteDoneFacts
    <3>2. d = c
      BY <1>1, <2>1, <3>1
    <3>3. WriteEnds(r).inFlight = 0
      BY <1>1, <2>1, <3>1, <3>2, EndIfIdleFacts
    <3> QED BY <2>2, <3>1, <3>2, <3>3, FS_EmptySet
  <2>5. ASSUME NEW d \in Conns, PeerEnds(d)
        PROVE  FALSE
    <3>1. d = c
      BY <1>1, <2>1, <2>5 DEF PeerEnds
    <3> DEFINE new == [conn[c] EXCEPT !.peerEnded = TRUE, !.ended = TRUE]
    <3>2. conn' = [conn EXCEPT ![c] = new]
      BY <2>1, <2>5, <3>1 DEF PeerEnds
    <3>3. new.peerEnded = TRUE
      BY <2>1 DEF ConnState
    <3> QED BY <1>1, <2>1, <3>2, <3>3
  <2>6. ASSUME NEW d \in Conns,
               \/ Accept(d) \/ ReceiveFault(d) \/ PeerResets(d) \/ CloseCompletes(d) \/ OnClose(d)
        PROVE  conn'[c].ended = conn[c].ended
    <3>1. \E k \in {x \in ConnState : x.ended = conn[d].ended} : conn' = [conn EXCEPT ![d] = k]
      <4>1. conn[d] \in ConnState /\ Respond(conn[d]) \in {"writing", "late", "lost"}
        BY <2>1 DEF Respond, ConnState
      <4>2. CASE Accept(d)
        <5> DEFINE k == [conn[d] EXCEPT !.socket = "open", !.tracked = ~Crowded,
                                        !.fault = IF Crowded THEN "writing" ELSE "none"]
        <5>1. conn' = [conn EXCEPT ![d] = k]
          BY <2>1, <4>2 DEF Accept
        <5>2. k \in ConnState /\ k.ended = conn[d].ended
          BY <4>1 DEF ConnState
        <5> QED BY <5>1, <5>2
      <4>3. CASE ReceiveFault(d)
        <5> DEFINE k == [conn[d] EXCEPT !.fault = Respond(conn[d])]
        <5>1. conn' = [conn EXCEPT ![d] = k] /\ Respond(conn[d]) \in {"writing", "late"}
          BY <2>1, <4>3 DEF ReceiveFault, Hears, Respond, ConnState
        <5>2. k \in ConnState /\ k.ended = conn[d].ended
          BY <4>1, <5>1 DEF ConnState
        <5> QED BY <5>1, <5>2
      <4>4. CASE PeerResets(d) \/ CloseCompletes(d)
        <5> DEFINE k == [conn[d] EXCEPT !.socket = "destroyed"]
        <5>1. conn' = [conn EXCEPT ![d] = k]
          BY <2>1, <4>4 DEF PeerResets, CloseCompletes
        <5>2. k \in ConnState /\ k.ended = conn[d].ended
          BY <4>1 DEF ConnState
        <5> QED BY <5>1, <5>2
      <4>5. CASE OnClose(d)
        <5> DEFINE k == [conn[d] EXCEPT !.socket = "closed", !.tracked = FALSE]
        <5>1. conn' = [conn EXCEPT ![d] = k]
          BY <2>1, <4>5 DEF OnClose
        <5>2. k \in ConnState /\ k.ended = conn[d].ended
          BY <4>1 DEF ConnState
        <5> QED BY <5>1, <5>2
      <4> QED BY <2>6, <4>2, <4>3, <4>4, <4>5
    <3> QED BY <2>1, <3>1
  <2>7. ASSUME NEW d \in Conns, NEW r \in Requests,
               ReceiveRefused(d, r) \/ ReceiveSimple(d, r) \/ ReceiveCall(d, r)
        PROVE  conn'[c].ended = conn[c].ended
    <3>1. conn' = [conn EXCEPT ![d].inFlight = @ + 1]
      BY <2>7 DEF ReceiveRefused, ReceiveSimple, ReceiveCall, Dispatched
    <3> QED BY <2>1, <3>1 DEF ConnState
  <2>8. ASSUME HandlersResume
        PROVE  conn'[c].ended = conn[c].ended
    <3>1. conn'[c] = [conn[c] EXCEPT !.inFlight = conn[c].inFlight - Cardinality(Dropped(c))]
      BY <1>1, <2>8, HandlersResumeFacts
    <3> QED BY <2>1, <3>1 DEF ConnState
  <2>9. ASSUME Close \/ Sweep \/ DestroySockets \/ ListenerClosed
        PROVE  conn'[c].ended = conn[c].ended
    <3>1. CASE DestroySockets
      <4>1. conn'[c] = [conn[c] EXCEPT !.socket = IF conn[c].tracked /\ conn[c].socket = "open"
                                                  THEN "destroyed" ELSE conn[c].socket,
                                       !.tracked = FALSE]
        BY <3>1 DEF DestroySockets
      <4> QED BY <2>1, <4>1 DEF ConnState
    <3>2. CASE Close \/ Sweep \/ ListenerClosed
      BY <3>2 DEF Close, Sweep, ListenerClosed, serverVars
    <3> QED BY <2>9, <3>1, <3>2
  <2> QED BY <1>1, <2>3, <2>4, <2>5, <2>6, <2>7, <2>8, <2>9 DEF ServerNext
<1>2. ServerInv /\ [ServerNext]_vars => [Deferred]_vars
  BY <1>1
<1> QED BY <1>2, ServerInvariant, PTL DEF ServerSpec, CloseIsDeferred

\* A shutdown destroys the sockets only when every session that was closing
\* is closed and its endpoint stopped, whoever began to close it.
THEOREM SocketsComeLast == ServerSpec => SocketsOutliveSessions
<1> DEFINE Outlive == phase = "draining" /\ phase' = "destroyed" =>
                        \A s \in SessionIds : session[s].endpoint # "stopping"
<1>1. ASSUME ServerInv, ServerNext, phase = "draining", phase' = "destroyed"
      PROVE  \A s \in SessionIds : session[s].endpoint # "stopping"
  <2>1. DestroySockets
    BY <1>1 DEF ServerNext, Accept, ReceiveFault, FaultWritten, PeerEnds, PeerResets,
                CloseCompletes, OnClose, ReceiveRefused, ReceiveSimple, ReceiveCall,
                Dispatched, HandlersResume, WriteDone, Close, Sweep, ListenerClosed, serverVars
  <2>2. sweep = "done"
    BY <2>1 DEF DestroySockets
  <2> QED BY <1>1, <2>2 DEF ServerInv, SweepCoversStopping
<1>2. ServerInv /\ [ServerNext]_vars => [Outlive]_vars
  BY <1>1
<1> QED BY <1>2, ServerInvariant, PTL DEF ServerSpec, SocketsOutliveSessions

-----------------------------------------------------------------------------
(* The token bucket of a connection, for every capacity, rate and clock.    *)
(* The window bound is not inductive: Ledger adds that what is left in the  *)
(* bucket is paid for out of the window from each past admission to the     *)
(* last refill.  The answer to a refused client is a fact about the bucket, *)
(* Quote, that no later refusal changes.                                    *)

Rate == RefillPerSecond

\* The tokens left, and those admitted since request i, fit in the window
\* from request i to the last refill.
Ledger ==
  \A i \in DOMAIN admissions :
    tokens + (Len(admissions) - i + 1) * Token
      <= Capacity * Token + Rate * (lastRefillMs - admissions[i])

\* retryAt is the first clock reading at which the bucket holds a token.
Quote ==
  retryAt # NotLimited =>
    /\ tokens + Rate * (retryAt - lastRefillMs) >= Token
    /\ tokens + Rate * (retryAt - 1 - lastRefillMs) < Token

BucketInv == BucketTypeOK /\ Ledger /\ AdmissionsAreLimited /\ Quote

LEMMA Windows ==
  ASSUME NEW r \in Int, NEW a \in Int, NEW b \in Int, NEW c \in Int
  PROVE  r * (a - b) + r * (b - c) = r * (a - c)
OBVIOUS

LEMMA Commute == ASSUME NEW a \in Int, NEW b \in Int PROVE a * b = b * a
OBVIOUS

\* Rounding up: n milliseconds refill at least a, n - 1 do not.
LEMMA CeilingOfDivision ==
  ASSUME NEW a \in Int, NEW b \in Nat \ {0}
  PROVE  /\ (a + b - 1) \div b \in Int
         /\ b * ((a + b - 1) \div b) >= a
         /\ b * ((a + b - 1) \div b - 1) < a
<1> DEFINE n == a + b - 1
           q == n \div b
<1>1. q \in Int /\ n % b \in 0 .. b - 1 /\ n = b * q + (n % b)
  OBVIOUS
<1>2. b * (q - 1) = b * q - b
  BY <1>1
<1> QED BY <1>1, <1>2

LEMMA RefilledFacts ==
  ASSUME BucketTypeOK
  PROVE  /\ Refilled \in Int
         /\ Refilled <= Capacity * Token
         /\ Refilled <= tokens + Rate * (now - lastRefillMs)
         /\ Refilled < Token => Refilled = tokens + Rate * (now - lastRefillMs)
<1> DEFINE grown == tokens + (now - lastRefillMs) * RefillPerSecond
<1>1. grown \in Int /\ grown = tokens + Rate * (now - lastRefillMs)
  BY LimitAssumption, Commute DEF BucketTypeOK, Rate
<1>2. Capacity * Token \in Int /\ Capacity * Token >= Token
  BY LimitAssumption DEF Token
<1>3. Refilled = IF grown < Capacity * Token THEN grown ELSE Capacity * Token
  BY DEF Refilled
<1> HIDE DEF grown
<1> QED BY <1>1, <1>2, <1>3 DEF Token

\* What Ledger says of the bucket as it stands when a request arrives.
LEMMA LedgerNow ==
  ASSUME BucketTypeOK, Ledger, NEW i \in DOMAIN admissions
  PROVE  Refilled + (Len(admissions) - i + 1) * Token
           <= Capacity * Token + Rate * (now - admissions[i])
<1>1. /\ Rate \in Int /\ now \in Int /\ lastRefillMs \in Int /\ tokens \in Int
      /\ admissions[i] \in Int /\ Len(admissions) \in Int /\ i \in Int
      /\ Capacity \in Int
  BY LimitAssumption DEF BucketTypeOK, Rate
<1>2. Rate * (now - lastRefillMs) + Rate * (lastRefillMs - admissions[i])
        = Rate * (now - admissions[i])
  BY <1>1, Windows
<1> DEFINE a == Rate * (now - lastRefillMs)
           b == Rate * (lastRefillMs - admissions[i])
           c == Rate * (now - admissions[i])
           k == (Len(admissions) - i + 1) * Token
           m == Capacity * Token
<1>3. a \in Int /\ b \in Int /\ c \in Int /\ k \in Int /\ m \in Int
  <2>1. \A p, q \in Int : p * q \in Int
    OBVIOUS
  <2>2. /\ now - lastRefillMs \in Int /\ lastRefillMs - admissions[i] \in Int
        /\ now - admissions[i] \in Int /\ Len(admissions) - i + 1 \in Int
        /\ Token \in Int
    BY <1>1 DEF Token
  <2> HIDE DEF Rate
  <2> QED BY <1>1, <2>1, <2>2
<1>4. tokens + k <= m + b /\ Refilled <= tokens + a /\ Refilled \in Int /\ a + b = c
  BY <1>2, RefilledFacts DEF Ledger
<1> HIDE DEF a, b, c, k, m
<1>5. Refilled + k <= m + c
  BY <1>1, <1>3, <1>4
<1> QED BY <1>5 DEF k, m, c

LEMMA AdmitKeepsInvariant == ASSUME BucketInv, Admit PROVE BucketInv'
<1>1. /\ Rate \in Int /\ now \in Int /\ Capacity \in Int /\ now \in 0 .. MaxClock
      /\ admissions \in Seq(0 .. MaxClock) /\ Len(admissions) \in Nat
      /\ MaxAdmitted \in Nat
  BY LimitAssumption DEF BucketInv, BucketTypeOK, Rate
<1>2. /\ admissions' \in Seq(0 .. MaxClock)
      /\ Len(admissions') = Len(admissions) + 1
      /\ DOMAIN admissions' = 1 .. Len(admissions) + 1
      /\ \A i \in 1 .. Len(admissions) : admissions'[i] = admissions[i]
      /\ admissions'[Len(admissions) + 1] = now
  BY <1>1, AppendProperties DEF Admit
<1>3. /\ Refilled \in Int /\ Refilled <= Capacity * Token /\ Refilled >= Token
      /\ tokens' = Refilled - Token
      /\ lastRefillMs' = now /\ now' = now /\ retryAt' = NotLimited
  BY RefilledFacts DEF BucketInv, Admit
<1>4. BucketTypeOK'
  <2>1. Len(admissions') <= MaxAdmitted
    BY <1>1, <1>2 DEF Admit
  <2>2. tokens' \in Int /\ tokens' <= Capacity * Token
    BY <1>1, <1>3 DEF Token
  <2> QED BY <1>1, <1>2, <1>3, <2>1, <2>2 DEF BucketTypeOK
<1>5. ASSUME NEW i \in DOMAIN admissions'
      PROVE  Refilled + (Len(admissions) - i + 1) * Token
               <= Capacity * Token + Rate * (now - admissions'[i])
  <2>1. CASE i = Len(admissions) + 1
    <3>1. Rate * (now - admissions'[i]) = 0
      BY <1>1, <1>2, <2>1
    <3>2. (Len(admissions) - i + 1) * Token = 0
      BY <1>1, <2>1 DEF Token
    <3> QED BY <1>1, <1>3, <3>1, <3>2 DEF Token
  <2>2. CASE i # Len(admissions) + 1
    <3>1. i \in DOMAIN admissions /\ admissions'[i] = admissions[i]
      BY <1>1, <1>2, <2>2
    <3> QED BY <3>1, LedgerNow DEF BucketInv
  <2> QED BY <2>1, <2>2
<1>6. Ledger'
  <2>1. SUFFICES ASSUME NEW i \in DOMAIN admissions'
                 PROVE  tokens' + (Len(admissions') - i + 1) * Token
                          <= Capacity * Token + Rate * (lastRefillMs' - admissions'[i])
    BY DEF Ledger, Rate, Token
  <2>2. tokens' + (Len(admissions') - i + 1) * Token
          = Refilled + (Len(admissions) - i + 1) * Token
    BY <1>1, <1>2, <1>3 DEF Token
  <2> QED BY <1>3, <1>5, <2>2
<1>7. AdmissionsAreLimited'
  <2>1. SUFFICES ASSUME NEW i \in DOMAIN admissions', NEW j \in DOMAIN admissions', i <= j
                 PROVE  (j - i + 1) * Token
                          <= Capacity * Token
                               + RefillPerSecond * (admissions'[j] - admissions'[i])
    BY DEF AdmissionsAreLimited, Token
  <2>2. CASE j = Len(admissions) + 1
    <3>0. admissions'[i] \in 0 .. MaxClock
      BY <1>2, ElementOfSeq
    <3>1. Rate * (now - admissions'[i]) \in Int
      BY <1>1, <3>0
    <3>2. (j - i + 1) * Token = Token + (Len(admissions) - i + 1) * Token
      BY <1>1, <1>2, <2>2 DEF Token
    <3>3. (Len(admissions) - i + 1) * Token \in Int /\ Capacity * Token \in Int
      BY <1>1, <1>2 DEF Token
    <3>4. (j - i + 1) * Token <= Capacity * Token + Rate * (now - admissions'[i])
      BY <1>3, <1>5, <3>1, <3>2, <3>3 DEF Token
    <3> QED BY <1>2, <2>2, <3>4 DEF Rate
  <2>3. CASE j # Len(admissions) + 1
    <3>1. /\ i \in DOMAIN admissions /\ j \in DOMAIN admissions
          /\ admissions'[i] = admissions[i] /\ admissions'[j] = admissions[j]
      BY <1>1, <1>2, <2>1, <2>3
    <3> QED BY <2>1, <3>1 DEF BucketInv, AdmissionsAreLimited
  <2> QED BY <2>2, <2>3
<1>8. Quote'
  BY <1>3 DEF Quote
<1> QED BY <1>4, <1>6, <1>7, <1>8 DEF BucketInv

\* A refusal leaves the bucket where it was heading.
LEMMA LimitKeepsInvariant == ASSUME BucketInv, Limit PROVE BucketInv'
<1>1. /\ Rate \in Nat \ {0} /\ now \in 0 .. MaxClock /\ now \in Int
      /\ lastRefillMs \in Int /\ tokens \in Int
      /\ retryAt \in Nat \cup {NotLimited}
  BY LimitAssumption DEF BucketInv, BucketTypeOK, Rate
<1>2. /\ Refilled \in Int /\ Refilled <= Capacity * Token /\ Refilled < Token
      /\ Refilled = tokens + Rate * (now - lastRefillMs)
      /\ tokens' = Refilled /\ lastRefillMs' = now /\ now' = now
      /\ admissions' = admissions
      /\ retryAt' = IF retryAt = NotLimited THEN now + RetryAfter ELSE retryAt
  BY RefilledFacts DEF BucketInv, Limit
<1>3. /\ RetryAfter \in Nat
      /\ Refilled + Rate * RetryAfter >= Token
      /\ Refilled + Rate * (RetryAfter - 1) < Token
  <2> DEFINE a == Token - Refilled
             q == (a + Rate - 1) \div Rate
  <2>1. a \in Int /\ a > 0 /\ a = Token - Refilled
    BY <1>2 DEF Token
  <2>2. q \in Int /\ Rate * q >= a /\ Rate * (q - 1) < a
    BY <1>1, <2>1, CeilingOfDivision
  <2>3. RetryAfter = IF q > 1 THEN q ELSE 1
    BY <2>1, Zenon DEF RetryAfter, Rate
  <2> HIDE DEF q, a
  <2>4. q >= 1
    BY <1>1, <2>1, <2>2
  <2>5. RetryAfter = q
    BY <2>2, <2>3, <2>4
  <2>6. Rate * q \in Int /\ Rate * (q - 1) \in Int
    BY <1>1, <2>2
  <2>7. Refilled + Rate * q >= Token /\ Refilled + Rate * (q - 1) < Token
    BY <1>2, <2>1, <2>2, <2>6 DEF Token
  <2> QED BY <2>2, <2>4, <2>5, <2>7
<1>4. BucketTypeOK'
  <2>1. retryAt' \in Nat \cup {NotLimited}
    BY <1>1, <1>2, <1>3
  <2> QED BY <1>2, <2>1 DEF BucketInv, BucketTypeOK
<1>5. Ledger'
  BY <1>2, LedgerNow DEF BucketInv, Ledger, Rate, Token
<1>6. AdmissionsAreLimited'
  BY <1>2 DEF BucketInv, AdmissionsAreLimited, Token
<1>7. Quote'
  <2>1. CASE retryAt = NotLimited
    <3>1. retryAt' - now = RetryAfter /\ retryAt' - 1 - now = RetryAfter - 1
      BY <1>1, <1>2, <1>3, <2>1
    <3> QED BY <1>2, <1>3, <3>1 DEF Quote, Rate, Token
  <2>2. CASE retryAt # NotLimited
    <3>1. retryAt' = retryAt /\ retryAt \in Int
      BY <1>1, <1>2, <2>2
    <3>2. /\ tokens + Rate * (retryAt - lastRefillMs) >= Token
          /\ tokens + Rate * (retryAt - 1 - lastRefillMs) < Token
      BY <2>2 DEF BucketInv, Quote
    <3>3. /\ Rate * (retryAt - now) + Rate * (now - lastRefillMs) = Rate * (retryAt - lastRefillMs)
          /\ Rate * (retryAt - 1 - now) + Rate * (now - lastRefillMs)
               = Rate * (retryAt - 1 - lastRefillMs)
      BY <1>1, <3>1, Windows
    <3>4. /\ Rate * (retryAt - now) \in Int /\ Rate * (now - lastRefillMs) \in Int
          /\ Rate * (retryAt - 1 - now) \in Int
      BY <1>1, <3>1
    <3>5. /\ Refilled + Rate * (retryAt - now) >= Token
          /\ Refilled + Rate * (retryAt - 1 - now) < Token
      BY <1>1, <1>2, <3>2, <3>3, <3>4 DEF Token
    <3> QED BY <1>2, <3>1, <3>5 DEF Quote, Rate, Token
  <2> QED BY <2>1, <2>2
<1> QED BY <1>4, <1>5, <1>6, <1>7 DEF BucketInv

LEMMA BucketInitInvariant == BucketInit => BucketInv
<1> SUFFICES ASSUME BucketInit PROVE BucketInv
  OBVIOUS
<1>1. admissions = <<>> /\ Len(admissions) = 0 /\ DOMAIN admissions = {}
  BY DEF BucketInit
<1>2. BucketTypeOK
  <2>1. Capacity * Token \in Int
    BY LimitAssumption DEF Token
  <2> QED BY <1>1, <2>1, LimitAssumption DEF BucketInit, BucketTypeOK
<1> QED BY <1>1, <1>2 DEF BucketInit, BucketInv, Ledger, AdmissionsAreLimited, Quote

LEMMA BucketNextKeepsInvariant == BucketInv /\ [BucketNext]_bucketVars => BucketInv'
<1> SUFFICES ASSUME BucketInv, [BucketNext]_bucketVars PROVE BucketInv'
  OBVIOUS
<1>1. CASE Admit
  BY <1>1, AdmitKeepsInvariant
<1>2. CASE Limit
  BY <1>2, LimitKeepsInvariant
<1>3. CASE Tick \/ ClockSetBack
  <2>1. now' \in 0 .. MaxClock
    BY <1>3, LimitAssumption DEF Tick, ClockSetBack, BucketInv, BucketTypeOK
  <2> QED BY <1>3, <2>1 DEF Tick, ClockSetBack, BucketInv, BucketTypeOK, Ledger,
                            AdmissionsAreLimited, Quote, Rate, Token
<1>4. CASE UNCHANGED bucketVars
  BY <1>4 DEF bucketVars, BucketInv, BucketTypeOK, Ledger, AdmissionsAreLimited, Quote, Rate, Token
<1> QED BY <1>1, <1>2, <1>3, <1>4 DEF BucketNext

\* At most the burst plus the refill of any window is admitted in it, for
\* every capacity and rate and however the clock is set.
THEOREM RateIsLimited == BucketSpec => [](BucketTypeOK /\ AdmissionsAreLimited)
<1>1. BucketSpec => []BucketInv
  BY BucketInitInvariant, BucketNextKeepsInvariant, PTL DEF BucketSpec
<1> QED BY <1>1, PTL DEF BucketInv

\* Retry-After names the very millisecond from which a request is admitted.
THEOREM RetryAfterIsHonest == BucketSpec => RetryAfterIsExact
<1>1. BucketSpec => []BucketInv
  BY BucketInitInvariant, BucketNextKeepsInvariant, PTL DEF BucketSpec
<1>2. ASSUME BucketInv, retryAt # NotLimited
      PROVE  (Admit => now >= retryAt) /\ (Limit => now < retryAt)
  <2>1. /\ Rate \in Nat \ {0} /\ now \in Int /\ lastRefillMs \in Int /\ tokens \in Int
        /\ retryAt \in Int
    BY <1>2, LimitAssumption DEF BucketInv, BucketTypeOK, Rate
  <2>2. /\ tokens + Rate * (retryAt - lastRefillMs) >= Token
        /\ tokens + Rate * (retryAt - 1 - lastRefillMs) < Token
    BY <1>2 DEF BucketInv, Quote
  <2>3. /\ Refilled \in Int
        /\ Refilled <= tokens + Rate * (now - lastRefillMs)
        /\ Refilled < Token => Refilled = tokens + Rate * (now - lastRefillMs)
    BY <1>2, RefilledFacts DEF BucketInv
  <2>4. /\ Rate * (now - lastRefillMs) \in Int
        /\ Rate * (retryAt - lastRefillMs) \in Int
        /\ Rate * (retryAt - 1 - lastRefillMs) \in Int
    BY <2>1
  <2>5. ASSUME now < retryAt PROVE Refilled < Token
    <3>1. Rate * (now - lastRefillMs) <= Rate * (retryAt - 1 - lastRefillMs)
      BY <2>1, <2>5
    <3> QED BY <2>1, <2>2, <2>3, <2>4, <3>1 DEF Token
  <2>6. ASSUME now >= retryAt PROVE Refilled >= Token
    <3>1. Rate * (now - lastRefillMs) >= Rate * (retryAt - lastRefillMs)
      BY <2>1, <2>6
    <3> QED BY <2>1, <2>2, <2>3, <2>4, <3>1 DEF Token
  <2>7. Admit => Refilled >= Token
    BY DEF Admit
  <2>8. Limit => Refilled < Token
    BY DEF Limit
  <2> QED BY <2>1, <2>3, <2>5, <2>6, <2>7, <2>8 DEF Token
<1>3. BucketInv /\ [BucketNext]_bucketVars
        => [retryAt # NotLimited => /\ Admit => now >= retryAt
                                    /\ Limit => now < retryAt]_bucketVars
  BY <1>2
<1> QED BY <1>1, <1>3, PTL DEF BucketSpec, RetryAfterIsExact
=============================================================================
