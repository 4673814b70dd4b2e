------------------------------ MODULE Interface ------------------------------
(***************************************************************************)
(* apps/gui/src/hooks/useBridge.ts with the buttons that call it: the       *)
(* operations of one tab, each a sequence of requests that take effect at   *)
(* the server and whose replies come back in any order, beside the event    *)
(* stream.  Results are counted; rules are their identifiers, unique in a   *)
(* session only: the server makes them up (ids.ts) unless the client chose  *)
(* one.  Notices, names and text are left out, and so are sessions that     *)
(* fail to be created.                                                      *)
(***************************************************************************)
EXTENDS EventHub

CONSTANTS MaxOps,         \* bound: operations the user starts
          MaxSessions, MaxRules,   \* limits of the server, here on all there are
          MaxLosses       \* bound: connections lost and requests failed

ASSUME InterfaceAssumption ==
  /\ {MaxOps, MaxSessions, MaxRules, MaxLosses} \subseteq Nat
  /\ MaxRules > 0       \* the settled tab has one

VARIABLES up,             \* the relay is connected
          active,         \* sessions of the server that are active
          created,        \* sessions created
          rulesOf,        \* the rules of each session
          added,          \* identifiers of rules the server made up
          op,             \* per operation: what it is and how far
          connecting, busy, sessions, current, rules, results, lastResult,
          editing, fields,   \* the rule that is edited, and the one in the editor's fields
          chosen,         \* history: identifiers of rules a client chose
          lost,           \* history: connections lost and requests failed
          overlapped,     \* history: two operations were under way at once
          uninformed      \* history: the last reply that told the connection state
                          \* was of before, or no stream was open for the change since

serverVars == <<up, active, created, rulesOf, added>>
editorVars == <<editing, fields>>
viewVars == <<connecting, busy, sessions, current, rules, results, lastResult, editorVars>>
historyVars == <<chosen, lost, overlapped, uninformed>>
vars == <<streamVars, serverVars, op, viewVars, historyVars>>

Ops == 1 .. MaxOps
Sessions == 1 .. MaxSessions
Rules == 1 .. MaxRules
None == 0

\* The requests of each operation, one after the other.
Program ==
  [mount |-> <<"status", "LIST_SESSIONS">>, connect |-> <<"connect", "LIST_SESSIONS">>,
   disconnect |-> <<"disconnect">>, select |-> <<"LIST_RULES", "LIST_RESULTS">>,
   create |-> <<"CREATE_SESSION">>, close |-> <<"CLOSE_SESSION", "LIST_SESSIONS">>,
   add |-> <<"ADD_RULE", "LIST_RULES">>, save |-> <<"UPDATE_RULE", "LIST_RULES">>,
   update |-> <<"UPDATE_RULE", "LIST_RULES">>,
   delete |-> <<"DELETE_RULE", "LIST_RULES">>, run |-> <<"RUN_TEST", "LIST_RESULTS">>,
   load |-> <<"GET_RESULT">>, raw |-> <<"raw">>]

\* Those that guard() wraps.
Guarded == DOMAIN Program \ {"mount", "connect", "disconnect"}

Unstarted == [kind |-> "none", session |-> None, rule |-> None, of |-> None, step |-> 1,
              at |-> "unused", ok |-> FALSE, data |-> {}]
Under == {o \in Ops : op[o].at \in {"sent", "replied"}}
Request(o) == Program[op[o].kind][op[o].step]

\* The editor: closed, on a new rule, or on a rule that was seen in a session.
Closed == [open |-> FALSE, rule |-> None, of |-> None]
NewRule == [open |-> TRUE, rule |-> None, of |-> None]

\* The tab before its first rendering.
FreshTab ==
  /\ HubInit
  /\ up \in BOOLEAN
  /\ active = {} /\ created = 0 /\ rulesOf = [s \in Sessions |-> {}] /\ added = 0
  /\ chosen = {}
  /\ sessions = <<>>

\* The tab connected and at rest, with all sessions listed and a rule in one,
\* or a rule of one identifier in each, as the bundles have.
SettledTab ==
  /\ hubOpen = TRUE /\ recent = <<>> /\ count = 0
  /\ subscribers = {1} /\ keepAlive = TRUE
  /\ stream = [k \in Streams |-> IF k = 1 THEN "live" ELSE "unused"]
  /\ channel = [k \in Streams |-> <<>>]
  /\ source = TRUE /\ status = TRUE /\ timeline = <<>> /\ breaks = 0 /\ cleared = FALSE
  /\ up = TRUE
  /\ active = Sessions /\ created = MaxSessions /\ added = 1
  /\ \E shared \in BOOLEAN :
       /\ rulesOf = [s \in Sessions |-> IF s = 1 \/ shared THEN {1} ELSE {}]
       /\ chosen = IF shared THEN {1} ELSE {}
  /\ sessions = SetToSeq(Sessions)

InterfaceInit ==
  /\ FreshTab \/ SettledTab
  /\ op = [o \in Ops |-> Unstarted]
  /\ connecting = FALSE /\ busy = FALSE
  /\ current = None
  /\ rules = [of |-> None, ids |-> {}] /\ results = None /\ lastResult = None
  /\ editing = Closed /\ fields = Closed
  /\ lost = 0 /\ overlapped = FALSE /\ uninformed = FALSE

-----------------------------------------------------------------------------
(* The user.                                                                *)

\* An operation starts: its first request is sent.  An identifier that was seen
\* in no session is one the user typed.
Start(o, kind, s, rule, of) ==
  /\ op[o].at = "unused" /\ \A p \in 1 .. o - 1 : op[p].at # "unused"
  /\ op' = [op EXCEPT ![o] = [Unstarted EXCEPT !.kind = kind, !.session = s, !.rule = rule,
                                               !.of = of, !.at = "sent"]]
  /\ chosen' = chosen \cup (IF of = None THEN {rule} \ {None} ELSE {})
  /\ overlapped' = (overlapped \/ Under # {})
  /\ busy' = (busy \/ kind \in Guarded)
  /\ UNCHANGED <<lost, uninformed>> /\ UNCHANGED serverVars /\ UNCHANGED streamVars

Mounted == source \/ \E o \in Ops : op[o].kind = "mount"

\* The effect of the first rendering: once for a tab.
Mount(o) ==
  /\ ~source /\ \A p \in Ops : op[p] = Unstarted
  /\ Start(o, "mount", None, None, None)
  /\ UNCHANGED <<connecting, sessions, current, rules, results, lastResult, editorVars>>

\* The button reads Connect or Disconnect by the status.
Connect(o) ==
  /\ Mounted /\ ~status /\ ~connecting
  /\ Start(o, "connect", None, None, None)
  /\ connecting' = TRUE
  /\ UNCHANGED <<sessions, current, rules, results, lastResult, editorVars>>

Disconnect(o) ==
  /\ Mounted /\ status
  /\ Start(o, "disconnect", None, None, None)
  /\ UNCHANGED <<connecting, sessions, current, rules, results, lastResult, editorVars>>

\* The editor is there while it is open and a session is selected, and it takes
\* its fields from the rule when it appears, not when the rule changes.
Rendered == fields' = IF ~editing'.open \/ current' = None THEN Closed
                      ELSE IF fields.open THEN fields ELSE editing'

\* selectSession: it does not ask whether the tab is busy.
Select(o, s) ==
  /\ s \in ToSet(sessions) /\ s # current
  /\ current' = s
  /\ rules' = [of |-> s, ids |-> {}] /\ results' = s /\ lastResult' = None
  /\ Start(o, "select", s, None, None)
  /\ UNCHANGED <<connecting, sessions, editing>> /\ Rendered

\* A click on the session that is selected.
Deselect ==
  /\ current \in ToSet(sessions)
  /\ current' = None
  /\ rules' = [of |-> None, ids |-> {}] /\ results' = None /\ lastResult' = None
  /\ UNCHANGED <<connecting, busy, sessions, editing, op>> /\ Rendered
  /\ UNCHANGED historyVars /\ UNCHANGED serverVars /\ UNCHANGED streamVars

\* The forms and buttons that wait while the tab is busy.
Create(o) ==
  /\ status /\ ~busy
  /\ Start(o, "create", None, None, None)
  /\ UNCHANGED <<connecting, sessions, current, rules, results, lastResult, editorVars>>

\* The raw bytes of the scenario editor.
Raw(o) ==
  /\ Mounted /\ ~busy
  /\ Start(o, "raw", None, None, None)
  /\ UNCHANGED <<connecting, sessions, current, rules, results, lastResult, editorVars>>

\* On the session selected at the time of the click, which may have been closed
\* since it was listed.
OnCurrent(o, kind) ==
  /\ current # None /\ ~busy
  /\ kind \in {"close", "run"}
  /\ kind = "run" => status
  /\ Start(o, kind, current, None, None)
  /\ UNCHANGED <<connecting, sessions, current, rules, results, lastResult, editorVars>>

\* A rule of the list is enabled, disabled or deleted.
OnRule(o, kind, rule) ==
  /\ current # None /\ ~busy
  /\ kind \in {"update", "delete"} /\ rule \in rules.ids
  /\ Start(o, kind, current, rule, rules.of)
  /\ UNCHANGED <<connecting, sessions, current, rules, results, lastResult, editorVars>>

\* Edit sets the editor on a rule of the list, over whatever it is open on.
Edit(rule) ==
  /\ rule \in rules.ids /\ current # None
  /\ editing' = [open |-> TRUE, rule |-> rule, of |-> rules.of]
  /\ UNCHANGED <<connecting, busy, sessions, current, rules, results, lastResult, op>> /\ Rendered
  /\ UNCHANGED historyVars /\ UNCHANGED serverVars /\ UNCHANGED streamVars

\* The button that reads Add rule or Cancel.
AddOrCancel ==
  /\ current # None
  /\ editing' = (IF editing.open THEN Closed ELSE NewRule)
  /\ UNCHANGED <<connecting, busy, sessions, current, rules, results, lastResult, op>> /\ Rendered
  /\ UNCHANGED historyVars /\ UNCHANGED serverVars /\ UNCHANGED streamVars

\* The editor is submitted.  The identifier in its fields, typed or of a rule,
\* goes before that of the rule it was set on.
Submit(o, typed) ==
  LET sent == IF fields.rule # None THEN fields
              ELSE IF typed # None THEN [NewRule EXCEPT !.rule = typed] ELSE editing
  IN /\ fields.open /\ (typed # None => fields.rule = None) /\ ~busy
     /\ Start(o, IF editing.rule = None THEN "add" ELSE "save", current, sent.rule, sent.of)
     /\ UNCHANGED <<connecting, sessions, current, rules, results, lastResult, editorVars>>

\* An earlier result of the list, which is there once a result is shown.
Load(o) ==
  /\ current # None /\ lastResult # None
  /\ Start(o, "load", current, None, None)
  /\ UNCHANGED <<connecting, sessions, current, rules, results, lastResult, editorVars>>

-----------------------------------------------------------------------------
(* The bridge and the server.                                               *)

\* A reply is on its way.
Reply(o, ok, data) == op' = [op EXCEPT ![o].at = "replied", ![o].ok = ok, ![o].data = data]

Told(state) == IF state THEN {1} ELSE {}

\* Mutant of HasRule: the identifier is looked up among all rules.
HasRuleAnywhere(s, r) == \E t \in Sessions : r \in rulesOf[t]

HasRule(s, r) == r \in rulesOf[s]

\* The operations of a session: refused when it is not active, those on a rule
\* when the session has no such rule, and a rule with the identifier of another
\* of the session or like another in its name or match.
Serve(o) ==
  LET s == op[o].session
      r == op[o].rule
      request == Request(o)
  IN /\ up /\ op[o].at = "sent"
     /\ \/ request = "LIST_SESSIONS" /\ Reply(o, TRUE, 1 .. created) /\ UNCHANGED serverVars
        \/ /\ request = "CREATE_SESSION" /\ created < MaxSessions
           /\ created' = created + 1 /\ active' = active \cup {created'}
           /\ Reply(o, TRUE, {created'}) /\ UNCHANGED <<up, rulesOf, added>>
        \/ /\ request = "CLOSE_SESSION" /\ active' = active \ {s}
           /\ Reply(o, s \in active, {}) /\ UNCHANGED <<up, created, rulesOf, added>>
        \/ request = "LIST_RULES" /\ Reply(o, TRUE, rulesOf[s]) /\ UNCHANGED serverVars
        \/ /\ request = "ADD_RULE" /\ s \in active /\ (r = None => added < MaxRules)
           /\ added' = IF r = None THEN added + 1 ELSE added
           /\ \E unlike \in BOOLEAN :
                LET id == IF r = None THEN added' ELSE r
                IN /\ Reply(o, unlike /\ id \notin rulesOf[s], {})
                   /\ rulesOf' = IF unlike THEN [rulesOf EXCEPT ![s] = @ \cup {id}] ELSE rulesOf
           /\ UNCHANGED <<up, active, created>>
        \/ /\ request \in {"UPDATE_RULE", "DELETE_RULE"}
           /\ \E unlike \in IF request = "UPDATE_RULE" THEN BOOLEAN ELSE {TRUE} :
                Reply(o, unlike /\ s \in active /\ HasRule(s, r), {})
           /\ rulesOf' = IF request = "DELETE_RULE" /\ s \in active
                           THEN [rulesOf EXCEPT ![s] = @ \ {r}] ELSE rulesOf
           /\ UNCHANGED <<up, active, created, added>>
        \/ /\ \/ request \in {"ADD_RULE", "RUN_TEST"} /\ s \notin active
              \/ request = "ADD_RULE" /\ r = None /\ added >= MaxRules
              \/ request = "CREATE_SESSION" /\ created >= MaxSessions
           /\ Reply(o, FALSE, {}) /\ UNCHANGED serverVars
        \/ /\ request \in {"RUN_TEST", "LIST_RESULTS", "GET_RESULT", "raw"}
           /\ request = "RUN_TEST" => s \in active
           /\ Reply(o, TRUE, {}) /\ UNCHANGED serverVars
     /\ UNCHANGED <<tabVars, viewVars, historyVars, hubVars, breaks>>

\* A change of the connection is published.
Tell(state) ==
  /\ PublishStatus(state)
  /\ uninformed' = (uninformed \/ At("live") = {})

\* /bridge/status
TellStatus(o) ==
  /\ op[o].at = "sent" /\ Request(o) = "status"
  /\ Reply(o, TRUE, Told(up))
  /\ UNCHANGED <<streamVars, serverVars, viewVars, historyVars>>

\* /bridge/connect, or a request that connects on demand and goes on.
BridgeConnects(o) ==
  /\ op[o].at = "sent" /\ Request(o) \notin {"status", "disconnect"}
  /\ up => Request(o) = "connect"
  /\ up' = TRUE
  /\ IF Request(o) = "connect" THEN Reply(o, TRUE, Told(TRUE)) ELSE UNCHANGED op
  /\ IF up THEN UNCHANGED <<hubVars, uninformed>> ELSE Tell(TRUE)
  /\ UNCHANGED <<active, created, rulesOf, added, tabVars, breaks, viewVars, chosen, lost,
                 overlapped>>

\* /bridge/disconnect
BridgeDisconnects(o) ==
  /\ op[o].at = "sent" /\ Request(o) = "disconnect"
  /\ up' = FALSE
  /\ Reply(o, TRUE, Told(FALSE))
  /\ IF up THEN Tell(FALSE) ELSE UNCHANGED <<hubVars, uninformed>>
  /\ UNCHANGED <<active, created, rulesOf, added, tabVars, breaks, viewVars, chosen, lost,
                 overlapped>>

\* The bridge cannot connect, or the request fails there; it may have reached
\* the server before, and then that is Serve.
Fails(o) ==
  /\ lost < MaxLosses /\ lost' = lost + 1
  /\ op[o].at = "sent" /\ Request(o) \notin {"status", "disconnect"}
  /\ Reply(o, FALSE, {})
  /\ UNCHANGED <<streamVars, serverVars, viewVars, chosen, overlapped, uninformed>>

\* The reply of a request that was served is lost between server and bridge.
ReplyLost(o) ==
  /\ lost < MaxLosses /\ lost' = lost + 1
  /\ op[o].at = "replied" /\ op[o].ok /\ Request(o) \notin {"status", "connect", "disconnect"}
  /\ Reply(o, FALSE, {})
  /\ UNCHANGED <<streamVars, serverVars, viewVars, chosen, overlapped, uninformed>>

\* Mutant of LinkLost: the end of a connection is not published.
LinkLostQuietly ==
  /\ lost < MaxLosses /\ lost' = lost + 1
  /\ up /\ up' = FALSE
  /\ UNCHANGED <<active, created, rulesOf, added, streamVars, op, viewVars, chosen, overlapped,
                 uninformed>>

\* The connection to the server is lost.
LinkLost ==
  /\ lost < MaxLosses /\ lost' = lost + 1
  /\ up /\ up' = FALSE
  /\ Tell(FALSE)
  /\ UNCHANGED <<active, created, rulesOf, added, tabVars, breaks, op, viewVars, chosen,
                 overlapped>>

-----------------------------------------------------------------------------
(* Replies.                                                                 *)

\* Mutant of Ended: a failure leaves the tab busy.
EndedByReply(o) ==
  /\ busy' = (busy /\ ~(op[o].ok /\ op[o].kind \in Guarded))
  /\ connecting' = (connecting /\ op[o].kind # "connect")
  /\ editing' = IF op[o].kind \in {"add", "save"} THEN Closed ELSE editing

\* The finally of guard() and connect(), whatever else is under way; the editor
\* that submitted closes.
Ended(o) ==
  /\ busy' = (busy /\ op[o].kind \notin Guarded)
  /\ connecting' = (connecting /\ op[o].kind # "connect")
  /\ editing' = IF op[o].kind \in {"add", "save"} THEN Closed ELSE editing

\* The operation goes on with its next request, or is over.  Mounting goes on
\* only when connected.
Proceed(o) ==
  IF op[o].ok /\ op[o].step < Len(Program[op[o].kind])
     /\ (op[o].kind = "mount" => op[o].data = Told(TRUE))
    THEN /\ op' = [op EXCEPT ![o].step = @ + 1, ![o].at = "sent", ![o].ok = FALSE, ![o].data = {}]
         /\ UNCHANGED <<busy, connecting, editing>>
    ELSE /\ op' = [op EXCEPT ![o] = [Unstarted EXCEPT !.kind = op[o].kind, !.at = "over"]]
         /\ Ended(o)

\* refreshRules: for the session it was asked for, whichever is selected now.
TakeRules(o) == [of |-> op[o].session, ids |-> op[o].data]

\* refreshSessions
Listed(o) == SetToSeq(op[o].data)

\* A reply with what the operation asked for.
Show(o) ==
  LET request == Request(o)
      s == op[o].session
      told == request \in {"status", "connect", "disconnect"}
  IN /\ status' = IF told THEN op[o].data = Told(TRUE) ELSE status
     /\ uninformed' = IF told THEN status' # up ELSE uninformed
     /\ source' = (source \/ (request \in {"status", "connect"} /\ status'))
     /\ sessions' = CASE request = "LIST_SESSIONS" -> Listed(o)
                      [] request = "CREATE_SESSION" -> sessions \o SetToSeq(op[o].data)
                      [] request = "disconnect" -> <<>>
                      [] OTHER -> sessions
     /\ current' = CASE request = "CREATE_SESSION" -> CHOOSE n \in op[o].data : TRUE
                     [] \/ request = "disconnect"
                        \/ op[o].kind = "close" /\ request = "LIST_SESSIONS" /\ current = s -> None
                     [] OTHER -> current
     /\ rules' = CASE request = "LIST_RULES" -> TakeRules(o)
                   [] request \in {"CREATE_SESSION", "disconnect"} -> [of |-> current', ids |-> {}]
                   [] OTHER -> rules
     /\ results' = CASE request = "LIST_RESULTS" -> s
                     [] request \in {"CREATE_SESSION", "disconnect"} -> current'
                     [] OTHER -> results
     /\ lastResult' = IF request \in {"RUN_TEST", "GET_RESULT"} THEN s ELSE lastResult

\* The tab resumes with a reply: a failure ends the operation.
Resume(o) ==
  /\ op[o].at = "replied"
  /\ IF op[o].ok THEN Show(o)
     ELSE UNCHANGED <<status, source, sessions, current, rules, results, lastResult, uninformed>>
  /\ Proceed(o) /\ Rendered
  /\ UNCHANGED <<timeline, cleared, breaks, chosen, lost, overlapped>>
  /\ UNCHANGED serverVars /\ UNCHANGED hubVars

-----------------------------------------------------------------------------

Next ==
  \/ \E o \in Ops : \/ Mount(o) \/ Connect(o) \/ Disconnect(o) \/ Create(o) \/ Raw(o)
                    \/ Load(o)
                    \/ \E typed \in Rules \cup {None} : Submit(o, typed)
                    \/ \E s \in Sessions : Select(o, s)
                    \/ \E kind \in {"close", "run"} : OnCurrent(o, kind)
                    \/ \E kind \in {"update", "delete"}, rule \in Rules : OnRule(o, kind, rule)
                    \/ Serve(o) \/ TellStatus(o) \/ BridgeConnects(o) \/ BridgeDisconnects(o)
                    \/ Fails(o) \/ ReplyLost(o) \/ Resume(o)
  \/ Deselect \/ AddOrCancel \/ LinkLost
  \/ \E rule \in Rules : Edit(rule)
  \/ /\ StreamStep
     /\ UNCHANGED <<serverVars, op, viewVars, historyVars>>

Spec == InterfaceInit /\ [][Next]_vars

\* The bridge answers each request (Bridge) and the browser delivers it.
FairSpec ==
  /\ Spec
  /\ \A o \in Ops : /\ WF_vars(Resume(o))
                    /\ WF_vars(\/ Serve(o) \/ TellStatus(o) \/ BridgeConnects(o)
                               \/ BridgeDisconnects(o) \/ Fails(o))

-----------------------------------------------------------------------------
(* Properties.                                                              *)

\* Every variable has its type.
TypeOK ==
  /\ {hubOpen, keepAlive, source, status, cleared, up, connecting, busy, overlapped,
      uninformed} \subseteq BOOLEAN
  /\ recent \in Seq(1 .. MaxEvents) /\ timeline \in Seq(1 .. MaxEvents)
  /\ Len(recent) <= ReplayLimit /\ Len(timeline) <= TimelineLimit
  /\ subscribers \subseteq Streams
  /\ stream \in [Streams -> {"unused", "live", "ended", "broken", "over", "refused"}]
  /\ active \subseteq Sessions /\ created \in 0 .. MaxSessions /\ added \in 0 .. MaxRules
  /\ rulesOf \in [Sessions -> SUBSET Rules]
  /\ \A o \in Ops : /\ op[o].kind \in DOMAIN Program \cup {"none"}
                    /\ op[o].at \in {"unused", "sent", "replied", "over"}
                    /\ op[o].at # "unused" => op[o].step \in DOMAIN Program[op[o].kind]
  /\ ToSet(sessions) \subseteq Sessions
  /\ {current, results, lastResult, rules.of, editing.of, fields.of} \subseteq Sessions \cup {None}
  /\ {editing.rule, fields.rule} \subseteq Rules \cup {None}
  /\ {editing.open, fields.open} \subseteq BOOLEAN
  /\ rules.ids \subseteq Rules /\ chosen \subseteq Rules

\* What the tab shows as rules and results of the selected session is of that
\* session, unless operations were under way together (selectSession does not
\* wait, and refreshRules does not look which session is selected).
ShownIsOfTheSession ==
  (~overlapped /\ current # None) => rules.of = current /\ results = current

\* A change of a rule that was seen in another session, in a list or an editor
\* left from there, is refused unless the client chose the rule's identifier;
\* and the list is left only by operations under way together.
ChangesMeetTheirRule ==
  \A o \in Ops :
    (op[o].kind \in {"update", "save", "delete"} /\ op[o].step = 1 /\ op[o].session # op[o].of) =>
      /\ op[o].ok => op[o].rule \in chosen
      /\ overlapped \/ op[o].kind = "save"

\* When nothing is under way and nothing failed the list shows the rules the
\* session has (addRule, updateRule, deleteRule, selectSession).
IdleShowsTheRules ==
  (Under = {} /\ ~overlapped /\ lost = 0 /\ current # None) => rules.ids = rulesOf[current]

\* The list shows no session twice, though one that was created is appended to
\* a list that may come meanwhile; that takes operations under way together.
NoSessionTwice == ~overlapped => IsInjective(sessions)

\* The status is that of the connection once the stream is read: unless the
\* stream broke, a reply came later than the event of the change after it, or
\* the change came between that reply and the stream (connect, attachEvents).
StatusIsCurrent ==
  (\E k \in At("live") : channel[k] = <<>>) /\ breaks = 0 /\ ~uninformed
    => status = up

\* No failure leaves the tab busy or connecting (guard, connect).
TabComesBack == (busy ~> ~busy) /\ (connecting ~> ~connecting)

\* A tab that reads its stream to the end shows all recent events, in order and
\* at most once for each stream, and the hub keeps the stream alive.
StreamIsSound ==
  /\ TypeOK
  /\ RecentIsShown
  /\ ShownInOrder
  /\ KeepAliveWhileWatched

\* What is shown is of the selected session and is what it has, unless operations
\* were under way together, a reply was lost or a request failed.  A change sent
\* from what was left of another session meets no rule whose identifier the
\* server made up, but it may meet one whose identifier a client chose.
ViewIsTrue ==
  /\ ShownIsOfTheSession
  /\ IdleShowsTheRules
  /\ NoSessionTwice
  /\ ChangesMeetTheirRule
=============================================================================
