---------------------------- MODULE SessionRules ----------------------------
(***************************************************************************)
(* The rules of one session: addRule, updateRule, deleteRule and            *)
(* recordRuleHit of packages/core/src/session-store.ts, and the requests a  *)
(* mock endpoint answers from them while they change.  Every operation runs *)
(* to completion.  Rule identifiers the server makes up, rule-1, rule-2...  *)
(* are <<"rule", n>>; they are numbered across all sessions.                *)
(***************************************************************************)
EXTENDS RuleMatching

CONSTANTS AddInputs,          \* the validated bodies of ADD_RULE
          Patches,            \* the validated bodies of UPDATE_RULE
          RuleIds, Names, Matches,
          Requests,           \* what a mock endpoint may receive
          Unset,              \* an optional field that is not given
          MaxRulesPerSession,
          MaxSequence,        \* bound: rules ever added
          MaxRuleNumber,      \* bound: identifiers ever made up
          MaxHits             \* bound: hits of one rule

ASSUME RulesAssumption ==
  /\ AddInputs \subseteq [id : RuleIds \cup {Unset}, name : Names,
                          enabled : BOOLEAN, priority : Int, match : Matches]
  /\ Patches \subseteq [id : RuleIds, name : Names \cup {Unset},
                        enabled : BOOLEAN \cup {Unset},
                        priority : Int \cup {Unset},
                        match : Matches \cup {Unset}]
  /\ Unset \notin RuleIds
  /\ \A n \in 1 .. MaxRuleNumber : <<"rule", n>> \in RuleIds
  /\ MaxRulesPerSession \in Nat
  /\ MaxSequence \in Nat
  /\ MaxRuleNumber \in Nat
  /\ MaxHits \in Nat

VARIABLES state,              \* "active" or "closed"
          rules,              \* record.rules
          nextSequence,       \* record.nextSequence
          ruleNumber,         \* the process-wide counter of newRuleId
          reply               \* status of the last operation: 200 or an error

vars == <<state, rules, nextSequence, ruleNumber, reply>>

Init ==
  /\ state = "active"
  /\ rules = <<>>
  /\ nextSequence = 1
  /\ ruleNumber = 0
  /\ reply = 200

Ids == {rules[i].id : i \in DOMAIN rules}

Refuse(status) == reply' = status /\ UNCHANGED <<rules, nextSequence>>

\* An enabled rule, other than the one called except, with this priority and
\* an equivalent match.
Clash(except, priority, match) ==
  \E i \in DOMAIN rules :
    /\ rules[i].id # except
    /\ rules[i].enabled
    /\ rules[i].priority = priority
    /\ MatchesAreEquivalent(rules[i].match, match)

NameTaken(except, name) ==
  \E i \in DOMAIN rules : rules[i].id # except /\ rules[i].name = name

NewRule(id, input, sequence) ==
  [id |-> id, name |-> input.name, enabled |-> input.enabled,
   priority |-> input.priority, match |-> input.match,
   sequence |-> sequence, hitCount |-> 0]

\* A duplicate identifier, a duplicate name, an ambiguous match.
AddConflicts(id, input) ==
  \/ id \in Ids
  \/ NameTaken(Unset, input.name)
  \/ input.enabled /\ Clash(Unset, input.priority, input.match)

Insert(id, input) ==
  IF AddConflicts(id, input)
  THEN Refuse(409)
  ELSE /\ rules' = Append(rules, NewRule(id, input, nextSequence))
       /\ nextSequence' = nextSequence + 1
       /\ reply' = 200

Full == Len(rules) >= MaxRulesPerSession

\* An identifier is made up before it is known to be free, and is used up
\* even when the rule is refused.
AddRule(input) ==
  /\ nextSequence <= MaxSequence
  /\ input.id = Unset => ruleNumber < MaxRuleNumber
  /\ UNCHANGED state
  /\ \/ /\ state = "closed"
        /\ Refuse(405)
        /\ UNCHANGED ruleNumber
     \/ /\ state = "active" /\ Full
        /\ Refuse(422)
        /\ UNCHANGED ruleNumber
     \/ /\ state = "active" /\ ~Full /\ input.id # Unset
        /\ Insert(input.id, input)
        /\ UNCHANGED ruleNumber
     \/ /\ state = "active" /\ ~Full /\ input.id = Unset
        /\ ruleNumber' = ruleNumber + 1
        /\ Insert(<<"rule", ruleNumber + 1>>, input)

Given(value, default) == IF value = Unset THEN default ELSE value

\* Mutant of Patched: a changed rule starts over.
PatchedAnew(rule, patch) ==
  [rule EXCEPT !.name = Given(patch.name, @),
               !.enabled = Given(patch.enabled, @),
               !.priority = Given(patch.priority, @),
               !.match = Given(patch.match, @),
               !.hitCount = 0]

Patched(rule, patch) ==
  [rule EXCEPT !.name = Given(patch.name, @),
               !.enabled = Given(patch.enabled, @),
               !.priority = Given(patch.priority, @),
               !.match = Given(patch.match, @)]

\* Mutant of PatchConflicts: looks for a clash only if the match is patched.
PatchConflictsByMatch(updated, patch) ==
  \/ patch.name # Unset /\ NameTaken(updated.id, updated.name)
  \/ /\ updated.enabled
     /\ patch.match # Unset
     /\ Clash(updated.id, updated.priority, updated.match)

\* The name is looked at only when it is patched, the clash always.
PatchConflicts(updated, patch) ==
  \/ patch.name # Unset /\ NameTaken(updated.id, updated.name)
  \/ updated.enabled /\ Clash(updated.id, updated.priority, updated.match)

Find(id) == {i \in DOMAIN rules : rules[i].id = id}

\* Mutations of a rule that are refused before they look at it.
RefuseMutation(id) ==
  \/ state = "closed" /\ Refuse(405)
  \/ state = "active" /\ Find(id) = {} /\ Refuse(406)

UpdateRule(patch) ==
  /\ UNCHANGED <<state, ruleNumber>>
  /\ \/ RefuseMutation(patch.id)
     \/ /\ state = "active"
        /\ \E i \in Find(patch.id) :
             LET updated == Patched(rules[i], patch) IN
             IF PatchConflicts(updated, patch)
             THEN Refuse(409)
             ELSE /\ rules' = [rules EXCEPT ![i] = updated]
                  /\ reply' = 200
                  /\ UNCHANGED nextSequence

\* rules.splice(i, 1)
Without(i) ==
  [k \in 1 .. Len(rules) - 1 |-> IF k < i THEN rules[k] ELSE rules[k + 1]]

DeleteRule(id) ==
  /\ UNCHANGED <<state, ruleNumber>>
  /\ \/ RefuseMutation(id)
     \/ /\ state = "active"
        /\ \E i \in Find(id) : rules' = Without(i)
        /\ reply' = 200
        /\ UNCHANGED nextSequence

\* Another session makes up a rule identifier.
RuleElsewhere ==
  /\ ruleNumber < MaxRuleNumber
  /\ ruleNumber' = ruleNumber + 1
  /\ UNCHANGED <<state, rules, nextSequence, reply>>

\* respond() of the mock endpoint chooses a rule and records the hit before
\* any delay; closing the session has destroyed its connections.
RecordRuleHit(request) ==
  LET rule == MatchRule(request, rules) IN
  /\ state = "active"
  /\ rule # NoRule
  /\ \E i \in Find(rule.id) :
       /\ rules[i].hitCount < MaxHits
       /\ rules' = [rules EXCEPT ![i].hitCount = @ + 1]
  /\ UNCHANGED <<state, nextSequence, ruleNumber, reply>>

CloseSession ==
  /\ state' = "closed"
  /\ reply' = IF state = "closed" THEN 405 ELSE 200
  /\ UNCHANGED <<rules, nextSequence, ruleNumber>>

Next ==
  \/ \E input \in AddInputs : AddRule(input)
  \/ \E patch \in Patches : UpdateRule(patch)
  \/ \E id \in RuleIds : DeleteRule(id)
  \/ \E request \in Requests : RecordRuleHit(request)
  \/ RuleElsewhere
  \/ CloseSession

Spec == Init /\ [][Next]_vars

-----------------------------------------------------------------------------
(* Properties *)

TypeOK ==
  /\ state \in {"active", "closed"}
  /\ rules \in Seq([id : RuleIds, name : Names, enabled : BOOLEAN,
                    priority : Int, match : Matches,
                    sequence : 1 .. MaxSequence, hitCount : 0 .. MaxHits])
  /\ Len(rules) <= MaxRulesPerSession
  /\ nextSequence \in 1 .. MaxSequence + 1
  /\ ruleNumber \in 0 .. MaxRuleNumber
  /\ reply \in {200, 405, 406, 409, 422}

\* A rule can be found by its identifier and by its name, and rules are kept
\* in the order of their sequence numbers, none of which is ever used again:
\* with the priority they order the rules totally, whatever was deleted,
\* added again, renamed or hit in between.
RulesAreDistinct ==
  /\ \A i, j \in DOMAIN rules :
       i < j => /\ rules[i].id # rules[j].id
                /\ rules[i].name # rules[j].name
                /\ rules[i].sequence < rules[j].sequence
  /\ \A i \in DOMAIN rules : rules[i].sequence < nextSequence

\* No two enabled rules of one priority have equivalent matches, however they
\* came to it: added, enabled, moved to the priority or given the match.
NoEquivalentRules ==
  \A i, j \in DOMAIN rules :
    /\ i # j
    /\ rules[i].enabled /\ rules[j].enabled
    /\ rules[i].priority = rules[j].priority
    => ~MatchesAreEquivalent(rules[i].match, rules[j].match)

\* "header order and equivalent spellings do not disguise the collision"
\* (docs/status-codes.md:680): two enabled rules of one priority are told
\* apart by some request.
SpellingHidesNoTwin ==
  \A i, j \in DOMAIN rules :
    /\ i # j
    /\ rules[i].enabled /\ rules[j].enabled
    /\ rules[i].priority = rules[j].priority
    => \E request \in Requests : Satisfies(request, rules[i].match)
                                   # Satisfies(request, rules[j].match)

\* Updates, hits and deletions of others never cost a rule its place in the
\* evaluation order among equals or the hits it has counted.
RuleKeepsPlaceAndHits ==
  [][\A i \in DOMAIN rules, j \in DOMAIN rules' :
       rules[i].id = rules'[j].id =>
         /\ rules'[j].sequence = rules[i].sequence
         /\ rules'[j].hitCount >= rules[i].hitCount]_vars

\* R-13.10, "among equal priorities, the rule added first is considered
\* first": adding a rule takes no request away from a rule of the same or a
\* higher priority.
EarlierRuleKeepsAnswering ==
  [][\A input \in AddInputs : AddRule(input) =>
       \A request \in Requests :
         LET rule == MatchRule(request, rules) IN
         rule # NoRule /\ input.priority <= rule.priority =>
           MatchRule(request, rules') = rule]_vars

\* A rule has one place in the order and one name, and no spelling hides that
\* another enabled rule of its priority answers the same requests.
RulesAreSound ==
  /\ TypeOK
  /\ RulesAreDistinct
  /\ SpellingHidesNoTwin

\* The order in which rules answer is stable: neither other rules nor changes
\* of its own move a rule among its equals.
OrderIsStable ==
  /\ RuleKeepsPlaceAndHits
  /\ EarlierRuleKeepsAnswering
=============================================================================
