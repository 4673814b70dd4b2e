------------------------- MODULE SessionRulesProofs -------------------------
(***************************************************************************)
(* Theorems about SessionRules, for every set of inputs and every maximum.  *)
(* The inductive invariant is the conjunction of the type, the distinctness *)
(* and the absence of equivalent enabled rules: none of the three needs a   *)
(* strengthening beyond the other two.                                      *)
(***************************************************************************)
EXTENDS SessionRules, SequenceTheorems, FiniteSetTheorems, TLAPS

Rule == [id : RuleIds, name : Names, enabled : BOOLEAN, priority : Int,
         match : Matches, sequence : 1 .. MaxSequence, hitCount : 0 .. MaxHits]

\* Equivalent matches fire on the same requests (matching.ts:148), whatever
\* the body matchers accept: the canonical form keeps every header required.
LEMMA EquivalentRequiresTheSame ==
  ASSUME NEW a, NEW b, NEW i \in DOMAIN a.headers, MatchesAreEquivalent(a, b)
  PROVE  /\ a.operation = b.operation
         /\ a.body = b.body
         /\ \E j \in DOMAIN b.headers :
              /\ b.headers[j].name.lower = a.headers[i].name.lower
              /\ b.headers[j].value = a.headers[i].value
<1>1. a.operation = b.operation /\ a.body = b.body
  BY DEF MatchesAreEquivalent, CanonicalMatchKey
<1> DEFINE rank(m, k) == Cardinality({j \in 1 .. k - 1 :
                           m.headers[j].name.lower = m.headers[k].name.lower})
           entries(m) == {<<m.headers[k].name.lower, rank(m, k), m.headers[k].value>> :
                            k \in DOMAIN m.headers}
<1>2. entries(a) = entries(b)
  BY DEF MatchesAreEquivalent, CanonicalMatchKey
<1> HIDE DEF rank
<1>3. <<a.headers[i].name.lower, rank(a, i), a.headers[i].value>> \in entries(b)
  BY <1>2
<1>4. PICK j \in DOMAIN b.headers :
        <<a.headers[i].name.lower, rank(a, i), a.headers[i].value>>
          = <<b.headers[j].name.lower, rank(b, j), b.headers[j].value>>
  BY <1>3
<1> QED BY <1>1, <1>4

LEMMA EquivalentSatisfied ==
  ASSUME NEW a, NEW b, NEW request,
         MatchesAreEquivalent(a, b), Satisfies(request, b)
  PROVE  Satisfies(request, a)
<1>1. a.operation = b.operation /\ a.body = b.body
  BY DEF MatchesAreEquivalent, CanonicalMatchKey
<1>2. ASSUME NEW i \in DOMAIN a.headers
      PROVE  GetHeader(request.headers, a.headers[i].name) = a.headers[i].value
  <2>1. PICK j \in DOMAIN b.headers :
          /\ b.headers[j].name.lower = a.headers[i].name.lower
          /\ b.headers[j].value = a.headers[i].value
    BY EquivalentRequiresTheSame
  <2>2. GetHeader(request.headers, b.headers[j].name) = b.headers[j].value
    BY DEF Satisfies
  <2>3. GetHeader(request.headers, b.headers[j].name)
          = GetHeader(request.headers, a.headers[i].name)
    BY <2>1 DEF GetHeader
  <2> QED BY <2>1, <2>2, <2>3
<1> QED BY <1>1, <1>2 DEF Satisfies

LEMMA EquivalenceIsSymmetric ==
  ASSUME NEW a, NEW b, MatchesAreEquivalent(a, b)
  PROVE  MatchesAreEquivalent(b, a)
BY DEF MatchesAreEquivalent

\* "Two rules whose canonical forms are equal would fire on exactly the same
\* requests" (matching.ts:148): refusing the second of two equivalent rules
\* loses no request, for every request and every body matcher.
THEOREM EquivalentMatchesFireTogether ==
  ASSUME NEW a, NEW b, NEW request, MatchesAreEquivalent(a, b)
  PROVE  Satisfies(request, a) <=> Satisfies(request, b)
BY EquivalentSatisfied, EquivalenceIsSymmetric

NamesOnce(match) ==
  \A i, j \in DOMAIN match.headers :
    match.headers[i].name.lower = match.headers[j].name.lower => i = j

\* Of two matches that ask for the same operation and body, a request with
\* the headers of one of them, and no others.
Carrying(match, operation, body) ==
  [operation |-> operation, headers |-> match.headers, body |-> body]

LEMMA OnlyField ==
  ASSUME NEW S, NEW a, a.headers \in Seq(S), NamesOnce(a),
         NEW name, NEW i \in DOMAIN a.headers, a.headers[i].name.lower = name.lower
  PROVE  GetHeader(a.headers, name) = a.headers[i].value
<1>1. i \in Nat
  BY LenProperties
<1>2. {k \in DOMAIN a.headers : a.headers[k].name.lower = name.lower} = {i}
  BY DEF NamesOnce
<1>3. Min({i}) = i
  BY <1>1 DEF Min
<1> QED BY <1>2, <1>3 DEF GetHeader

LEMMA CarryingSatisfies ==
  ASSUME NEW S, NEW a, a.headers \in Seq(S), NamesOnce(a),
         NEW operation, a.operation \in {"*", operation},
         NEW body, a.body # NoBody => BodyMatches(a.body, body)
  PROVE  Satisfies(Carrying(a, operation, body), a)
BY OnlyField DEF Satisfies, Carrying

Asks(match, field) ==
  \E i \in DOMAIN match.headers : /\ match.headers[i].name.lower = field.name.lower
                                  /\ match.headers[i].value = field.value

\* A header that a match asks for is carried by a request that satisfies it.
LEMMA CarriedIsRequired ==
  ASSUME NEW S, NEW a, a.headers \in Seq(S), NamesOnce(a),
         NEW b, NEW operation, NEW body, Satisfies(Carrying(a, operation, body), b),
         NEW j \in DOMAIN b.headers, b.headers[j].value # Absent
  PROVE  Asks(a, b.headers[j])
<1>1. GetHeader(a.headers, b.headers[j].name) = b.headers[j].value
  BY DEF Satisfies, Carrying
<1>2. PICK i \in DOMAIN a.headers : a.headers[i].name.lower = b.headers[j].name.lower
  BY <1>1 DEF GetHeader
<1> QED BY <1>1, <1>2, OnlyField DEF Asks

\* The entries of the canonical form, and the rank among entries of one name.
NameRank(m, k) ==
  Cardinality({j \in 1 .. k - 1 : m.headers[j].name.lower = m.headers[k].name.lower})
Entry(m, k) == <<m.headers[k].name.lower, NameRank(m, k), m.headers[k].value>>
Entries(m) == {Entry(m, k) : k \in DOMAIN m.headers}

LEMMA RankOfOne ==
  ASSUME NEW S, NEW a, a.headers \in Seq(S), NamesOnce(a), NEW i \in DOMAIN a.headers
  PROVE  NameRank(a, i) = 0
<1>1. DOMAIN a.headers = 1 .. Len(a.headers) /\ Len(a.headers) \in Nat
  BY LenProperties
<1>2. ASSUME NEW j \in 1 .. i - 1 PROVE j \in DOMAIN a.headers /\ j # i
  BY <1>1
<1>3. {j \in 1 .. i - 1 : a.headers[j].name.lower = a.headers[i].name.lower} = {}
  BY <1>2 DEF NamesOnce
<1> QED BY <1>3, FS_EmptySet DEF NameRank

\* "True when two match specifications would fire on exactly the same requests"
\* (matching.ts:164): of the headers this is so in the other direction, too.
\* Matches for the same operation and body that are not equivalent, each header
\* named once, are told apart by a request with the headers of one of them, so
\* the store refuses none of two such rules without need.
THEOREM HeadersTellMatchesApart ==
  ASSUME NEW S, NEW a, NEW b, a.headers \in Seq(S), b.headers \in Seq(S),
         NamesOnce(a), NamesOnce(b),
         \A i \in DOMAIN a.headers : a.headers[i].value # Absent,
         \A i \in DOMAIN b.headers : b.headers[i].value # Absent,
         a.operation = b.operation, a.body = b.body, ~MatchesAreEquivalent(a, b),
         NEW operation, a.operation \in {"*", operation},
         NEW body, a.body # NoBody => BodyMatches(a.body, body)
  PROVE  \E match \in {a, b} :
           ~(Satisfies(Carrying(match, operation, body), a)
               <=> Satisfies(Carrying(match, operation, body), b))
<1>1. b.operation \in {"*", operation} /\ (b.body # NoBody => BodyMatches(b.body, body))
  OBVIOUS
<1>2. /\ Satisfies(Carrying(a, operation, body), a)
      /\ Satisfies(Carrying(b, operation, body), b)
  BY <1>1, CarryingSatisfies
<1>3. SUFFICES ASSUME Satisfies(Carrying(a, operation, body), b),
                      Satisfies(Carrying(b, operation, body), a)
               PROVE  FALSE
  BY <1>2, Zenon
<1>4. /\ \A k \in DOMAIN a.headers : NameRank(a, k) = 0
      /\ \A k \in DOMAIN b.headers : NameRank(b, k) = 0
  <2>1. \A k \in DOMAIN a.headers : NameRank(a, k) = 0
    BY RankOfOne
  <2>2. \A k \in DOMAIN b.headers : NameRank(b, k) = 0
    BY RankOfOne
  <2> QED BY <2>1, <2>2
<1>5. Entries(a) \subseteq Entries(b)
  <2> SUFFICES ASSUME NEW k \in DOMAIN a.headers PROVE Entry(a, k) \in Entries(b)
    BY DEF Entries
  <2>1. Asks(b, a.headers[k])
    BY <1>3, CarriedIsRequired
  <2> QED BY <1>4, <2>1 DEF Entries, Entry, Asks
<1>6. Entries(b) \subseteq Entries(a)
  <2> SUFFICES ASSUME NEW k \in DOMAIN b.headers PROVE Entry(b, k) \in Entries(a)
    BY DEF Entries
  <2>1. Asks(a, b.headers[k])
    BY <1>3, CarriedIsRequired
  <2> QED BY <1>4, <2>1 DEF Entries, Entry, Asks
<1>7. \A m : CanonicalMatchKey(m) =
              [operation |-> m.operation, headers |-> Entries(m), body |-> m.body]
  BY DEF CanonicalMatchKey, Entries, Entry, NameRank
<1>8. MatchesAreEquivalent(a, b)
  BY <1>5, <1>6, <1>7 DEF MatchesAreEquivalent
<1> QED BY <1>8

-----------------------------------------------------------------------------

IInv == TypeOK /\ RulesAreDistinct /\ NoEquivalentRules

LEMMA RulesType ==
  ASSUME TypeOK
  PROVE  /\ rules \in Seq(Rule)
         /\ Len(rules) \in Nat
         /\ DOMAIN rules = 1 .. Len(rules)
         /\ \A i \in DOMAIN rules : rules[i] \in Rule
         /\ nextSequence \in 1 .. MaxSequence + 1
<1>1. rules \in Seq(Rule) /\ nextSequence \in 1 .. MaxSequence + 1
  BY DEF TypeOK, Rule
<1>2. DOMAIN rules = 1 .. Len(rules) /\ Len(rules) \in Nat
  BY <1>1
<1>3. \A i \in DOMAIN rules : rules[i] \in Rule
  BY <1>1, ElementOfSeq, <1>2
<1> QED BY <1>1, <1>2, <1>3

LEMMA InsertKeepsInvariant ==
  ASSUME IInv, NEW id \in RuleIds, NEW input \in AddInputs,
         nextSequence <= MaxSequence, ~Full, Insert(id, input),
         UNCHANGED state, ruleNumber' \in 0 .. MaxRuleNumber
  PROVE  IInv'
<1> USE RulesAssumption
<1> DEFINE new == NewRule(id, input, nextSequence)
<1>0. /\ input.name \in Names /\ input.enabled \in BOOLEAN
      /\ input.priority \in Int /\ input.match \in Matches
  OBVIOUS
<1>1. CASE AddConflicts(id, input)
  BY <1>1 DEF IInv, TypeOK, RulesAreDistinct, NoEquivalentRules, Insert, Refuse
<1>2. CASE ~AddConflicts(id, input)
  <2>1. /\ rules' = Append(rules, new)
        /\ nextSequence' = nextSequence + 1
        /\ reply' = 200
    BY <1>2 DEF Insert
  <2>2. new \in Rule
    BY <1>0, RulesType DEF NewRule, Rule, IInv
  <2>3. /\ rules' \in Seq(Rule)
        /\ Len(rules') = Len(rules) + 1
        /\ \A k \in 1 .. Len(rules) : rules'[k] = rules[k]
        /\ rules'[Len(rules) + 1] = new
        /\ DOMAIN rules' = 1 .. Len(rules) + 1
    <3> HIDE DEF new
    <3> QED BY <2>1, <2>2, RulesType, AppendProperties DEF IInv
  <2>4. TypeOK'
    <3>1. Len(rules') <= MaxRulesPerSession
      BY <2>3, RulesType DEF IInv, Full
    <3>2. nextSequence' \in 1 .. MaxSequence + 1
      BY <2>1, RulesType DEF IInv
    <3> QED BY <2>1, <2>3, <3>1, <3>2 DEF IInv, TypeOK, Rule
  <2>5. \A k \in DOMAIN rules :
          /\ rules[k].id # id
          /\ rules[k].name # input.name
          /\ rules[k].sequence < nextSequence
          /\ input.enabled => ~(/\ rules[k].enabled
                                /\ rules[k].priority = input.priority
                                /\ MatchesAreEquivalent(rules[k].match, input.match))
    BY <1>2, RulesType
       DEF IInv, AddConflicts, Ids, NameTaken, Clash, RulesAreDistinct, Rule
  <2>6. RulesAreDistinct'
    <3>1. \A i \in DOMAIN rules' : rules'[i].sequence < nextSequence'
      BY <2>1, <2>3, <2>5, RulesType DEF IInv, NewRule, Rule
    <3>2. ASSUME NEW i \in DOMAIN rules', NEW j \in DOMAIN rules', i < j
          PROVE  /\ rules'[i].id # rules'[j].id
                 /\ rules'[i].name # rules'[j].name
                 /\ rules'[i].sequence < rules'[j].sequence
      <4>1. CASE j = Len(rules) + 1
        <5>1. i \in DOMAIN rules /\ rules'[i] = rules[i] /\ rules'[j] = new
          BY <2>3, <3>2, <4>1, RulesType DEF IInv
        <5> QED BY <5>1, <2>5 DEF NewRule
      <4>2. CASE j # Len(rules) + 1
        <5>1. i \in DOMAIN rules /\ j \in DOMAIN rules
          BY <2>3, <3>2, <4>2, RulesType DEF IInv
        <5>2. rules'[i] = rules[i] /\ rules'[j] = rules[j]
          BY <2>3, <5>1, RulesType DEF IInv
        <5> QED BY <5>1, <5>2, <3>2 DEF IInv, RulesAreDistinct
      <4> QED BY <4>1, <4>2
    <3> QED BY <3>1, <3>2 DEF RulesAreDistinct
  <2>7. NoEquivalentRules'
    <3>1. SUFFICES ASSUME NEW i \in DOMAIN rules', NEW j \in DOMAIN rules',
                          i # j, rules'[i].enabled, rules'[j].enabled,
                          rules'[i].priority = rules'[j].priority,
                          MatchesAreEquivalent(rules'[i].match, rules'[j].match)
                   PROVE  FALSE
      BY DEF NoEquivalentRules
    <3>2. CASE i = Len(rules) + 1
      <4>1. j \in DOMAIN rules /\ rules'[j] = rules[j] /\ rules'[i] = new
        BY <2>3, <3>1, <3>2, RulesType DEF IInv
      <4>2. MatchesAreEquivalent(rules[j].match, input.match)
        BY <4>1, <3>1, EquivalenceIsSymmetric DEF NewRule
      <4> QED BY <4>1, <4>2, <3>1, <2>5 DEF NewRule
    <3>3. CASE j = Len(rules) + 1
      <4>1. i \in DOMAIN rules /\ rules'[i] = rules[i] /\ rules'[j] = new
        BY <2>3, <3>1, <3>3, RulesType DEF IInv
      <4> QED BY <4>1, <3>1, <2>5 DEF NewRule
    <3>4. CASE i # Len(rules) + 1 /\ j # Len(rules) + 1
      <4>1. i \in DOMAIN rules /\ j \in DOMAIN rules
        BY <2>3, <3>1, <3>4, RulesType DEF IInv
      <4>2. rules'[i] = rules[i] /\ rules'[j] = rules[j]
        BY <2>3, <4>1, RulesType DEF IInv
      <4> QED BY <4>1, <4>2, <3>1 DEF IInv, NoEquivalentRules
    <3> QED BY <3>2, <3>3, <3>4
  <2> QED BY <2>4, <2>6, <2>7 DEF IInv
<1> QED BY <1>1, <1>2

\* A rule is replaced in place by one that keeps its identifier and sequence.
LEMMA ReplaceKeepsInvariant ==
  ASSUME IInv, NEW i \in DOMAIN rules, NEW new \in Rule,
         new.id = rules[i].id, new.sequence = rules[i].sequence,
         \A k \in DOMAIN rules : k # i => rules[k].name # new.name,
         \A k \in DOMAIN rules :
           k # i /\ new.enabled => ~(/\ rules[k].enabled
                                     /\ rules[k].priority = new.priority
                                     /\ MatchesAreEquivalent(rules[k].match, new.match)),
         rules' = [rules EXCEPT ![i] = new],
         UNCHANGED <<state, nextSequence, ruleNumber>>,
         reply' \in {200, 405, 406, 409, 422}
  PROVE  IInv'
<1>1. /\ rules' \in Seq(Rule)
      /\ Len(rules') = Len(rules)
      /\ DOMAIN rules' = DOMAIN rules
      /\ rules'[i] = new
      /\ \A k \in DOMAIN rules : k # i => rules'[k] = rules[k]
  BY RulesType DEF IInv
<1>2. TypeOK'
  BY <1>1 DEF IInv, TypeOK, Rule
<1>3. RulesAreDistinct'
  <2>1. \A k \in DOMAIN rules : /\ rules'[k].id = rules[k].id
                                /\ rules'[k].sequence = rules[k].sequence
    BY <1>1
  <2>2. \A k \in DOMAIN rules' : rules'[k].sequence < nextSequence'
    BY <1>1, <2>1 DEF IInv, RulesAreDistinct
  <2>3. ASSUME NEW j \in DOMAIN rules', NEW k \in DOMAIN rules', j < k
        PROVE  /\ rules'[j].id # rules'[k].id
               /\ rules'[j].name # rules'[k].name
               /\ rules'[j].sequence < rules'[k].sequence
    <3>1. /\ rules[j].id # rules[k].id
          /\ rules[j].name # rules[k].name
          /\ rules[j].sequence < rules[k].sequence
      BY <1>1, <2>3 DEF IInv, RulesAreDistinct
    <3>2. j # k
      BY <3>1
    <3>3. rules'[j].name # rules'[k].name
      BY <1>1, <3>1, <3>2
    <3> QED BY <1>1, <2>1, <3>1, <3>3
  <2> QED BY <2>2, <2>3 DEF RulesAreDistinct
<1>4. NoEquivalentRules'
  <2>1. SUFFICES ASSUME NEW j \in DOMAIN rules', NEW k \in DOMAIN rules',
                        j # k, rules'[j].enabled, rules'[k].enabled,
                        rules'[j].priority = rules'[k].priority,
                        MatchesAreEquivalent(rules'[j].match, rules'[k].match)
                 PROVE  FALSE
    BY DEF NoEquivalentRules
  <2>2. CASE j = i
    <3>1. rules'[k] = rules[k] /\ rules'[j] = new /\ k \in DOMAIN rules
      BY <1>1, <2>1, <2>2
    <3>2. MatchesAreEquivalent(rules[k].match, new.match)
      BY <2>1, <3>1, EquivalenceIsSymmetric
    <3> QED BY <2>1, <2>2, <3>1, <3>2
  <2>3. CASE k = i
    <3>1. rules'[j] = rules[j] /\ rules'[k] = new /\ j \in DOMAIN rules
      BY <1>1, <2>1, <2>3
    <3> QED BY <2>1, <2>3, <3>1
  <2>4. CASE j # i /\ k # i
    <3>1. rules'[j] = rules[j] /\ rules'[k] = rules[k]
      BY <1>1, <2>4
    <3> QED BY <1>1, <2>1, <3>1 DEF IInv, NoEquivalentRules
  <2> QED BY <2>2, <2>3, <2>4
<1> QED BY <1>2, <1>3, <1>4 DEF IInv

LEMMA DeleteKeepsInvariant ==
  ASSUME IInv, NEW i \in DOMAIN rules, rules' = Without(i),
         UNCHANGED <<state, nextSequence, ruleNumber>>, reply' = 200
  PROVE  IInv'
<1> DEFINE from(k) == IF k < i THEN k ELSE k + 1
<1>1. i \in 1 .. Len(rules) /\ Len(rules) \in Nat
  BY RulesType DEF IInv
<1>2. \A k \in 1 .. Len(rules) - 1 : from(k) \in 1 .. Len(rules)
  BY <1>1
<1>3. \A j, k \in 1 .. Len(rules) - 1 :
        (j < k => from(j) < from(k)) /\ (j # k => from(j) # from(k))
  BY <1>1
<1> HIDE DEF from
<1>4. rules' = [k \in 1 .. Len(rules) - 1 |-> rules[from(k)]]
  BY <1>1 DEF Without, from
<1>5. rules' \in Seq(Rule) /\ Len(rules') = Len(rules) - 1
      /\ DOMAIN rules' = 1 .. Len(rules) - 1
  <2>1. \A k \in 1 .. Len(rules) - 1 : rules[from(k)] \in Rule
    BY <1>2, RulesType DEF IInv
  <2>2. Len(rules) - 1 \in Nat
    BY <1>1
  <2> QED BY <1>4, <2>1, <2>2, IsASeq
<1>6. \A k \in DOMAIN rules' : /\ from(k) \in DOMAIN rules
                               /\ rules'[k] = rules[from(k)]
  BY <1>2, <1>4, <1>5, RulesType DEF IInv
<1>7. TypeOK'
  <2>1. Len(rules') <= MaxRulesPerSession
    BY <1>1, <1>5, RulesAssumption DEF IInv, TypeOK
  <2> QED BY <1>5, <2>1 DEF IInv, TypeOK, Rule
<1>8. RulesAreDistinct'
  <2>1. ASSUME NEW j \in DOMAIN rules', NEW k \in DOMAIN rules', j < k
        PROVE  /\ rules'[j].id # rules'[k].id
               /\ rules'[j].name # rules'[k].name
               /\ rules'[j].sequence < rules'[k].sequence
    <3>1. from(j) < from(k)
      BY <1>3, <1>5, <2>1
    <3> QED BY <1>6, <3>1 DEF IInv, RulesAreDistinct
  <2>2. \A k \in DOMAIN rules' : rules'[k].sequence < nextSequence'
    BY <1>6 DEF IInv, RulesAreDistinct
  <2> QED BY <2>1, <2>2 DEF RulesAreDistinct
<1>9. NoEquivalentRules'
  <2>1. SUFFICES ASSUME NEW j \in DOMAIN rules', NEW k \in DOMAIN rules',
                        j # k, rules'[j].enabled, rules'[k].enabled,
                        rules'[j].priority = rules'[k].priority,
                        MatchesAreEquivalent(rules'[j].match, rules'[k].match)
                 PROVE  FALSE
    BY DEF NoEquivalentRules
  <2>2. from(j) # from(k)
    BY <1>3, <1>5, <2>1
  <2> QED BY <1>6, <2>1, <2>2 DEF IInv, NoEquivalentRules
<1> QED BY <1>7, <1>8, <1>9 DEF IInv

LEMMA RefuseKeepsInvariant ==
  ASSUME IInv, NEW status \in {405, 406, 409, 422}, Refuse(status),
         UNCHANGED state, ruleNumber' \in 0 .. MaxRuleNumber
  PROVE  IInv'
BY DEF IInv, TypeOK, RulesAreDistinct, NoEquivalentRules, Refuse

LEMMA AddKeepsInvariant ==
  ASSUME IInv, NEW input \in AddInputs, AddRule(input)
  PROVE  IInv'
<1>1. /\ ruleNumber \in 0 .. MaxRuleNumber
      /\ input.id \in RuleIds \cup {Unset}
      /\ nextSequence <= MaxSequence
      /\ state' = state
  BY RulesAssumption DEF IInv, TypeOK, AddRule
<1>2. CASE state = "closed" /\ Refuse(405) /\ UNCHANGED ruleNumber
  BY <1>1, <1>2, RefuseKeepsInvariant
<1>3. CASE state = "active" /\ Full /\ Refuse(422) /\ UNCHANGED ruleNumber
  BY <1>1, <1>3, RefuseKeepsInvariant
<1>4. CASE /\ state = "active" /\ ~Full /\ input.id # Unset
           /\ Insert(input.id, input)
           /\ UNCHANGED ruleNumber
  <2>1. input.id \in RuleIds
    BY <1>1, <1>4
  <2> QED BY <1>1, <1>4, <2>1, InsertKeepsInvariant
<1>5. CASE /\ state = "active" /\ ~Full /\ input.id = Unset
           /\ ruleNumber' = ruleNumber + 1
           /\ Insert(<<"rule", ruleNumber + 1>>, input)
  <2>1. ruleNumber + 1 \in 1 .. MaxRuleNumber
    BY <1>1, <1>5, RulesAssumption DEF AddRule
  <2>2. <<"rule", ruleNumber + 1>> \in RuleIds
    BY <2>1, RulesAssumption
  <2>3. ruleNumber' \in 0 .. MaxRuleNumber
    BY <1>5, <2>1, RulesAssumption
  <2> QED BY <1>1, <1>5, <2>2, <2>3, InsertKeepsInvariant
<1> QED BY <1>2, <1>3, <1>4, <1>5 DEF AddRule

LEMMA UpdateKeepsInvariant ==
  ASSUME IInv, NEW patch \in Patches, UpdateRule(patch)
  PROVE  IInv'
<1>1. ruleNumber \in 0 .. MaxRuleNumber /\ UNCHANGED <<state, ruleNumber>>
  BY DEF IInv, TypeOK, UpdateRule
<1>2. CASE RefuseMutation(patch.id)
  BY <1>1, <1>2, RefuseKeepsInvariant DEF RefuseMutation
<1>3. CASE ~RefuseMutation(patch.id)
  <2>1. PICK i \in Find(patch.id) :
          IF PatchConflicts(Patched(rules[i], patch), patch)
          THEN Refuse(409)
          ELSE /\ rules' = [rules EXCEPT ![i] = Patched(rules[i], patch)]
               /\ reply' = 200
               /\ UNCHANGED nextSequence
    BY <1>3 DEF UpdateRule
  <2> DEFINE updated == Patched(rules[i], patch)
  <2>2. CASE PatchConflicts(updated, patch)
    BY <1>1, <2>1, <2>2, RefuseKeepsInvariant
  <2>3. CASE ~PatchConflicts(updated, patch)
    <3>1. i \in DOMAIN rules /\ rules[i] \in Rule
      BY RulesType DEF Find, IInv
    <3>2. /\ patch.name \in Names \cup {Unset}
          /\ patch.enabled \in BOOLEAN \cup {Unset}
          /\ patch.priority \in Int \cup {Unset}
          /\ patch.match \in Matches \cup {Unset}
      BY RulesAssumption
    <3>3. /\ Given(patch.name, rules[i].name) \in Names
          /\ Given(patch.priority, rules[i].priority) \in Int
          /\ Given(patch.match, rules[i].match) \in Matches
      BY <3>1, <3>2 DEF Given, Rule
    <3>4. Given(patch.enabled, rules[i].enabled) \in BOOLEAN
      BY <3>1, <3>2, Zenon DEF Given, Rule
    <3>5. /\ updated \in Rule
          /\ updated.id = rules[i].id
          /\ updated.sequence = rules[i].sequence
          /\ updated.name = Given(patch.name, rules[i].name)
      BY <3>1, <3>3, <3>4 DEF Patched, Rule
    <3>6. \A k \in DOMAIN rules : k # i => rules[k].id # updated.id
                                       /\ rules[k].name # rules[i].name
      <4>1. \A k \in DOMAIN rules : k # i => k < i \/ i < k
        BY <3>1, RulesType DEF IInv
      <4> QED BY <3>1, <3>5, <4>1 DEF IInv, RulesAreDistinct
    <3>7. \A k \in DOMAIN rules : k # i => rules[k].name # updated.name
      BY <2>3, <3>1, <3>5, <3>6 DEF PatchConflicts, NameTaken, Given
    <3>8. \A k \in DOMAIN rules :
            k # i /\ updated.enabled
              => ~(/\ rules[k].enabled
                   /\ rules[k].priority = updated.priority
                   /\ MatchesAreEquivalent(rules[k].match, updated.match))
      BY <2>3, <3>6 DEF PatchConflicts, Clash
    <3>9. rules' = [rules EXCEPT ![i] = updated] /\ reply' = 200
          /\ UNCHANGED <<state, nextSequence, ruleNumber>>
      BY <1>1, <2>1, <2>3
    <3> HIDE DEF updated
    <3> QED BY <3>1, <3>5, <3>7, <3>8, <3>9, ReplaceKeepsInvariant
  <2> QED BY <2>2, <2>3
<1> QED BY <1>2, <1>3

LEMMA HitKeepsInvariant ==
  ASSUME IInv, NEW request \in Requests, RecordRuleHit(request)
  PROVE  IInv'
<1>1. PICK i \in DOMAIN rules :
        /\ rules[i].hitCount < MaxHits
        /\ rules' = [rules EXCEPT ![i].hitCount = @ + 1]
        /\ UNCHANGED <<state, nextSequence, ruleNumber, reply>>
  BY DEF RecordRuleHit, Find
<1> DEFINE new == [rules[i] EXCEPT !.hitCount = @ + 1]
<1>2. rules[i] \in Rule
  BY RulesType DEF IInv
<1>3. /\ new \in Rule
      /\ new.id = rules[i].id /\ new.sequence = rules[i].sequence
      /\ new.name = rules[i].name /\ new.priority = rules[i].priority
      /\ new.match = rules[i].match
  BY <1>1, <1>2, RulesAssumption DEF Rule
<1>4. new.enabled = rules[i].enabled
  BY <1>2, Zenon DEF Rule
<1>5. rules' = [rules EXCEPT ![i] = new]
  BY <1>1
<1> HIDE DEF new
<1>6. \A k \in DOMAIN rules : k # i => rules[k].name # new.name
  <2>1. \A k \in DOMAIN rules : k # i => k < i \/ i < k
    BY <1>1, RulesType DEF IInv
  <2> QED BY <1>3, <2>1 DEF IInv, RulesAreDistinct
<1>7. \A k \in DOMAIN rules :
        k # i /\ new.enabled => ~(/\ rules[k].enabled
                                  /\ rules[k].priority = new.priority
                                  /\ MatchesAreEquivalent(rules[k].match, new.match))
  BY <1>3, <1>4 DEF IInv, NoEquivalentRules
<1>8. reply' \in {200, 405, 406, 409, 422}
  BY <1>1 DEF IInv, TypeOK
<1>9. UNCHANGED <<state, nextSequence, ruleNumber>>
  BY <1>1
<1>10. i \in DOMAIN rules /\ new \in Rule /\ new.id = rules[i].id
       /\ new.sequence = rules[i].sequence
  BY <1>1, <1>3
<1> QED BY <1>5, <1>6, <1>7, <1>8, <1>9, <1>10, ReplaceKeepsInvariant, ZenonT(40)

LEMMA NextKeepsInvariant == IInv /\ [Next]_vars => IInv'
<1> SUFFICES ASSUME IInv, [Next]_vars PROVE IInv'
  OBVIOUS
<1>1. CASE \E input \in AddInputs : AddRule(input)
  BY <1>1, AddKeepsInvariant
<1>2. CASE \E patch \in Patches : UpdateRule(patch)
  BY <1>2, UpdateKeepsInvariant
<1>3. ASSUME NEW id \in RuleIds, DeleteRule(id) PROVE IInv'
  <2>1. ruleNumber \in 0 .. MaxRuleNumber /\ UNCHANGED <<state, ruleNumber>>
    BY <1>3 DEF IInv, TypeOK, DeleteRule
  <2>2. CASE RefuseMutation(id)
    BY <2>1, <2>2, RefuseKeepsInvariant DEF RefuseMutation
  <2>3. CASE ~RefuseMutation(id)
    BY <1>3, <2>1, <2>3, DeleteKeepsInvariant DEF DeleteRule, Find
  <2> QED BY <2>2, <2>3
<1>4. CASE \E request \in Requests : RecordRuleHit(request)
  BY <1>4, HitKeepsInvariant
<1>5. CASE RuleElsewhere
  <2>1. ruleNumber' \in 0 .. MaxRuleNumber
    BY <1>5, RulesAssumption DEF IInv, TypeOK, RuleElsewhere
  <2> QED BY <1>5, <2>1 DEF RuleElsewhere, IInv, TypeOK, RulesAreDistinct,
                             NoEquivalentRules
<1>6. CASE CloseSession
  BY <1>6 DEF CloseSession, IInv, TypeOK, RulesAreDistinct, NoEquivalentRules
<1>7. CASE UNCHANGED vars
  BY <1>7 DEF vars, IInv, TypeOK, RulesAreDistinct, NoEquivalentRules
<1> QED BY <1>1, <1>2, <1>3, <1>4, <1>5, <1>6, <1>7 DEF Next

LEMMA InitInvariant == Init => IInv
<1> SUFFICES ASSUME Init PROVE IInv
  OBVIOUS
<1>1. rules = <<>> /\ Len(rules) = 0 /\ DOMAIN rules = {}
  BY DEF Init
<1>2. TypeOK
  BY <1>1, RulesAssumption, EmptySeq DEF Init, TypeOK
<1> QED BY <1>1, <1>2 DEF IInv, RulesAreDistinct, NoEquivalentRules

\* For every set of inputs and every maximum, no sequence of additions,
\* patches, deletions and hits makes two enabled rules of one priority
\* equivalent, or two rules share an identifier, a name or a sequence number.
THEOREM RulesStayUnambiguous ==
  Spec => [](TypeOK /\ RulesAreDistinct /\ NoEquivalentRules)
<1>1. Spec => []IInv
  BY InitInvariant, NextKeepsInvariant, PTL DEF Spec
<1> QED BY <1>1, PTL DEF IInv

\* Two enabled rules of one priority that ask for the same operation and body,
\* each for a header at most once.
Rivals(i, j) ==
  /\ i # j /\ rules[i].enabled /\ rules[j].enabled
  /\ rules[i].priority = rules[j].priority
  /\ rules[i].match.operation = rules[j].match.operation
  /\ rules[i].match.body = rules[j].match.body
  /\ NamesOnce(rules[i].match) /\ NamesOnce(rules[j].match)

\* Every request the first could answer has a sibling, with the headers of the
\* one or the other, that only one of the two answers.
ToldApart(a, b) ==
  \A operation, body :
    a.operation \in {"*", operation} /\ (a.body # NoBody => BodyMatches(a.body, body)) =>
      \E match \in {a, b} :
        ~(Satisfies(Carrying(match, operation, body), a)
            <=> Satisfies(Carrying(match, operation, body), b))

\* What the store promises a client (session-store.ts:208, matching.ts:148):
\* whatever was added, patched, moved or enabled, of two rules of one priority
\* that differ in their headers alone neither hides the other.
THEOREM RivalsAreToldApart ==
  ASSUME NEW S,
         \A match \in Matches : /\ match.headers \in Seq(S)
                                /\ \A i \in DOMAIN match.headers :
                                     match.headers[i].value # Absent
  PROVE  Spec => [](\A i, j \in DOMAIN rules :
                      Rivals(i, j) => ToldApart(rules[i].match, rules[j].match))
<1>1. IInv => \A i, j \in DOMAIN rules :
                Rivals(i, j) => ToldApart(rules[i].match, rules[j].match)
  <2> SUFFICES ASSUME IInv, NEW i \in DOMAIN rules, NEW j \in DOMAIN rules, Rivals(i, j)
               PROVE  ToldApart(rules[i].match, rules[j].match)
    OBVIOUS
  <2>1. rules[i].match \in Matches /\ rules[j].match \in Matches
    BY RulesType DEF IInv, Rule
  <2>2. ~MatchesAreEquivalent(rules[i].match, rules[j].match)
    BY DEF IInv, NoEquivalentRules, Rivals
  <2>3. PICK a \in Matches, b \in Matches : a = rules[i].match /\ b = rules[j].match
    BY <2>1
  <2>4. /\ a.operation = b.operation /\ a.body = b.body /\ ~MatchesAreEquivalent(a, b)
        /\ NamesOnce(a) /\ NamesOnce(b)
    BY <2>2, <2>3 DEF Rivals
  <2>5. ASSUME NEW operation, NEW body, a.operation \in {"*", operation},
               a.body # NoBody => BodyMatches(a.body, body)
        PROVE  \E match \in {a, b} :
                 ~(Satisfies(Carrying(match, operation, body), a)
                     <=> Satisfies(Carrying(match, operation, body), b))
    <3>1. /\ a.headers \in Seq(S) /\ b.headers \in Seq(S)
          /\ \A k \in DOMAIN a.headers : a.headers[k].value # Absent
          /\ \A k \in DOMAIN b.headers : b.headers[k].value # Absent
      OBVIOUS
    <3> QED BY <2>4, <2>5, <3>1, HeadersTellMatchesApart
  <2>6. ToldApart(a, b)
    BY <2>5 DEF ToldApart
  <2> QED BY <2>3, <2>6
<1>2. Spec => []IInv
  BY InitInvariant, NextKeepsInvariant, PTL DEF Spec
<1> QED BY <1>1, <1>2, PTL

-----------------------------------------------------------------------------
(* What a step leaves to the rules that were there.                         *)

Kept ==
  \A i \in DOMAIN rules, j \in DOMAIN rules' :
    rules[i].id = rules'[j].id =>
      /\ rules'[j].sequence = rules[i].sequence
      /\ rules'[j].hitCount >= rules[i].hitCount

\* It suffices that every rule there is afterwards is one there was, or has an
\* identifier of its own.
LEMMA RulesAreKept ==
  ASSUME IInv,
         \A j \in DOMAIN rules' :
           \/ rules'[j].id \notin Ids
           \/ \E k \in DOMAIN rules : /\ rules'[j].id = rules[k].id
                                      /\ rules'[j].sequence = rules[k].sequence
                                      /\ rules'[j].hitCount >= rules[k].hitCount
  PROVE  Kept
<1> SUFFICES ASSUME NEW i \in DOMAIN rules, NEW j \in DOMAIN rules', rules[i].id = rules'[j].id
             PROVE  /\ rules'[j].sequence = rules[i].sequence
                    /\ rules'[j].hitCount >= rules[i].hitCount
  BY DEF Kept
<1>1. rules'[j].id \in Ids
  BY DEF Ids
<1>2. PICK k \in DOMAIN rules : /\ rules'[j].id = rules[k].id
                                /\ rules'[j].sequence = rules[k].sequence
                                /\ rules'[j].hitCount >= rules[k].hitCount
  BY <1>1
<1>3. i = k \/ i < k \/ k < i
  BY RulesType DEF IInv
<1>4. i = k
  BY <1>2, <1>3 DEF IInv, RulesAreDistinct
<1> QED BY <1>2, <1>4

LEMMA SameRulesAreKept ==
  ASSUME IInv, UNCHANGED rules
  PROVE  Kept
<1>1. \A j \in DOMAIN rules : rules[j].hitCount \in Int
  BY RulesType DEF IInv, Rule
<1>2. \A j \in DOMAIN rules' :
        \E k \in DOMAIN rules : /\ rules'[j].id = rules[k].id
                                /\ rules'[j].sequence = rules[k].sequence
                                /\ rules'[j].hitCount >= rules[k].hitCount
  BY <1>1
<1> QED BY <1>2, RulesAreKept

LEMMA InsertKeepsRules ==
  ASSUME IInv, NEW id, NEW input, Insert(id, input)
  PROVE  Kept
<1>1. CASE AddConflicts(id, input)
  BY <1>1, SameRulesAreKept DEF Insert, Refuse
<1>2. CASE ~AddConflicts(id, input)
  <2>1. PICK new : new.id = id /\ rules' = Append(rules, new)
    BY <1>2 DEF Insert, NewRule
  <2>2. id \notin Ids
    BY <1>2 DEF AddConflicts
  <2>3. /\ DOMAIN rules = 1 .. Len(rules) /\ Len(rules) \in Nat
        /\ \A j \in DOMAIN rules : rules[j].hitCount \in Int
    BY RulesType DEF IInv, Rule
  <2>4. /\ DOMAIN rules' = 1 .. Len(rules) + 1
        /\ \A j \in 1 .. Len(rules) : rules'[j] = rules[j]
        /\ rules'[Len(rules) + 1] = new
    <3>1. rules \in Seq(Rule \cup {new}) /\ new \in Rule \cup {new}
      BY RulesType, SeqMonotonic DEF IInv
    <3> QED BY <2>1, <3>1, AppendProperties, LenProperties
  <2>5. \A j \in DOMAIN rules' :
          \/ rules'[j].id \notin Ids
          \/ \E k \in DOMAIN rules : /\ rules'[j].id = rules[k].id
                                     /\ rules'[j].sequence = rules[k].sequence
                                     /\ rules'[j].hitCount >= rules[k].hitCount
    <3> SUFFICES ASSUME NEW j \in DOMAIN rules', j # Len(rules) + 1
                 PROVE  \E k \in DOMAIN rules : /\ rules'[j].id = rules[k].id
                                                /\ rules'[j].sequence = rules[k].sequence
                                                /\ rules'[j].hitCount >= rules[k].hitCount
      BY <2>1, <2>2, <2>4
    <3>1. j \in DOMAIN rules
      BY <2>3, <2>4
    <3> QED BY <2>3, <2>4, <3>1
  <2> QED BY <2>5, RulesAreKept
<1> QED BY <1>1, <1>2

LEMMA ReplaceKeepsRules ==
  ASSUME IInv, NEW i \in DOMAIN rules, NEW new, rules' = [rules EXCEPT ![i] = new],
         new.id = rules[i].id, new.sequence = rules[i].sequence,
         new.hitCount >= rules[i].hitCount
  PROVE  Kept
<1>1. /\ DOMAIN rules = 1 .. Len(rules)
      /\ \A j \in DOMAIN rules : rules[j].hitCount \in Int
  BY RulesType DEF IInv, Rule
<1>2. /\ DOMAIN rules' = DOMAIN rules
      /\ rules'[i] = new /\ \A j \in DOMAIN rules : j # i => rules'[j] = rules[j]
  BY RulesType DEF IInv
<1>3. \A j \in DOMAIN rules' :
        \E k \in DOMAIN rules : /\ rules'[j].id = rules[k].id
                                /\ rules'[j].sequence = rules[k].sequence
                                /\ rules'[j].hitCount >= rules[k].hitCount
  BY <1>1, <1>2
<1> QED BY <1>3, RulesAreKept

LEMMA UpdateKeepsRules ==
  ASSUME IInv, NEW patch \in Patches, UpdateRule(patch)
  PROVE  Kept
<1>1. CASE UNCHANGED rules
  BY <1>1, SameRulesAreKept
<1>2. CASE ~UNCHANGED rules
  <2>1. PICK i \in DOMAIN rules : rules' = [rules EXCEPT ![i] = Patched(rules[i], patch)]
    BY <1>2 DEF UpdateRule, RefuseMutation, Refuse, Find
  <2>2. rules[i] \in Rule
    BY RulesType DEF IInv
  <2>3. /\ Patched(rules[i], patch).id = rules[i].id
        /\ Patched(rules[i], patch).sequence = rules[i].sequence
        /\ Patched(rules[i], patch).hitCount = rules[i].hitCount
        /\ rules[i].hitCount \in Int
    BY <2>2 DEF Patched, Rule
  <2>4. Patched(rules[i], patch).hitCount >= rules[i].hitCount
    BY <2>3
  <2> QED BY <2>1, <2>3, <2>4, ReplaceKeepsRules
<1> QED BY <1>1, <1>2

LEMMA DeleteKeepsRules ==
  ASSUME IInv, NEW i \in DOMAIN rules, rules' = Without(i)
  PROVE  Kept
<1>1. /\ i \in 1 .. Len(rules) /\ Len(rules) \in Nat /\ DOMAIN rules = 1 .. Len(rules)
      /\ \A j \in DOMAIN rules : rules[j].hitCount \in Int
  BY RulesType DEF IInv, Rule
<1>2. /\ DOMAIN rules' = 1 .. Len(rules) - 1
      /\ \A j \in 1 .. Len(rules) - 1 : rules'[j] = IF j < i THEN rules[j] ELSE rules[j + 1]
  BY DEF Without
<1>3. ASSUME NEW j \in DOMAIN rules'
      PROVE  \E k \in DOMAIN rules : /\ rules'[j].id = rules[k].id
                                     /\ rules'[j].sequence = rules[k].sequence
                                     /\ rules'[j].hitCount >= rules[k].hitCount
  <2>1. PICK k \in DOMAIN rules : rules'[j] = rules[k]
    <3>1. j \in DOMAIN rules /\ j + 1 \in DOMAIN rules
      BY <1>1, <1>2
    <3> QED BY <1>2, <3>1
  <2> QED BY <1>1, <2>1
<1> QED BY <1>3, RulesAreKept

\* No step costs a rule its place in the evaluation order among equals or the
\* hits it has counted, for every set of inputs and every maximum: rules are
\* added behind those there are, patched in place and deleted around
\* (session-store.ts addRule, updateRule, deleteRule, recordRuleHit).
THEOREM RulesKeepTheirPlace == Spec => RuleKeepsPlaceAndHits
<1>1. ASSUME IInv, [Next]_vars PROVE Kept
  <2>1. ASSUME NEW input \in AddInputs, AddRule(input) PROVE Kept
    BY <1>1, <2>1, SameRulesAreKept, InsertKeepsRules DEF AddRule, Refuse
  <2>2. ASSUME NEW patch \in Patches, UpdateRule(patch) PROVE Kept
    BY <1>1, <2>2, UpdateKeepsRules
  <2>3. ASSUME NEW id \in RuleIds, DeleteRule(id) PROVE Kept
    BY <1>1, <2>3, SameRulesAreKept, DeleteKeepsRules
       DEF DeleteRule, RefuseMutation, Refuse, Find
  <2>4. ASSUME NEW request \in Requests, RecordRuleHit(request) PROVE Kept
    <3>1. PICK i \in DOMAIN rules : rules' = [rules EXCEPT ![i].hitCount = @ + 1]
      BY <2>4 DEF RecordRuleHit, Find
    <3>2. rules[i] \in Rule /\ rules[i].hitCount \in Int
      BY <1>1, RulesType DEF IInv, Rule
    <3>3. PICK new : new = [rules[i] EXCEPT !.hitCount = @ + 1]
      OBVIOUS
    <3>4. /\ new.id = rules[i].id /\ new.sequence = rules[i].sequence
          /\ new.hitCount >= rules[i].hitCount
      BY <3>2, <3>3 DEF Rule
    <3>5. rules' = [rules EXCEPT ![i] = new]
      BY <3>1, <3>3
    <3> QED BY <1>1, <3>4, <3>5, ReplaceKeepsRules
  <2>5. CASE RuleElsewhere \/ CloseSession \/ UNCHANGED vars
    BY <1>1, <2>5, SameRulesAreKept DEF RuleElsewhere, CloseSession, vars
  <2> QED BY <1>1, <2>1, <2>2, <2>3, <2>4, <2>5 DEF Next
<1>2. IInv /\ [Next]_vars =>
        [\A i \in DOMAIN rules, j \in DOMAIN rules' :
           rules[i].id = rules'[j].id =>
             /\ rules'[j].sequence = rules[i].sequence
             /\ rules'[j].hitCount >= rules[i].hitCount]_vars
  BY <1>1 DEF Kept
<1>3. Spec => []IInv
  BY InitInvariant, NextKeepsInvariant, PTL DEF Spec
<1> QED BY <1>2, <1>3, PTL DEF Spec, RuleKeepsPlaceAndHits

-----------------------------------------------------------------------------
(* Which rule answers.                                                      *)

LEMMA MinOfOne == ASSUME NEW i \in Int PROVE Min({i}) = i
BY DEF Min

\* Sequence numbers are distinct, so the order never leaves two in front.
LEMMA ForemostIsOne ==
  ASSUME IInv, NEW at \in SUBSET DOMAIN rules, NEW i \in Foremost(at, rules)
  PROVE  Foremost(at, rules) = {i} /\ Min(Foremost(at, rules)) = i
<1>1. /\ DOMAIN rules \subseteq Int
      /\ \A k \in DOMAIN rules : rules[k].priority \in Int /\ rules[k].sequence \in Int
  BY RulesType DEF IInv, Rule
<1>2. \A j, k \in DOMAIN rules : j # k => rules[j].sequence # rules[k].sequence
  BY <1>1 DEF IInv, RulesAreDistinct
<1>3. ASSUME NEW k \in Foremost(at, rules) PROVE k = i
  <2>1. i \in at /\ k \in at /\ i \in DOMAIN rules /\ k \in DOMAIN rules
    BY <1>3 DEF Foremost
  <2>2. ~Before(rules[k], rules[i]) /\ ~Before(rules[i], rules[k])
    BY <1>3, <2>1 DEF Foremost
  <2> QED BY <1>1, <1>2, <2>1, <2>2 DEF Before
<1>4. Foremost(at, rules) = {i}
  BY <1>3
<1>5. i \in Int
  BY <1>1 DEF Foremost
<1> QED BY <1>4, <1>5, MinOfOne

\* A rule that is added behind the others and not above the one that answers
\* comes after it.
LEMMA AddedComesAfter ==
  ASSUME IInv, NEW request, NEW input \in AddInputs, NEW id \in RuleIds,
         nextSequence <= MaxSequence,
         rules' = Append(rules, NewRule(id, input, nextSequence)),
         MatchRule(request, rules) # NoRule,
         input.priority <= MatchRule(request, rules).priority
  PROVE  MatchRule(request, rules') = MatchRule(request, rules)
<1> DEFINE at == Answering(request, rules)
           after == Answering(request, rules')
           new == NewRule(id, input, nextSequence)
<1>1. PICK i : i \in Foremost(at, rules)
  BY DEF MatchRule
<1>2. at \in SUBSET DOMAIN rules
  BY DEF Answering
<1>3. Min(Foremost(at, rules)) = i
  <2> HIDE DEF at
  <2> QED BY <1>1, <1>2, ForemostIsOne
<1>4. MatchRule(request, rules) = rules[i]
  BY <1>1, <1>3 DEF MatchRule
<1>5. new \in Rule /\ new.priority = input.priority /\ new.sequence = nextSequence
  <2>1. /\ input.name \in Names /\ input.enabled \in BOOLEAN
        /\ input.priority \in Int /\ input.match \in Matches
    BY RulesAssumption
  <2> QED BY <2>1, RulesType, RulesAssumption DEF NewRule, Rule, IInv
<1>6. /\ DOMAIN rules = 1 .. Len(rules) /\ Len(rules) \in Nat
      /\ DOMAIN rules' = 1 .. Len(rules) + 1
      /\ \A k \in DOMAIN rules : rules'[k] = rules[k]
      /\ rules'[Len(rules) + 1] = new
  <2> HIDE DEF new
  <2> QED BY <1>5, RulesType, AppendProperties DEF IInv, new
<1>7. i \in at /\ i \in DOMAIN rules
  BY <1>1, <1>2 DEF Foremost
<1>8. after \subseteq at \cup {Len(rules) + 1} /\ at \subseteq after
  BY <1>6 DEF Answering
<1>9. ~Before(new, rules[i]) /\ Before(rules[i], new)
  <2>1. /\ rules[i].priority \in Int /\ rules[i].sequence \in Int
        /\ rules[i].sequence < nextSequence
    BY <1>7, RulesType DEF IInv, Rule, RulesAreDistinct
  <2>2. input.priority <= rules[i].priority /\ input.priority \in Int /\ nextSequence \in Int
    BY <1>4, RulesAssumption, RulesType DEF IInv
  <2> HIDE DEF new
  <2> QED BY <1>5, <2>1, <2>2 DEF Before
<1> HIDE DEF at, after, new
<1>10. i \in Foremost(after, rules')
  <2>1. ASSUME NEW j \in after PROVE ~Before(rules'[j], rules'[i])
    <3>1. CASE j = Len(rules) + 1
      BY <1>6, <1>7, <1>9, <3>1
    <3>2. CASE j # Len(rules) + 1
      <4>1. j \in at /\ rules'[j] = rules[j]
        BY <1>2, <1>6, <1>8, <2>1, <3>2
      <4> QED BY <1>1, <1>6, <1>7, <4>1 DEF Foremost
    <3> QED BY <3>1, <3>2
  <2> QED BY <1>7, <1>8, <2>1 DEF Foremost
<1>11. ASSUME NEW k \in Foremost(after, rules') PROVE k = i
  <2>1. k \in after /\ ~Before(rules'[i], rules'[k])
    BY <1>7, <1>8, <1>11 DEF Foremost
  <2>2. k # Len(rules) + 1
    BY <1>6, <1>7, <1>9, <2>1
  <2>3. k \in at /\ \A j \in at : rules'[j] = rules[j]
    BY <1>2, <1>6, <1>8, <2>1, <2>2
  <2>4. \A j \in at : ~Before(rules[j], rules[k])
    <3>1. \A j \in at : ~Before(rules'[j], rules'[k])
      BY <1>8, <1>11 DEF Foremost
    <3> QED BY <2>3, <3>1
  <2>5. k \in Foremost(at, rules)
    BY <2>3, <2>4 DEF Foremost
  <2> QED BY <1>1, <1>2, <2>5, ForemostIsOne
<1>12. Foremost(after, rules') = {i} /\ i \in Int
  BY <1>6, <1>7, <1>10, <1>11
<1>13. Min(Foremost(after, rules')) = i
  BY <1>12, MinOfOne
<1> QED BY <1>4, <1>6, <1>7, <1>12, <1>13 DEF MatchRule, after

\* The order in which rules answer is stable, for every set of inputs and
\* every maximum: no step moves a rule among its equals, and a rule added to
\* the session takes no request away from one of the same or a higher priority
\* (R-13.10; orderRules and matchRule of matching.ts, addRule).
THEOREM OrderStaysStable == Spec => OrderIsStable
<1>1. ASSUME IInv, NEW input \in AddInputs, AddRule(input),
             NEW request \in Requests, MatchRule(request, rules) # NoRule,
             input.priority <= MatchRule(request, rules).priority
      PROVE  MatchRule(request, rules') = MatchRule(request, rules)
  <2>1. CASE UNCHANGED rules
    BY <2>1
  <2>2. CASE ~UNCHANGED rules
    <3>1. PICK id \in RuleIds : Insert(id, input)
      <4>1. input.id \in RuleIds \cup {Unset} /\ ruleNumber \in 0 .. MaxRuleNumber
        BY <1>1, RulesAssumption DEF IInv, TypeOK
      <4>2. CASE input.id # Unset
        BY <1>1, <2>2, <4>1, <4>2 DEF AddRule, Refuse
      <4>3. CASE input.id = Unset
        <5>1. ruleNumber + 1 \in 1 .. MaxRuleNumber
          BY <1>1, <4>1, <4>3, RulesAssumption DEF AddRule
        <5>2. <<"rule", ruleNumber + 1>> \in RuleIds
          BY <5>1, RulesAssumption
        <5> QED BY <1>1, <2>2, <4>3, <5>2 DEF AddRule, Refuse
      <4> QED BY <4>2, <4>3
    <3>2. rules' = Append(rules, NewRule(id, input, nextSequence))
      BY <2>2, <3>1 DEF Insert, Refuse
    <3>3. nextSequence <= MaxSequence
      BY <1>1 DEF AddRule
    <3> QED BY <1>1, <3>2, <3>3, AddedComesAfter
  <2> QED BY <2>1, <2>2
<1>2. IInv => [\A input \in AddInputs : AddRule(input) =>
                \A request \in Requests :
                  LET rule == MatchRule(request, rules) IN
                  rule # NoRule /\ input.priority <= rule.priority =>
                    MatchRule(request, rules') = rule]_vars
  BY <1>1
<1>3. Spec => []IInv
  BY InitInvariant, NextKeepsInvariant, PTL DEF Spec
<1>4. Spec => EarlierRuleKeepsAnswering
  BY <1>2, <1>3, PTL DEF EarlierRuleKeepsAnswering
<1> QED BY <1>4, RulesKeepTheirPlace, PTL DEF OrderIsStable
=============================================================================
