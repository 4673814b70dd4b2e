---------------------------- MODULE RuleMatching ----------------------------
(***************************************************************************)
(* How a mock rule is chosen: packages/core/src/matching.ts.  A header name *)
(* is [lower, as]: its lower-case form and its spelling; the headers of a   *)
(* match are a sequence of <<name, value>> in the order they were written.  *)
(* A body matcher and what it accepts are left to BodyMatches.              *)
(***************************************************************************)
EXTENDS Integers, Sequences, FiniteSets, FiniteSetsExt

CONSTANTS BodyMatches(_, _),   \* does a body matcher accept a body?
          NoBody,              \* a match without a body matcher
          Absent               \* the value of a header that is not there

NoRule == [id |-> <<>>]

\* getHeader: the first field of that name, whatever its spelling.
GetHeader(fields, name) ==
  LET at == {i \in DOMAIN fields : fields[i].name.lower = name.lower}
  IN  IF at = {} THEN Absent ELSE fields[Min(at)].value

\* explainMatch returns null.
Satisfies(request, match) ==
  /\ match.operation \in {"*", request.operation}
  /\ \A i \in DOMAIN match.headers :
       GetHeader(request.headers, match.headers[i].name) = match.headers[i].value
  /\ match.body # NoBody => BodyMatches(match.body, request.body)

\* Mutant of CanonicalMatchKey: compares header names as they were spelled.
SpelledMatchKey(match) ==
  [operation |-> match.operation,
   headers   |-> {<<match.headers[i].name, 0, match.headers[i].value>> :
                    i \in DOMAIN match.headers},
   body      |-> match.body]

\* The headers sorted by lower-case name, entries of one name in the order
\* they were written: entry k of its name, for each entry.
CanonicalMatchKey(match) ==
  LET lower(i) == match.headers[i].name.lower
      rank(i) == Cardinality({j \in 1 .. i - 1 : lower(j) = lower(i)})
  IN  [operation |-> match.operation,
       headers   |-> {<<lower(i), rank(i), match.headers[i].value>> :
                        i \in DOMAIN match.headers},
       body      |-> match.body]

MatchesAreEquivalent(a, b) == CanonicalMatchKey(a) = CanonicalMatchKey(b)

\* The comparator of orderRules.
Before(a, b) ==
  \/ a.priority > b.priority
  \/ a.priority = b.priority /\ a.sequence < b.sequence

\* The enabled rules whose match the request satisfies.
Answering(request, rules) ==
  {i \in DOMAIN rules : rules[i].enabled /\ Satisfies(request, rules[i].match)}

\* Those of them that orderRules puts before the others: sorting leaves
\* equals in their order.
Foremost(at, rules) == {i \in at : \A j \in at : ~Before(rules[j], rules[i])}

\* The rule that answers.
MatchRule(request, rules) ==
  LET first == Foremost(Answering(request, rules), rules)
  IN  IF first = {} THEN NoRule ELSE rules[Min(first)]
=============================================================================
