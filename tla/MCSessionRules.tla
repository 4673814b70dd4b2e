--------------------------- MODULE MCSessionRules ---------------------------
(***************************************************************************)
(* Inputs for SessionRules: a match that asks for a header, the same match  *)
(* in another spelling, one that asks for a body as well, one for anything. *)
(***************************************************************************)
EXTENDS SessionRules

MCBodyMatches(matcher, body) == matcher = body

Name(as) == [lower |-> "x-user", as |-> as]
Field(as, value) == [name |-> Name(as), value |-> value]
MatchOf(operation, headers, body) ==
  [operation |-> operation, headers |-> headers, body |-> body]

Plain   == MatchOf("LOGIN", <<Field("X-User", "a")>>, NoBody)
Spelled == MatchOf("LOGIN", <<Field("x-user", "a")>>, NoBody)
Narrow  == MatchOf("LOGIN", <<Field("X-User", "a")>>, "b")
Broad   == MatchOf("*", <<>>, NoBody)

MCMatches == {Plain, Spelled, Narrow, Broad}

Headers == <<Field("X-USER", "a"), Field("X-User", "b")>>
Request(operation, headers, body) ==
  [operation |-> operation, headers |-> headers, body |-> body]
MCRequests ==
  {Request("LOGIN", Headers, "b"), Request("LOGIN", Headers, "c"),
   Request("LOGIN", <<>>, "b"), Request("OTHER", Headers, "b")}

MCRuleIds == {<<"mine", 0>>} \cup {<<"rule", n>> : n \in 1 .. MaxRuleNumber}

Input(id, name, enabled, priority, match) ==
  [id |-> id, name |-> name, enabled |-> enabled, priority |-> priority,
   match |-> match]

MCAddInputs ==
  {Input(Unset, "p", TRUE, 0, Plain), Input(Unset, "q", TRUE, 0, Spelled),
   Input(<<"rule", 2>>, "q", TRUE, 0, Broad),
   Input(<<"mine", 0>>, "r", TRUE, 1, Spelled),
   Input(<<"mine", 0>>, "p", FALSE, 0, Plain),
   Input(<<"mine", 0>>, "r", TRUE, 0, Narrow)}

MCPatches ==
  UNION {{Input(id, "p", Unset, Unset, Unset),
          Input(id, Unset, TRUE, Unset, Unset),
          Input(id, Unset, FALSE, Unset, Unset),
          Input(id, Unset, Unset, 0, Unset),
          Input(id, Unset, Unset, Unset, Spelled),
          Input(id, "r", TRUE, 0, Plain)} : id \in MCRuleIds}
=============================================================================
