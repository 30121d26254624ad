--------------------------- MODULE MCPolicyEngine --------------------------
(***************************************************************************)
(* Every set of at most four of seven rules, with denials above and below  *)
(* allowances in the tree, prefixes of equal length, a trailing slash, a   *)
(* denial that names scopes, and requests by two agents.                   *)
(***************************************************************************)
EXTENDS PolicyEngine, TLC

Rule(id, effect, methods, prefix, agent, scopes) ==
  [id |-> id, effect |-> effect, methods |-> methods, prefix |-> prefix,
   agent |-> agent, scopes |-> scopes]

Pool ==
  {Rule(1, "allow", {}, <<"admin", "users">>, AnyAgent, {"app.read"}),
   Rule(2, "deny", {"POST"}, <<"admin">>, AnyAgent, {}),
   Rule(3, "allow", {AnyMethod}, Root, AnyAgent, {"app.write"}),
   Rule(4, "deny", {}, <<"admin", "">>, "a1", {"app.write"}),
   Rule(5, "allow", {"GET"}, <<"admin">>, "a2", {}),
   Rule(6, "allow", {"GET", "POST"}, <<"hello">>, AnyAgent, {"app.read", "app.write"}),
   Rule(7, "allow", {"GET"}, <<"hello">>, AnyAgent, {"app.read"})}

MCRuleSets == {s \in SUBSET Pool : Cardinality(s) <= 4}
MCRequests ==
  [method : {"GET", "POST"}, agent : {"a1", "a2"},
   path : {<<"admin", "users">>, <<"admin">>, <<"administrator">>, <<"hello">>},
   scopes : {{"app.read"}, {"app.write"}}]
MCSegmentLength ==
  ("" :> 0) @@ ("admin" :> 5) @@ ("users" :> 5) @@ ("hello" :> 5) @@ ("administrator" :> 13)
=============================================================================
