-------------------------- MODULE MCProtectedProxy -------------------------
(***************************************************************************)
(* ProtectedProxy with one request, half-second instants, a lifetime that  *)
(* ends on a second or in the middle of one as the instant of the creation *)
(* has it, and a denial that is added and removed.                         *)
(***************************************************************************)
EXTENDS ProtectedProxy, TLC

MCRules ==
  {[id |-> 1, effect |-> "deny", methods |-> {"GET"}, prefix |-> <<"admin">>,
    agent |-> AnyAgent, scopes |-> {}]}

MCTargets == {[method |-> "GET", path |-> <<"admin", "users">>]}

MCScopeSets == {{"app.read"}}
MCSegmentLength == ("admin" :> 5) @@ ("users" :> 5)
=============================================================================
