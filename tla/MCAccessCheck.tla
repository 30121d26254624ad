---------------------------- MODULE MCAccessCheck --------------------------
(***************************************************************************)
(* AccessCheck with up to two requests to approve and revoke and a check   *)
(* that asks for what was requested, or asks it for another human.         *)
(***************************************************************************)
EXTENDS AccessCheck

Tracker == [id |-> "tracker", actions |-> {"read"}, types |-> {"issue"}]
MCApplications == {Tracker}
MCPermissions == {[action |-> "read", type |-> "issue", id |-> "r1"]}

Ask(subject) ==
  [actor |-> "a1", subject |-> subject, app |-> "tracker", action |-> "read",
   type |-> "issue", id |-> "r1", task |-> NoTask]

MCAsked == {Ask("human"), Ask("guest")}
=============================================================================
