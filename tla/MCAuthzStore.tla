---------------------------- MODULE MCAuthzStore ---------------------------
(***************************************************************************)
(* AuthzStore with one application to add, requests for one resource or    *)
(* for all of them, bound to a task or not, and a window of two ticks, so  *)
(* that decisions come before, at and after the expiry of a request and    *)
(* grants run out.                                                         *)
(***************************************************************************)
EXTENDS AuthzStore, TLC

Tracker == [id |-> "tracker", actions |-> {"read"}, types |-> {"issue"}]

MCApplications == {Tracker}

MCPermissions ==
  {[action |-> "read", type |-> "issue", id |-> "r1"],
   [action |-> "read", type |-> "issue", id |-> AllResources],
   [action |-> "write", type |-> "issue", id |-> "r1"]}

RequestSymmetry == Permutations(RequestID)
=============================================================================
