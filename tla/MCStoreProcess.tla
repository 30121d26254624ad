--------------------------- MODULE MCStoreProcess --------------------------
(***************************************************************************)
(* StoreProcess with three threads, two that write and one that lists.     *)
(* OneWriter: two handlers of the server write, a command line process     *)
(* lists.  TwoWriters: a handler of the server and a command such as       *)
(* "authz revoke" write, another handler of the server lists.              *)
(***************************************************************************)
EXTENDS StoreProcess

Tracker == [id |-> "tracker", actions |-> {"read"}, types |-> {"issue"}]
MCApplications == {Tracker}
MCPermissions == {[action |-> "read", type |-> "issue", id |-> "r1"]}

OneWriter  == [t \in Thread |-> IF t \in Readers THEN "cli" ELSE "server"]
TwoWriters == [t \in Thread |-> IF t = "w2" THEN "cli" ELSE "server"]
=============================================================================
