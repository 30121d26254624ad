------------------------------ MODULE Commands ------------------------------
(***************************************************************************)
(* What the commands of cmd/anyauth do to the registries of a data         *)
(* directory: agents.json, clients.json, policies.json, user.json and      *)
(* delegations.json.  A registry is the set of its entries.                *)
(***************************************************************************)
CONSTANTS
  Name,         \* ids of agents, clients and policies
  DelegationID

Registry == {"agents", "clients", "policies", "user", "delegations"}

\* Of the profile only whether it has a PIN matters.
PIN == "pin"

Entries(registry) ==
  CASE registry = "user"        -> {PIN}
    [] registry = "delegations" -> [id : DelegationID, agent : Name, revoked : BOOLEAN]
    [] OTHER                    -> Name

\* clients add, agents add and policy add
AddCommand == [verb : {"add"}, registry : {"agents", "clients", "policies"}, name : Name]

\* agents remove and policy remove; no command removes a client.
RemoveCommand == [verb : {"remove"}, registry : {"agents", "policies"}, name : Name]

\* user set-pin and user clear-pin
PINCommand == [verb : {"set-pin", "clear-pin"}, registry : {"user"}]

\* delegate create and delegate revoke
DelegateCommand ==
       [verb : {"create"}, registry : {"delegations"}, id : DelegationID, agent : Name]
  \cup [verb : {"revoke"}, registry : {"delegations"}, id : DelegationID]

Command == AddCommand \cup RemoveCommand \cup PINCommand \cup DelegateCommand

\* Add refuses an id that exists, Remove and Revoke one that does not.  The id
\* of a new delegation is random.
Accepts(c, entries) ==
  CASE c.verb = "add"    -> c.name \notin entries
    [] c.verb = "remove" -> c.name \in entries
    [] c.verb = "create" -> \A r \in entries : r.id # c.id
    [] c.verb = "revoke" -> \E r \in entries : r.id = c.id
    [] OTHER             -> TRUE

\* A second revocation is accepted.
Result(c, entries) ==
  CASE c.verb = "add"       -> entries \cup {c.name}
    [] c.verb = "remove"    -> entries \ {c.name}
    [] c.verb = "set-pin"   -> {PIN}
    [] c.verb = "clear-pin" -> {}
    [] c.verb = "create"    -> entries \cup {[id |-> c.id, agent |-> c.agent, revoked |-> FALSE]}
    [] c.verb = "revoke"    ->
         {IF r.id = c.id THEN [r EXCEPT !.revoked = TRUE] ELSE r : r \in entries}
=============================================================================
