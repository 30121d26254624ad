----------------------------- MODULE Evaluator -----------------------------
(***************************************************************************)
(* authz.Evaluate as the loop the code runs: validate the set of grants,   *)
(* then take the grants in the order of their ids; a grant that matches    *)
(* the request is tried by climbing from parent to parent until an         *)
(* inactive grant or the root is met.  One action is one iteration.        *)
(***************************************************************************)
EXTENDS Authz

CONSTANT Inputs   \* the calls: records [grants, request, now]

ASSUME InputsAssumption ==
  Inputs \subseteq [grants : SUBSET Grant, request : Request, now : Nat]

NoDecision == [allowed |-> FALSE, reason |-> "undecided", grants |-> {}]
Invalid    == [allowed |-> FALSE, reason |-> "error", grants |-> {}]
Unblocked  == [reason |-> "none", id |-> NoGrant]

VARIABLES
  input,       \* the call's arguments
  phase,       \* "validate", "scan", "climb" or "done"
  todo,        \* grants the scan has not looked at yet
  at,          \* the grant the climb has reached
  chain,       \* the grants the climb has found active
  candidate,   \* some grant matched actor, subject and application
  permission,  \* id of the first one that permits the request, or NoGrant
  inactive,    \* why, and at which grant, the first climb stopped
  decision

scanVars == <<todo, candidate, permission>>
vars == <<input, phase, todo, at, chain, candidate, permission, inactive, decision>>

grants  == input.grants
request == input.request
now     == input.now

Init ==
  /\ input \in Inputs
  /\ phase = "validate"
  /\ todo = input.grants
  /\ at = NoGrant
  /\ chain = {}
  /\ candidate = FALSE
  /\ permission = NoGrant
  /\ inactive = Unblocked
  /\ decision = NoDecision

Accept ==
  /\ phase = "validate"
  /\ ValidGrantSet(grants)
  /\ phase' = "scan"
  /\ UNCHANGED <<input, scanVars, at, chain, inactive, decision>>

Reject ==
  /\ phase = "validate"
  /\ ~ValidGrantSet(grants)
  /\ phase' = "done"
  /\ decision' = Invalid
  /\ UNCHANGED <<input, scanVars, at, chain, inactive>>

Scanning(g) == phase = "scan" /\ todo # {} /\ g = First(todo)

SkipOther(g) ==
  /\ Scanning(g)
  /\ ~Candidate(g, request)
  /\ todo' = todo \ {g}
  /\ UNCHANGED <<input, phase, at, chain, candidate, permission, inactive, decision>>

SkipPermission(g) ==
  /\ Scanning(g)
  /\ Candidate(g, request)
  /\ ~Permits(g, request)
  /\ candidate' = TRUE
  /\ todo' = todo \ {g}
  /\ UNCHANGED <<input, phase, at, chain, permission, inactive, decision>>

FirstPermission(g) == IF permission = NoGrant THEN g.id ELSE permission

SkipTask(g) ==
  /\ Scanning(g)
  /\ Candidate(g, request) /\ Permits(g, request)
  /\ ~TaskMatches(g, request)
  /\ candidate' = TRUE
  /\ permission' = FirstPermission(g)
  /\ todo' = todo \ {g}
  /\ UNCHANGED <<input, phase, at, chain, inactive, decision>>

StartClimb(g) ==
  /\ Scanning(g)
  /\ Candidate(g, request) /\ Permits(g, request) /\ TaskMatches(g, request)
  /\ candidate' = TRUE
  /\ permission' = FirstPermission(g)
  /\ todo' = todo \ {g}
  /\ phase' = "climb"
  /\ at' = g
  /\ chain' = {}
  /\ UNCHANGED <<input, inactive, decision>>

\* Faulty variant: a later stop overwrites the first one.
BlockedKeepingLast ==
  /\ phase = "climb"
  /\ ~ActiveAt(at, now)
  /\ phase' = "scan"
  /\ inactive' = [reason |-> InactiveReason(at, now), id |-> at.id]
  /\ UNCHANGED <<input, scanVars, at, chain, decision>>

\* Faulty variant: the parent of the inactive grant is named.
BlockedNamingParent ==
  /\ phase = "climb"
  /\ ~ActiveAt(at, now)
  /\ phase' = "scan"
  /\ inactive' = [reason |-> InactiveReason(at, now), id |-> at.parent]
  /\ UNCHANGED <<input, scanVars, at, chain, decision>>

\* The climb meets a grant that is revoked, not yet valid or expired; the
\* first such stop is the one the decision will name.
Blocked ==
  /\ phase = "climb"
  /\ ~ActiveAt(at, now)
  /\ phase' = "scan"
  /\ inactive' = IF inactive = Unblocked
                 THEN [reason |-> InactiveReason(at, now), id |-> at.id]
                 ELSE inactive
  /\ UNCHANGED <<input, scanVars, at, chain, decision>>

Climb ==
  /\ phase = "climb"
  /\ ActiveAt(at, now)
  /\ at.parent # NoGrant
  /\ chain' = chain \cup {at}
  /\ at' \in {p \in grants : p.id = at.parent}
  /\ UNCHANGED <<input, phase, scanVars, inactive, decision>>

ReachRoot ==
  /\ phase = "climb"
  /\ ActiveAt(at, now)
  /\ at.parent = NoGrant
  /\ phase' = "done"
  /\ chain' = chain \cup {at}
  /\ decision' = AllowDecision(chain')
  /\ UNCHANGED <<input, scanVars, at, inactive>>

\* Every grant was looked at and none allows the request.
Conclude ==
  /\ phase = "scan"
  /\ todo = {}
  /\ phase' = "done"
  /\ decision' =
       IF inactive # Unblocked THEN DenyDecision(inactive.reason, {inactive.id})
       ELSE IF permission # NoGrant THEN DenyDecision("task_mismatch", {permission})
       ELSE IF candidate THEN DenyDecision("permission_not_granted", {})
       ELSE DenyDecision("no_matching_grant", {})
  /\ UNCHANGED <<input, scanVars, at, chain, inactive>>

Scan(g) == SkipOther(g) \/ SkipPermission(g) \/ SkipTask(g) \/ StartClimb(g)

Next ==
  \/ Accept \/ Reject
  \/ \E g \in todo : Scan(g)
  \/ Blocked \/ Climb \/ ReachRoot
  \/ Conclude

\* The call runs to its end: nothing in the loop waits.
Spec == Init /\ [][Next]_vars /\ WF_vars(Next)

-----------------------------------------------------------------------------
(***************************************************************************)
(* Properties                                                              *)
(***************************************************************************)
Reasons == ReasonCode \cup {"undecided", "error"}

\* The variables have their types, and a climb is always at a grant of the call.
TypeOK ==
  /\ input \in Inputs
  /\ phase \in {"validate", "scan", "climb", "done"}
  /\ todo \subseteq grants /\ chain \subseteq grants
  /\ at \in grants \cup {NoGrant} /\ (phase = "climb" => at \in grants)
  /\ candidate \in BOOLEAN
  /\ permission \in GrantID \cup {NoGrant}
  /\ inactive \in {Unblocked} \cup [reason : Reasons, id : GrantID]
  /\ decision \in [allowed : BOOLEAN, reason : Reasons, grants : SUBSET GrantID]

\* The scan and its climbs reach the decision that the definition Evaluate
\* gives from the sets of matching grants and the least closed set of
\* ancestors: the same verdict, the same reason and the same grant ids.
DecisionIsReference ==
  phase = "done" =>
    decision = IF ValidGrantSet(grants) THEN Evaluate(grants, request, now) ELSE Invalid

\* An allow rests on a chain of which every grant, up to the root that the
\* human issued, is for this subject and application, contains the requested
\* action and resource, is not bound to another task, and is active now:
\* however long the chain, a derived grant never has more authority than its
\* ancestors.
GivesAuthority(g) ==
  /\ g.subject = request.subject /\ g.app = request.app
  /\ Permits(g, request) /\ TaskMatches(g, request) /\ ActiveAt(g, now)

AuthorityNeverBroadens ==
  decision.allowed =>
    /\ \A i \in decision.grants : \E g \in grants : g.id = i /\ GivesAuthority(g)
    /\ \E g \in grants : /\ g.id \in decision.grants
                         /\ g.issuer = request.subject /\ g.parent = NoGrant

\* Revoking any one grant of the file never turns a denial into an allow, and
\* an allow given after it does not rest on the revoked grant, be it the
\* matching grant or one of its ancestors.
RevokeNow(g) == (grants \ {g}) \cup {[g EXCEPT !.revokedAt = now]}

RevocationOnlyRemoves ==
  phase = "done" /\ decision # Invalid =>
    \A g \in {h \in grants : h.createdAt <= now} :
      LET after == Evaluate(RevokeNow(g), request, now)
      IN  after.allowed => decision.allowed /\ g.id \notin after.grants

\* Every call returns, whatever the parent links of the grants in the file.
Terminates == <>(phase = "done")
=============================================================================
