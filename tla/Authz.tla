------------------------------- MODULE Authz -------------------------------
(***************************************************************************)
(* The authorization model of internal/authz: grants, the rules that make  *)
(* a set of grants acceptable, and the decision a set of grants gives a    *)
(* request.  Everything here is a pure operator; the loop that the code    *)
(* runs to reach the decision is the state machine of module Evaluator.    *)
(*                                                                         *)
(* Identities, names and ids are opaque values, except that grant ids are  *)
(* numbers: Evaluate looks at the grants in the order of their ids.        *)
(* A definition introduced as a faulty variant is the definition below it  *)
(* with one coding mistake; the mutants of PROJECT.json put it to use.     *)
(* Permissions are a set (a duplicate in the list is refused by the code). *)
(***************************************************************************)
EXTENDS Naturals, FiniteSets

CONSTANTS
  GrantID,       \* grant ids, ordered
  Human,         \* identities of type human
  Actor,         \* identities of type agent or workload
  AppID,         \* application ids
  ActionName,    \* action names
  ResourceType,  \* resource types
  ResourceID,    \* concrete resource ids
  TaskID,        \* task ids
  AllResources,  \* the selector id "*"
  NoGrant,       \* the empty grant id
  NoTask,        \* the empty task id
  NoTime         \* a nil *time.Time

ASSUME GrantIDsAssumption == GrantID \subseteq Nat /\ NoGrant \notin GrantID
ASSUME AbsentAssumption ==
  /\ AllResources \notin ResourceID
  /\ NoTask \notin TaskID
  /\ NoTime \notin Nat
  /\ Human \cap Actor = {}

Identity == Human \cup Actor

Permission ==
  [action : ActionName, type : ResourceType, id : ResourceID \cup {AllResources}]

Grant ==
  [id : GrantID, subject : Identity, issuer : Identity, grantee : Identity,
   app : AppID, perms : SUBSET Permission, task : TaskID \cup {NoTask},
   notBefore : Nat, expiresAt : Nat, revokedAt : Nat \cup {NoTime},
   parent : GrantID \cup {NoGrant}, createdAt : Nat]

Request ==
  [actor : Identity, subject : Identity, app : AppID, action : ActionName,
   type : ResourceType, id : ResourceID, task : TaskID \cup {NoTask}]

(***************************************************************************)
(* Permissions.  Contains and ContainsPermission have the same body: q is  *)
(* a request or a narrower permission.                                     *)
(***************************************************************************)
Covers(p, q) ==
  /\ p.action = q.action
  /\ p.type = q.type
  /\ p.id \in {AllResources, q.id}

Permits(g, request) == \E p \in g.perms : Covers(p, request)

(***************************************************************************)
(* What makes one grant, a pair of grants and a set of grants acceptable.  *)
(***************************************************************************)
ValidGrant(g) ==
  /\ g.perms # {}
  /\ g.parent = NoGrant => g.issuer = g.subject
  /\ g.createdAt <= g.notBefore
  /\ g.notBefore < g.expiresAt
  /\ g.revokedAt # NoTime => g.createdAt <= g.revokedAt

\* Faulty variant: the child's permissions are not compared with the parent's.
ValidDerivedGrantUnattenuated(child, parent) ==
  /\ ValidGrant(parent) /\ ValidGrant(child)
  /\ child.parent = parent.id
  /\ child.subject = parent.subject
  /\ child.issuer = parent.grantee
  /\ child.app = parent.app
  /\ parent.notBefore <= child.notBefore
  /\ parent.createdAt <= child.createdAt
  /\ child.expiresAt <= parent.expiresAt
  /\ parent.task \in {NoTask, child.task}

ValidDerivedGrant(child, parent) ==
  /\ ValidGrant(parent) /\ ValidGrant(child)
  /\ child.parent = parent.id
  /\ child.subject = parent.subject
  /\ child.issuer = parent.grantee
  /\ child.app = parent.app
  /\ parent.notBefore <= child.notBefore
  /\ parent.createdAt <= child.createdAt
  /\ child.expiresAt <= parent.expiresAt
  /\ parent.task \in {NoTask, child.task}
  /\ \A c \in child.perms : \E p \in parent.perms : Covers(p, c)

\* Faulty variant: the ancestry is not searched for cycles.
AcyclicUnchecked(grants) == TRUE

\* No walk from child to parent comes back to a grant it has seen: every
\* non-empty set of grants has a member whose parent is outside the set.
Acyclic(grants) ==
  \A S \in SUBSET grants :
    S # {} => \E g \in S : \A p \in S : p.id # g.parent

ValidGrantSet(grants) ==
  /\ \A g \in grants : ValidGrant(g)
  /\ \A g, h \in grants : g.id = h.id => g = h
  /\ \A g \in grants : g.parent # NoGrant =>
       \E p \in grants : p.id = g.parent /\ ValidDerivedGrant(g, p)
  /\ Acyclic(grants)

(***************************************************************************)
(* Activity of a grant and of its ancestors.                               *)
(***************************************************************************)
\* Faulty variant: a grant still counts at the instant of its revocation.
RevokedAfter(g, now) == g.revokedAt # NoTime /\ g.revokedAt < now

Revoked(g, now) == g.revokedAt # NoTime /\ g.revokedAt <= now

\* Faulty variant: the instant of expiry still counts.
ActiveAtExpiry(g, now) == ~Revoked(g, now) /\ now \in g.notBefore..g.expiresAt

ActiveAt(g, now) ==
  /\ ~Revoked(g, now)
  /\ g.notBefore <= now
  /\ now < g.expiresAt

InactiveReason(g, now) ==
  IF Revoked(g, now) THEN "grant_revoked"
  ELSE IF now < g.notBefore THEN "grant_not_yet_valid"
  ELSE "grant_expired"

\* g and its ancestors: the least set that holds g and the parents of its members.
Lineage(g, grants) ==
  LET UpClosed(S) == \A h \in S, p \in grants : p.id = h.parent => p \in S
  IN  {h \in grants : \A S \in SUBSET grants : g \in S /\ UpClosed(S) => h \in S}

\* Faulty variant: only the matching grant is looked at, not its ancestors.
LineageActiveSelfOnly(g, grants, now) == ActiveAt(g, now)

LineageActive(g, grants, now) == \A h \in Lineage(g, grants) : ActiveAt(h, now)

\* The inactive grant nearest to g on the way up to its root.
Blocker(g, grants, now) ==
  LET inactive(h) == {b \in Lineage(h, grants) : ~ActiveAt(b, now)}
  IN  CHOOSE b \in inactive(g) : inactive(g) \subseteq inactive(b)

(***************************************************************************)
(* The decision.                                                           *)
(***************************************************************************)
ReasonCode ==
  {"matching_grant", "no_matching_grant", "permission_not_granted", "task_mismatch",
   "grant_not_yet_valid", "grant_expired", "grant_revoked"}

Decision == [allowed : BOOLEAN, reason : ReasonCode, grants : SUBSET GrantID]

IDs(grants) == {g.id : g \in grants}
First(grants) == CHOOSE g \in grants : \A h \in grants : g.id <= h.id

Candidate(g, request) ==
  g.subject = request.subject /\ g.grantee = request.actor /\ g.app = request.app

TaskMatches(g, request) == g.task \in {NoTask, request.task}

AllowDecision(grants) ==
  [allowed |-> TRUE, reason |-> "matching_grant", grants |-> IDs(grants)]
DenyDecision(reason, ids) == [allowed |-> FALSE, reason |-> reason, grants |-> ids]

Evaluate(grants, request, now) ==
  LET candidates == {g \in grants : Candidate(g, request)}
      permitting == {g \in candidates : Permits(g, request)}
      inTask     == {g \in permitting : TaskMatches(g, request)}
      usable     == {g \in inTask : LineageActive(g, grants, now)}
      blocker    == Blocker(First(inTask), grants, now)
  IN  IF usable # {} THEN AllowDecision(Lineage(First(usable), grants))
      ELSE IF inTask # {} THEN DenyDecision(InactiveReason(blocker, now), {blocker.id})
      ELSE IF permitting # {} THEN DenyDecision("task_mismatch", {First(permitting).id})
      ELSE IF candidates # {} THEN DenyDecision("permission_not_granted", {})
      ELSE DenyDecision("no_matching_grant", {})
=============================================================================
