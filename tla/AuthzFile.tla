----------------------------- MODULE AuthzFile -----------------------------
(***************************************************************************)
(* The contents of authorization.json (internal/authzstore): applications, *)
(* authorization requests and grants, the validation every load and every  *)
(* save performs, and what each operation of the store makes of a file.    *)
(* Lists with unique ids are sets of records; normalizeFile only sorts     *)
(* them.  Times are instants of one clock, ttls are durations of it.       *)
(***************************************************************************)
EXTENDS Authz

CONSTANTS
  RequestID,  \* ids of authorization requests
  MinTTL,     \* one minute
  MaxTTL,     \* 24 hours
  Window,     \* how long a request waits for its decision (15 minutes)
  Applications,  \* the applications that somebody may try to add
  Subjects,      \* the humans, actors, permissions and ttls that new
  Actors,        \*   requests may name
  Permissions,
  TTLs

Application ==
  [id : AppID, actions : SUBSET ActionName, types : SUBSET ResourceType]

ASSUME TTLAssumption ==
  MinTTL \in Nat \ {0} /\ MaxTTL \in Nat /\ Window \in Nat \ {0}
ASSUME InputAssumption ==
  /\ Applications \subseteq Application
  /\ Subjects \subseteq Human /\ Actors \subseteq Actor
  /\ Permissions \subseteq Permission
  /\ TTLs \subseteq MinTTL..MaxTTL

Status == {"pending", "approved", "denied", "expired"}

AuthorizationRequest ==
  [id : RequestID, actor : Identity, subject : Identity, app : AppID,
   perm : Permission, task : TaskID \cup {NoTask}, ttl : Nat, status : Status,
   createdAt : Nat, expiresAt : Nat, decidedAt : Nat \cup {NoTime},
   grant : GrantID \cup {NoGrant}]

File ==
  [apps : SUBSET Application, requests : SUBSET AuthorizationRequest,
   grants : SUBSET Grant]

EmptyFile == [apps |-> {}, requests |-> {}, grants |-> {}]

(***************************************************************************)
(* validateFile                                                            *)
(***************************************************************************)
ValidApplication(a) == a.actions # {} /\ a.types # {}

ValidRequest(r) ==
  /\ r.actor \in Actor /\ r.subject \in Human
  /\ r.ttl \in MinTTL..MaxTTL
  /\ r.status \in Status
  /\ r.createdAt < r.expiresAt
  /\ r.status = "pending" <=> r.decidedAt = NoTime
  /\ r.status \in {"approved", "denied"} => r.decidedAt < r.expiresAt
  /\ r.status = "expired" => r.expiresAt <= r.decidedAt
  /\ r.status = "approved" <=> r.grant # NoGrant

UniqueIDs(records) == \A x, y \in records : x.id = y.id => x = y

Declared(f, app, perm) ==
  \E a \in f.apps : a.id = app /\ perm.action \in a.actions /\ perm.type \in a.types

Approved(f) == {r \in f.requests : r.status = "approved"}

\* "grant does not exactly represent approved request" and "lifetime does
\* not match approved request"
Represents(g, r) ==
  /\ g.perms = {r.perm}
  /\ g.subject = r.subject /\ g.grantee = r.actor
  /\ g.app = r.app /\ g.task = r.task
  /\ g.createdAt = r.decidedAt
  /\ g.expiresAt = r.decidedAt + r.ttl

ValidFile(f) ==
  /\ UniqueIDs(f.apps) /\ \A a \in f.apps : ValidApplication(a)
  /\ UniqueIDs(f.requests)
  /\ \A r \in f.requests : ValidRequest(r) /\ Declared(f, r.app, r.perm)
  /\ ValidGrantSet(f.grants)
  /\ \A g \in f.grants : \A p \in g.perms : Declared(f, g.app, p)
  /\ \A r \in Approved(f) : \E g \in f.grants : g.id = r.grant /\ Represents(g, r)
  /\ \A g \in f.grants : g.parent = NoGrant =>
       \E r \in Approved(f) : r.grant = g.id

(***************************************************************************)
(* The operations.  A call is a record; Accepts says whether the call      *)
(* reaches saveUnlocked on the file it loaded, Result is the file it then  *)
(* saves.  at is the time the caller sampled before it took the store's    *)
(* mutex.                                                                  *)
(***************************************************************************)
AddCall    == [kind : {"add"}, app : Application]
CreateCall == [kind : {"create"}, request : AuthorizationRequest]
DecideCall == [kind : {"approve", "deny"}, id : RequestID,
               grant : GrantID \cup {NoGrant}, at : Nat]
RevokeCall == [kind : {"revoke"}, id : GrantID, at : Nat]
Call == AddCall \cup CreateCall \cup DecideCall \cup RevokeCall

\* AddApplication
AcceptsAdd(f, op) == ValidApplication(op.app) /\ \A a \in f.apps : a.id # op.app.id

AddApplication(f, op) == [f EXCEPT !.apps = @ \cup {op.app}]

\* CreateRequest
AcceptsCreate(f, op) ==
  /\ ValidRequest(op.request)
  /\ Declared(f, op.request.app, op.request.perm)
  /\ \A r \in f.requests : r.id # op.request.id

CreateRequest(f, op) == [f EXCEPT !.requests = @ \cup {op.request}]

\* DecideRequest: an approval or a denial that comes at or after the expiry
\* of the request settles it as expired; the caller is told of an error, the
\* file is saved all the same.

\* Faulty variant: the instant of expiry still counts as in time.
VerdictAtExpiry(r, op) ==
  IF r.expiresAt < op.at THEN "expired"
  ELSE IF op.kind = "approve" THEN "approved" ELSE "denied"

Verdict(r, op) ==
  IF r.expiresAt <= op.at THEN "expired"
  ELSE IF op.kind = "approve" THEN "approved" ELSE "denied"

Settled(r, op) ==
  [r EXCEPT !.status = Verdict(r, op),
            !.decidedAt = op.at,
            !.grant = IF Verdict(r, op) = "approved" THEN op.grant ELSE NoGrant]

NewGrant(r, op) ==
  [id |-> op.grant, subject |-> r.subject, issuer |-> r.subject,
   grantee |-> r.actor, app |-> r.app, perms |-> {r.perm}, task |-> r.task,
   notBefore |-> op.at, expiresAt |-> op.at + r.ttl, revokedAt |-> NoTime,
   parent |-> NoGrant, createdAt |-> op.at]

\* Faulty variant: the status of the request is not looked at.
AcceptsDecideTwice(f, op) ==
  \E r \in f.requests :
    /\ r.id = op.id
    /\ Verdict(r, op) = "approved" =>
         /\ op.grant # NoGrant /\ ValidGrant(NewGrant(r, op))
         /\ \A g \in f.grants : g.id # op.grant

\* Faulty variant: the id of the new grant may be in use.
AcceptsDecideUsedID(f, op) ==
  \E r \in f.requests :
    /\ r.id = op.id /\ r.status = "pending"
    /\ Verdict(r, op) = "approved" => op.grant # NoGrant /\ ValidGrant(NewGrant(r, op))

AcceptsDecide(f, op) ==
  \E r \in f.requests :
    /\ r.id = op.id /\ r.status = "pending"
    /\ Verdict(r, op) = "approved" =>
         /\ op.grant # NoGrant /\ ValidGrant(NewGrant(r, op))
         /\ \A g \in f.grants : g.id # op.grant

DecideRequest(f, op) ==
  LET decided  == {r \in f.requests : r.id = op.id}
      approved == {r \in decided : Verdict(r, op) = "approved"}
  IN  [f EXCEPT !.requests = (@ \ decided) \cup {Settled(r, op) : r \in decided},
                !.grants = @ \cup {NewGrant(r, op) : r \in approved}]

\* RevokeGrant

\* Faulty variant: a second revocation is accepted and overwrites the first.
AcceptsRevokeTwice(f, op) == \E g \in f.grants : g.id = op.id

AcceptsRevoke(f, op) == \E g \in f.grants : g.id = op.id /\ g.revokedAt = NoTime

\* Faulty variant: the revocation is recorded at the end of the lifetime.
RevokeGrantAtExpiry(f, op) ==
  LET revoked == {g \in f.grants : g.id = op.id}
  IN  [f EXCEPT !.grants = (@ \ revoked)
                             \cup {[g EXCEPT !.revokedAt = g.expiresAt] : g \in revoked}]

RevokeGrant(f, op) ==
  LET revoked == {g \in f.grants : g.id = op.id}
  IN  [f EXCEPT !.grants = (@ \ revoked)
                             \cup {[g EXCEPT !.revokedAt = op.at] : g \in revoked}]

Accepts(f, op) ==
  \/ op.kind = "add" /\ AcceptsAdd(f, op)
  \/ op.kind = "create" /\ AcceptsCreate(f, op)
  \/ op.kind \in {"approve", "deny"} /\ AcceptsDecide(f, op)
  \/ op.kind = "revoke" /\ AcceptsRevoke(f, op)

Result(f, op) ==
  CASE op.kind = "add"                   -> AddApplication(f, op)
    [] op.kind = "create"                -> CreateRequest(f, op)
    [] op.kind \in {"approve", "deny"}   -> DecideRequest(f, op)
    [] op.kind = "revoke"                -> RevokeGrant(f, op)

(***************************************************************************)
(* The calls that callers make, with a time they sampled.  A decision or a *)
(* revocation names a record its caller has read in the file, so its time  *)
(* is not before that record's creation; a new request is stamped with the *)
(* approval window by authorizationRequests.                               *)
(***************************************************************************)
NewRequest(id, subject, actor, app, perm, task, ttl, at) ==
  [id |-> id, actor |-> actor, subject |-> subject, app |-> app, perm |-> perm,
   task |-> task, ttl |-> ttl, status |-> "pending", createdAt |-> at,
   expiresAt |-> at + Window, decidedAt |-> NoTime, grant |-> NoGrant]

AddCalls == {[kind |-> "add", app |-> a] : a \in Applications}

CreateCalls(at) ==
  {[kind |-> "create",
    request |-> NewRequest(id, subject, actor, app, perm, task, ttl, at)] :
      id \in RequestID, subject \in Subjects, actor \in Actors, app \in AppID,
      perm \in Permissions, task \in TaskID \cup {NoTask}, ttl \in TTLs}

ApproveCalls(f, at) ==
  {[kind |-> "approve", id |-> r.id, grant |-> grant, at |-> at] :
     r \in {x \in f.requests : x.createdAt <= at}, grant \in GrantID}

DenyCalls(f, at) ==
  {[kind |-> "deny", id |-> r.id, grant |-> NoGrant, at |-> at] :
     r \in {x \in f.requests : x.createdAt <= at}}

RevokeCalls(f, at) ==
  {[kind |-> "revoke", id |-> g.id, at |-> at] :
     g \in {x \in f.grants : x.createdAt <= at}}

Calls(f, at) ==
  AddCalls \cup CreateCalls(at) \cup ApproveCalls(f, at) \cup DenyCalls(f, at)
    \cup RevokeCalls(f, at)
=============================================================================
