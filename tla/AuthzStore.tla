----------------------------- MODULE AuthzStore ----------------------------
(***************************************************************************)
(* What authzstore.Store promises: one file, changed by one operation at a *)
(* time, each operation all or nothing.  The time of an operation was      *)
(* sampled by its caller at or before now.  Module StoreProcess implements *)
(* this with threads, a mutex, a temporary file and a rename.              *)
(***************************************************************************)
EXTENDS AuthzFile

CONSTANT MaxTime  \* bound of the clock

ASSUME ClockAssumption == MaxTime \in Nat

VARIABLES
  file,  \* the contents of authorization.json
  now    \* the clock

vars == <<file, now>>

Save(op) ==
  /\ Accepts(file, op)
  /\ ValidFile(Result(file, op))
  /\ file' = Result(file, op)
  /\ UNCHANGED now

Add     == \E op \in AddCalls : Save(op)
Create  == \E at \in 0..now : \E op \in CreateCalls(at) : Save(op)
Approve == \E at \in 0..now : \E op \in ApproveCalls(file, at) : Save(op)
Deny    == \E at \in 0..now : \E op \in DenyCalls(file, at) : Save(op)
Revoke  == \E at \in 0..now : \E op \in RevokeCalls(file, at) : Save(op)

Tick ==
  /\ now < MaxTime
  /\ now' = now + 1
  /\ UNCHANGED file

Init == file = EmptyFile /\ now = 0

Next == Add \/ Create \/ Approve \/ Deny \/ Revoke \/ Tick

Spec == Init /\ [][Next]_vars

-----------------------------------------------------------------------------
(***************************************************************************)
(* Properties                                                              *)
(***************************************************************************)
\* The file has its type, and nothing in it was decided, granted or revoked
\* in the future: the clock has passed every time an operation recorded.
TypeOK ==
  /\ file \in File /\ now \in Nat
  /\ \A r \in file.requests :
       r.createdAt <= now /\ (r.decidedAt # NoTime => r.decidedAt \in r.createdAt..now)
  /\ \A g \in file.grants :
       g.createdAt <= now /\ (g.revokedAt # NoTime => g.revokedAt \in g.createdAt..now)

\* The validation in saveUnlocked refuses nothing: whatever an operation
\* lets through from the file as it stands is a file that loads again, so
\* no decision and no revocation is lost to "grant ... does not match".
NoSaveRefused ==
  \A at \in 0..now : \A op \in Calls(file, at) :
    Accepts(file, op) => ValidFile(Result(file, op))

\* The decision of authz.Evaluate on this file is the human's consent and
\* nothing else: a request is allowed exactly when the local human approved
\* a request of the same actor for the same application that covers it, for
\* this task or for any, the ttl counted from the approval has not run out
\* and the grant has not been revoked.
Consent(r, request) ==
  /\ r.status = "approved"
  /\ r.subject = request.subject /\ r.actor = request.actor
  /\ r.app = request.app /\ Covers(r.perm, request)
  /\ r.task \in {NoTask, request.task}
  /\ r.decidedAt <= now /\ now < r.decidedAt + r.ttl
  /\ \A g \in file.grants : g.id = r.grant => ~Revoked(g, now)

AllowIsConsent ==
  \A request \in Request :
    Evaluate(file.grants, request, now).allowed
      <=> \E r \in file.requests : Consent(r, request)

\* No grant serves two approvals: revoking it takes back one consent.
OneGrantPerApproval ==
  \A r, s \in Approved(file) : r.grant = s.grant => r = s

\* A request that was settled is never settled again, whatever tab or
\* command tries, and no request disappears.
DecisionsAreFinal ==
  [][\A r \in file.requests :
       \/ r \in file'.requests
       \/ r.status = "pending" /\ \E s \in file'.requests : s.id = r.id]_vars

\* A grant never disappears and never changes but by its one revocation, and
\* the time of a revocation stays what it was.
RevocationIsFinal ==
  [][\A g \in file.grants :
       \/ g \in file'.grants
       \/ /\ g.revokedAt = NoTime
          /\ \E t \in 0..now : [g EXCEPT !.revokedAt = t] \in file'.grants]_vars
=============================================================================
