-------------------------- MODULE AccessCheckProofs ------------------------
(***************************************************************************)
(* Proofs about the store and about the evaluations beside it, for any     *)
(* sets of applications, requests, grants, permissions, ttls and checks.   *)
(*                                                                         *)
(* First AuthzStore: its type invariant, that a decision is the human's    *)
(* consent, that decisions and revocations are final, and that the         *)
(* validation of a save never refuses what an operation let through.  All  *)
(* of them rest on the inductive invariant StoreInv.                       *)
(*                                                                         *)
(* Then AccessCheck: its types, that an answer is in the audit log, that a *)
(* revocation which preceded the check is honoured by it, that an allow is *)
(* what the file allowed when it was listed and that a denial is no missed *)
(* approval.  Between the reads of one check the store takes any number of *)
(* steps; the argument is that a grant read earlier is still in the file   *)
(* later, the same but perhaps for its one revocation.                     *)
(***************************************************************************)
EXTENDS AccessCheck, AuthzFileProofs

(***************************************************************************)
(* The inductive invariant: the file has its type and its times are past,  *)
(* it is valid, and every grant in it came out of DecideRequest.           *)
(***************************************************************************)
StoreInv ==
  /\ TypeOK
  /\ ValidFile(file)
  /\ \A g \in file.grants : FromApproval(g)

\* A step of the store is a tick or one accepted call, with a sampled time.
LEMMA StepsAreCalls ==
  ASSUME now \in Nat, Next
  PROVE  Tick \/ \E at \in 0..now : \E op \in Calls(file, at) : Save(op)
<1>1. 0 \in 0..now
  OBVIOUS
<1>. QED
  BY <1>1 DEF Next, Add, Create, Approve, Deny, Revoke, Calls

LEMMA InvInit == Init => StoreInv
<1>. SUFFICES ASSUME Init PROVE StoreInv
  OBVIOUS
<1>1. TypeOK
  BY DEF Init, TypeOK, EmptyFile, File
<1>2. ValidFile(file)
  BY DEF Init, EmptyFile, ValidFile, UniqueIDs, ValidGrantSet, Acyclic, Approved
<1>. QED
  BY <1>1, <1>2 DEF StoreInv, Init, EmptyFile

LEMMA SaveKeepsTypes ==
  ASSUME StoreInv, NEW at \in 0..now, NEW op \in Calls(file, at), Save(op)
  PROVE  TypeOK'
<1>1. file \in File /\ at \in Nat /\ now \in Nat /\ at <= now
  BY DEF StoreInv, TypeOK
<1>2. op \in Call
  BY <1>1, CallTypes
<1>3. UniqueIDs(file.requests) /\ UniqueIDs(file.grants)
  BY ValidUnique DEF StoreInv
<1>4. Accepts(file, op) /\ file' = Result(file, op) /\ now' = now
  BY DEF Save
<1>5. file' \in File
  BY <1>1, <1>2, <1>3, <1>4, ResultTypes
<1>. DEFINE RequestTimes(r) ==
              r.createdAt <= now /\ (r.decidedAt # NoTime => r.decidedAt \in r.createdAt..now)
            GrantTimes(g) ==
              g.createdAt <= now /\ (g.revokedAt # NoTime => g.revokedAt \in g.createdAt..now)
<1>6. /\ \A r \in file.requests : RequestTimes(r)
      /\ \A g \in file.grants : GrantTimes(g)
  BY DEF StoreInv, TypeOK
<1>7. /\ \A r \in file'.requests : RequestTimes(r)
      /\ \A g \in file'.grants : GrantTimes(g)
  <2>1. CASE op.kind = "add"
    BY <2>1, <1>1, <1>2, <1>4, <1>6, AddShape
  <2>2. CASE op.kind = "create"
    <3>1. RequestTimes(op.request)
      BY <2>2, <1>1, <1>3, SampledLate
    <3>2. QED
      BY <2>2, <3>1, <1>1, <1>2, <1>4, <1>6, CreateShape
  <2>3. CASE op.kind \in {"approve", "deny"}
    <3>1. op \in DecideCall /\ op.at = at
      BY <2>3, <1>1, <1>2, <1>3, CallKinds, SampledLate
    <3>2. PICK r \in file.requests :
            /\ r.id = op.id
            /\ file'.requests = (file.requests \ {r}) \cup {Settled(r, op)}
            /\ \/ file'.grants = file.grants \cup {NewGrant(r, op)}
               \/ file'.grants = file.grants
      BY <2>3, <1>1, <1>2, <1>3, <1>4, DecideShape
    <3>3. r \in AuthorizationRequest /\ r.createdAt \in Nat /\ r.createdAt <= at
      BY <2>3, <3>2, <1>1, <1>3, SampledLate DEF File, AuthorizationRequest
    <3>4. RequestTimes(Settled(r, op))
      BY <3>1, <3>3, <1>1, SettledType
    <3>5. GrantTimes(NewGrant(r, op))
      BY <3>1, <1>1, NewGrantFields
    <3>6. QED
      BY <3>2, <3>4, <3>5, <1>6
  <2>4. CASE op.kind = "revoke"
    <3>1. op.at = at
      BY <2>4, <1>1, <1>3, SampledLate
    <3>2. PICK g \in file.grants :
            /\ g.id = op.id
            /\ file'.grants = (file.grants \ {g}) \cup {[g EXCEPT !.revokedAt = op.at]}
            /\ file'.requests = file.requests
      BY <2>4, <1>1, <1>2, <1>3, <1>4, RevokeShape
    <3>3. g \in Grant /\ g.createdAt \in Nat /\ g.createdAt <= at
      BY <2>4, <3>2, <1>1, <1>3, SampledLate DEF File, Grant
    <3>4. GrantTimes([g EXCEPT !.revokedAt = op.at])
      BY <3>1, <3>3, <1>1, RevokedFields
    <3>5. QED
      BY <3>2, <3>4, <1>6
  <2>5. QED
    BY <1>2, <2>1, <2>2, <2>3, <2>4, CallKinds
<1>. QED
  BY <1>1, <1>4, <1>5, <1>7 DEF TypeOK

LEMMA SaveKeepsOrigin ==
  ASSUME StoreInv, NEW at \in 0..now, NEW op \in Calls(file, at), Save(op)
  PROVE  \A g \in file'.grants : FromApproval(g)
<1>1. file \in File /\ at \in Nat /\ \A g \in file.grants : FromApproval(g)
  BY DEF StoreInv, TypeOK
<1>2. op \in Call
  BY <1>1, CallTypes
<1>3. UniqueIDs(file.requests) /\ UniqueIDs(file.grants)
  BY ValidUnique DEF StoreInv
<1>4. Accepts(file, op) /\ file' = Result(file, op)
  BY DEF Save
<1>5. CASE op.kind \in {"add", "create"}
  BY <1>1, <1>2, <1>4, <1>5, AddShape, CreateShape
<1>6. CASE op.kind \in {"approve", "deny"}
  BY <1>1, <1>2, <1>3, <1>4, <1>6, DecideShape, NewGrantFields
<1>7. CASE op.kind = "revoke"
  <2>1. op.at \in Nat
    BY <1>7, <1>2, CallKinds DEF RevokeCall
  <2>2. PICK g \in file.grants :
          file'.grants = (file.grants \ {g}) \cup {[g EXCEPT !.revokedAt = op.at]}
    BY <1>1, <1>2, <1>3, <1>4, <1>7, RevokeShape
  <2>3. g \in Grant
    BY <1>1 DEF File
  <2>4. FromApproval([g EXCEPT !.revokedAt = op.at])
    BY <1>1, <2>1, <2>3, RevokedFields
  <2>5. QED
    BY <1>1, <2>2, <2>4
<1>. QED
  BY <1>2, <1>5, <1>6, <1>7, CallKinds

LEMMA TickKeepsTypes ==
  ASSUME TypeOK, Tick
  PROVE  TypeOK'
<1>1. file' = file /\ now \in Nat /\ now' = now + 1 /\ file \in File
  BY DEF Tick, TypeOK
<1>2. \A r \in file.requests : r.createdAt \in Nat /\ (r.decidedAt # NoTime => r.decidedAt \in Nat)
  BY <1>1 DEF File, AuthorizationRequest
<1>3. \A g \in file.grants : g.createdAt \in Nat /\ (g.revokedAt # NoTime => g.revokedAt \in Nat)
  BY <1>1 DEF File, Grant
<1>. QED
  BY <1>1, <1>2, <1>3 DEF TypeOK

LEMMA InvStep == StoreInv /\ [Next]_vars => StoreInv'
<1>. SUFFICES ASSUME StoreInv, [Next]_vars PROVE StoreInv'
  OBVIOUS
<1>1. CASE Tick
  <2>1. TypeOK'
    BY <1>1, TickKeepsTypes DEF StoreInv
  <2>2. file' = file
    BY <1>1 DEF Tick
  <2>3. QED
    BY <2>1, <2>2 DEF StoreInv
<1>2. ASSUME NEW at \in 0..now, NEW op \in Calls(file, at), Save(op)
      PROVE  StoreInv'
  <2>1. TypeOK'
    BY <1>2, SaveKeepsTypes
  <2>2. ValidFile(file')
    BY <1>2 DEF Save
  <2>3. \A g \in file'.grants : FromApproval(g)
    BY <1>2, SaveKeepsOrigin
  <2>4. QED
    BY <2>1, <2>2, <2>3 DEF StoreInv
<1>3. CASE UNCHANGED vars
  <2>1. file' = file /\ now' = now
    BY <1>3 DEF vars
  <2>2. TypeOK'
    BY <2>1 DEF StoreInv, TypeOK
  <2>3. QED
    BY <2>1, <2>2 DEF StoreInv
<1>4. now \in Nat
  BY DEF StoreInv, TypeOK
<1>. QED
  BY <1>1, <1>2, <1>3, <1>4, StepsAreCalls

\* The file keeps its type and never holds a time that is still to come.
THEOREM StoreTypes == Spec => []TypeOK
<1>1. Init => StoreInv
  BY InvInit
<1>2. StoreInv /\ [Next]_vars => StoreInv'
  BY InvStep
<1>3. StoreInv => TypeOK
  BY DEF StoreInv
<1>. QED
  BY <1>1, <1>2, <1>3, PTL DEF Spec

(***************************************************************************)
(* One grant per approval                                                  *)
(***************************************************************************)
\* An accepted approval takes an id no grant has, and every approval of a
\* valid file has its grant in the file, so the two never meet.
LEMMA SaveKeepsOneGrant ==
  ASSUME StoreInv, OneGrantPerApproval,
         NEW at \in 0..now, NEW op \in Calls(file, at), Save(op)
  PROVE  OneGrantPerApproval'
<1>1. file \in File /\ at \in Nat
  BY DEF StoreInv, TypeOK
<1>2. op \in Call
  BY <1>1, CallTypes
<1>3. UniqueIDs(file.requests) /\ UniqueIDs(file.grants)
  BY ValidUnique DEF StoreInv
<1>4. Accepts(file, op) /\ file' = Result(file, op)
  BY DEF Save
<1>5. CASE op.kind \in {"add", "revoke"}
  <2>1. file'.requests = file.requests
    BY <1>1, <1>2, <1>3, <1>4, <1>5, AddShape, RevokeShape
  <2>2. QED
    BY <2>1 DEF OneGrantPerApproval, Approved
<1>6. CASE op.kind = "create"
  <2>1. op.request.status = "pending"
    BY <1>6 DEF Calls, AddCalls, CreateCalls, NewRequest, ApproveCalls, DenyCalls, RevokeCalls
  <2>2. file'.requests = file.requests \cup {op.request}
    BY <1>1, <1>2, <1>4, <1>6, CreateShape
  <2>3. Approved(file') = Approved(file)
    BY <2>1, <2>2 DEF Approved
  <2>4. QED
    BY <2>3 DEF OneGrantPerApproval
<1>7. CASE op.kind \in {"approve", "deny"}
  <2>1. op \in DecideCall
    BY <1>2, <1>7, CallKinds
  <2>2. PICK r \in file.requests :
          /\ r.status = "pending"
          /\ file'.requests = (file.requests \ {r}) \cup {Settled(r, op)}
          /\ Verdict(r, op) = "approved" => \A g \in file.grants : g.id # op.grant
    BY <1>1, <1>2, <1>3, <1>4, <1>7, DecideShape
  <2>3. r \in AuthorizationRequest /\ Settled(r, op).status = Verdict(r, op)
    BY <1>1, <2>1, <2>2, SettledType DEF File
  <2>4. Approved(file') \subseteq Approved(file) \cup {Settled(r, op)}
    BY <2>2 DEF Approved
  <2>5. \A s \in Approved(file) : \E g \in file.grants : g.id = s.grant
    BY DEF StoreInv, ValidFile
  <2>6. Settled(r, op) \in Approved(file') => Settled(r, op).grant = op.grant
    BY <2>3 DEF Approved, Settled, AuthorizationRequest
  <2>7. \A s \in Approved(file) :
          Settled(r, op) \in Approved(file') => s.grant # Settled(r, op).grant
    BY <2>2, <2>3, <2>5, <2>6 DEF Approved
  <2>8. QED
    BY <2>4, <2>7 DEF OneGrantPerApproval
<1>. QED
  BY <1>2, <1>5, <1>6, <1>7, CallKinds

LEMMA OneGrantStep ==
  StoreInv /\ OneGrantPerApproval /\ [Next]_vars => OneGrantPerApproval'
<1>. SUFFICES ASSUME StoreInv, OneGrantPerApproval, [Next]_vars
              PROVE  OneGrantPerApproval'
  OBVIOUS
<1>1. CASE Tick \/ UNCHANGED vars
  BY <1>1 DEF Tick, vars, OneGrantPerApproval, Approved
<1>2. ASSUME NEW at \in 0..now, NEW op \in Calls(file, at), Save(op)
      PROVE  OneGrantPerApproval'
  BY <1>2, SaveKeepsOneGrant
<1>3. now \in Nat
  BY DEF StoreInv, TypeOK
<1>. QED
  BY <1>1, <1>2, <1>3, StepsAreCalls

\* Two approvals never share a grant.
THEOREM OneGrant == Spec => []OneGrantPerApproval
<1>1. Init => StoreInv /\ OneGrantPerApproval
  BY InvInit DEF Init, EmptyFile, OneGrantPerApproval, Approved
<1>2. StoreInv /\ OneGrantPerApproval /\ [Next]_vars => (StoreInv /\ OneGrantPerApproval)'
  BY InvStep, OneGrantStep
<1>. QED
  BY <1>1, <1>2, PTL DEF Spec

(***************************************************************************)
(* An allow is the human's consent                                         *)
(***************************************************************************)
LEMMA InvConsent == StoreInv => AllowIsConsent
<1>. SUFFICES ASSUME StoreInv, NEW q \in Request
              PROVE  Evaluate(file.grants, q, now).allowed
                       <=> \E r \in file.requests : Consent(r, q)
  BY DEF AllowIsConsent
<1>1. file \in File /\ now \in Nat
  BY DEF StoreInv, TypeOK
<1>2. ValidFile(file) /\ \A g \in file.grants : FromApproval(g)
  BY DEF StoreInv
<1>3. \A g \in file.grants : Lineage(g, file.grants) = {g}
  BY <1>1, <1>2, RootLineage DEF File, FromApproval
<1>4. \A g \in file.grants : LineageActive(g, file.grants, now) <=> ActiveAt(g, now)
  BY <1>3 DEF LineageActive
<1>5. ASSUME NEW g \in file.grants, NEW r \in Approved(file), g.id = r.grant, Represents(g, r)
      PROVE  /\ Candidate(g, q) <=> r.subject = q.subject /\ r.actor = q.actor /\ r.app = q.app
             /\ Permits(g, q) <=> Covers(r.perm, q)
             /\ TaskMatches(g, q) <=> r.task \in {NoTask, q.task}
             /\ ActiveAt(g, now) <=> /\ r.decidedAt <= now /\ now < r.decidedAt + r.ttl
                                    /\ ~Revoked(g, now)
             /\ (\A h \in file.grants : h.id = r.grant => ~Revoked(h, now)) <=> ~Revoked(g, now)
  <2>1. Candidate(g, q) <=> r.subject = q.subject /\ r.actor = q.actor /\ r.app = q.app
    BY <1>5 DEF Represents, Candidate
  <2>2. Permits(g, q) <=> Covers(r.perm, q)
    BY <1>5 DEF Represents, Permits
  <2>3. TaskMatches(g, q) <=> r.task \in {NoTask, q.task}
    BY <1>5 DEF Represents, TaskMatches
  <2>4. g.notBefore = r.decidedAt /\ g.expiresAt = r.decidedAt + r.ttl
    BY <1>2, <1>5 DEF Represents, FromApproval
  <2>5. ActiveAt(g, now) <=> /\ r.decidedAt <= now /\ now < r.decidedAt + r.ttl
                             /\ ~Revoked(g, now)
    BY <2>4 DEF ActiveAt
  <2>6. \A h \in file.grants : h.id = r.grant => h = g
    BY <1>2, <1>5 DEF ValidFile, ValidGrantSet
  <2>7. (\A h \in file.grants : h.id = r.grant => ~Revoked(h, now)) <=> ~Revoked(g, now)
    BY <1>5, <2>6
  <2>8. QED
    BY <2>1, <2>2, <2>3, <2>5, <2>7
<1>6. ASSUME NEW g \in file.grants, Candidate(g, q), Permits(g, q), TaskMatches(g, q),
             ActiveAt(g, now)
      PROVE  \E r \in file.requests : Consent(r, q)
  <2>1. PICK r \in Approved(file) : r.grant = g.id
    BY <1>2 DEF ValidFile, FromApproval
  <2>2. Represents(g, r)
    BY <1>2, <2>1 DEF ValidFile, ValidGrantSet
  <2>3. QED
    BY <1>5, <1>6, <2>1, <2>2 DEF Consent, Approved
<1>7. ASSUME NEW r \in file.requests, Consent(r, q)
      PROVE  \E g \in file.grants : /\ Candidate(g, q) /\ Permits(g, q) /\ TaskMatches(g, q)
                                    /\ ActiveAt(g, now)
  <2>1. r \in Approved(file)
    BY <1>7 DEF Consent, Approved
  <2>2. PICK g \in file.grants : g.id = r.grant /\ Represents(g, r)
    BY <1>2, <2>1 DEF ValidFile
  <2>3. QED
    BY <1>5, <1>7, <2>1, <2>2 DEF Consent
<1>. QED
  BY <1>4, <1>6, <1>7, AllowedIffUsable

\* What Evaluate allows on the file is what the human approved, no more and
\* no less, at every time.
THEOREM AllowEqualsConsent == Spec => []AllowIsConsent
<1>1. Init => StoreInv
  BY InvInit
<1>2. StoreInv /\ [Next]_vars => StoreInv'
  BY InvStep
<1>3. StoreInv => AllowIsConsent
  BY InvConsent
<1>. QED
  BY <1>1, <1>2, <1>3, PTL DEF Spec

(***************************************************************************)
(* Decisions and revocations are final                                     *)
(***************************************************************************)
\* What one saved call does to a request and to a grant of the file.
LEMMA SaveSettlesPending ==
  ASSUME StoreInv, NEW at \in 0..now, NEW op \in Calls(file, at), Save(op),
         NEW r \in file.requests
  PROVE  \/ r \in file'.requests
         \/ r.status = "pending" /\ \E s \in file'.requests : s.id = r.id
<1>1. file \in File /\ at \in Nat
  BY DEF StoreInv, TypeOK
<1>2. op \in Call
  BY <1>1, CallTypes
<1>3. UniqueIDs(file.requests) /\ UniqueIDs(file.grants)
  BY ValidUnique DEF StoreInv
<1>4. Accepts(file, op) /\ file' = Result(file, op)
  BY DEF Save
<1>5. CASE op.kind \in {"add", "create", "revoke"}
  BY <1>1, <1>2, <1>3, <1>4, <1>5, AddShape, CreateShape, RevokeShape
<1>6. CASE op.kind \in {"approve", "deny"}
  <2>1. op \in DecideCall
    BY <1>2, <1>6, CallKinds
  <2>2. PICK x \in file.requests :
          /\ x.status = "pending"
          /\ file'.requests = (file.requests \ {x}) \cup {Settled(x, op)}
    BY <1>1, <1>2, <1>3, <1>4, <1>6, DecideShape
  <2>3. Settled(x, op).id = x.id
    BY <1>1, <2>1, <2>2, SettledType DEF File
  <2>4. QED
    BY <2>2, <2>3
<1>. QED
  BY <1>2, <1>5, <1>6, CallKinds

LEMMA SaveRevokesOnce ==
  ASSUME StoreInv, NEW at \in 0..now, NEW op \in Calls(file, at), Save(op),
         NEW g \in file.grants
  PROVE  \/ g \in file'.grants
         \/ /\ g.revokedAt = NoTime
            /\ \E t \in 0..now : [g EXCEPT !.revokedAt = t] \in file'.grants
<1>1. file \in File /\ at \in Nat
  BY DEF StoreInv, TypeOK
<1>2. op \in Call
  BY <1>1, CallTypes
<1>3. UniqueIDs(file.requests) /\ UniqueIDs(file.grants)
  BY ValidUnique DEF StoreInv
<1>4. Accepts(file, op) /\ file' = Result(file, op)
  BY DEF Save
<1>5. CASE op.kind \in {"add", "create", "approve", "deny"}
  BY <1>1, <1>2, <1>3, <1>4, <1>5, AddShape, CreateShape, DecideShape
<1>6. CASE op.kind = "revoke"
  <2>1. op.at = at
    BY <1>1, <1>3, <1>6, SampledLate
  <2>2. PICK h \in file.grants :
          /\ h.revokedAt = NoTime
          /\ file'.grants = (file.grants \ {h}) \cup {[h EXCEPT !.revokedAt = op.at]}
    BY <1>1, <1>2, <1>3, <1>4, <1>6, RevokeShape
  <2>3. CASE g = h
    BY <2>1, <2>2, <2>3
  <2>4. CASE g # h
    BY <2>2, <2>4
  <2>5. QED
    BY <2>3, <2>4
<1>. QED
  BY <1>2, <1>5, <1>6, CallKinds

\* A settled request stays as it was settled, and no request disappears.
THEOREM DecisionsFinal == Spec => DecisionsAreFinal
<1>1. Init => StoreInv
  BY InvInit
<1>2. StoreInv /\ [Next]_vars => StoreInv'
  BY InvStep
<1>3. StoreInv /\ [Next]_vars =>
        [\A r \in file.requests :
           \/ r \in file'.requests
           \/ r.status = "pending" /\ \E s \in file'.requests : s.id = r.id]_vars
  <2>. SUFFICES ASSUME StoreInv, Next, NEW r \in file.requests
                PROVE  \/ r \in file'.requests
                       \/ r.status = "pending" /\ \E s \in file'.requests : s.id = r.id
    OBVIOUS
  <2>1. CASE Tick
    BY <2>1 DEF Tick
  <2>2. now \in Nat
    BY DEF StoreInv, TypeOK
  <2>3. QED
    BY <2>1, <2>2, StepsAreCalls, SaveSettlesPending
<1>. QED
  BY <1>1, <1>2, <1>3, PTL DEF Spec, DecisionsAreFinal

\* A grant is changed by its one revocation and by nothing else.
THEOREM RevocationsFinal == Spec => RevocationIsFinal
<1>1. Init => StoreInv
  BY InvInit
<1>2. StoreInv /\ [Next]_vars => StoreInv'
  BY InvStep
<1>3. StoreInv /\ [Next]_vars =>
        [\A g \in file.grants :
           \/ g \in file'.grants
           \/ /\ g.revokedAt = NoTime
              /\ \E t \in 0..now : [g EXCEPT !.revokedAt = t] \in file'.grants]_vars
  <2>. SUFFICES ASSUME StoreInv, Next, NEW g \in file.grants
                PROVE  \/ g \in file'.grants
                       \/ /\ g.revokedAt = NoTime
                          /\ \E t \in 0..now : [g EXCEPT !.revokedAt = t] \in file'.grants
    OBVIOUS
  <2>1. CASE Tick
    BY <2>1 DEF Tick
  <2>2. now \in Nat
    BY DEF StoreInv, TypeOK
  <2>3. QED
    BY <2>1, <2>2, StepsAreCalls, SaveRevokesOnce
<1>. QED
  BY <1>1, <1>2, <1>3, PTL DEF Spec, RevocationIsFinal

(***************************************************************************)
(* The validation of a save refuses nothing                                *)
(***************************************************************************)
\* Grants without parents are acyclic, and a valid set when each is valid.
LEMMA RootsAreValid ==
  ASSUME NEW gs \in SUBSET Grant, UniqueIDs(gs),
         \A g \in gs : g.parent = NoGrant /\ ValidGrant(g)
  PROVE  ValidGrantSet(gs)
<1>1. \A g, p \in gs : p.id # g.parent
  BY GrantIDsAssumption DEF Grant
<1>2. Acyclic(gs)
  BY <1>1 DEF Acyclic
<1>. QED
  BY <1>2 DEF ValidGrantSet, UniqueIDs

LEMMA SettledIsValid ==
  ASSUME NEW r \in AuthorizationRequest, NEW op \in DecideCall,
         ValidRequest(r), r.status = "pending",
         Verdict(r, op) = "approved" => op.grant # NoGrant
  PROVE  /\ ValidRequest(Settled(r, op))
         /\ Settled(r, op).app = r.app /\ Settled(r, op).perm = r.perm
         /\ Settled(r, op).id = r.id /\ Settled(r, op).status = Verdict(r, op)
<1>. DEFINE s == Settled(r, op)
<1>1. op.at \in Nat /\ op.at # NoTime /\ r.expiresAt \in Nat
  BY AbsentAssumption DEF DecideCall, AuthorizationRequest
<1>2. /\ s.id = r.id /\ s.actor = r.actor /\ s.subject = r.subject /\ s.app = r.app
      /\ s.perm = r.perm /\ s.ttl = r.ttl /\ s.createdAt = r.createdAt
      /\ s.expiresAt = r.expiresAt /\ s.decidedAt = op.at /\ s.status = Verdict(r, op)
  BY DEF Settled, AuthorizationRequest
<1>3. s.grant = IF Verdict(r, op) = "approved" THEN op.grant ELSE NoGrant
  BY DEF Settled, AuthorizationRequest
<1>4. CASE r.expiresAt <= op.at
  <2>1. s.status = "expired" /\ s.grant = NoGrant
    BY <1>2, <1>3, <1>4 DEF Verdict
  <2>2. ValidRequest(s)
    <3>. HIDE DEF s
    <3>. QED
      BY <1>1, <1>2, <1>4, <2>1 DEF ValidRequest, Status
  <2>3. QED
    BY <1>2, <2>2
<1>5. CASE ~(r.expiresAt <= op.at)
  <2>1. /\ s.status \in {"approved", "denied"} /\ op.at < r.expiresAt
        /\ s.status = "approved" <=> s.grant # NoGrant
    BY <1>1, <1>2, <1>3, <1>5 DEF Verdict
  <2>2. ValidRequest(s)
    <3>. HIDE DEF s
    <3>. QED
      BY <1>1, <1>2, <2>1 DEF ValidRequest, Status
  <2>3. QED
    BY <1>2, <2>2
<1>. QED
  BY <1>4, <1>5

LEMMA NewGrantRepresents ==
  ASSUME NEW r \in AuthorizationRequest, NEW op \in DecideCall, Verdict(r, op) = "approved"
  PROVE  /\ Represents(NewGrant(r, op), Settled(r, op))
         /\ Settled(r, op).grant = NewGrant(r, op).id
         /\ NewGrant(r, op).app = r.app /\ NewGrant(r, op).perms = {r.perm}
<1>1. Settled(r, op).decidedAt = op.at /\ Settled(r, op).grant = op.grant
  BY DEF Settled, AuthorizationRequest
<1>2. /\ Settled(r, op).actor = r.actor /\ Settled(r, op).subject = r.subject
      /\ Settled(r, op).app = r.app /\ Settled(r, op).perm = r.perm
      /\ Settled(r, op).task = r.task /\ Settled(r, op).ttl = r.ttl
  BY DEF Settled, AuthorizationRequest
<1>. QED
  BY <1>1, <1>2 DEF Represents, NewGrant

LEMMA RevokedIsValid ==
  ASSUME NEW g \in Grant, NEW t \in Nat, ValidGrant(g), g.createdAt <= t
  PROVE  LET h == [g EXCEPT !.revokedAt = t]
         IN  /\ ValidGrant(h)
             /\ h.id = g.id /\ h.parent = g.parent /\ h.app = g.app /\ h.perms = g.perms
             /\ \A r : Represents(g, r) => Represents(h, r)
<1>. DEFINE h == [g EXCEPT !.revokedAt = t]
<1>1. /\ h.id = g.id /\ h.parent = g.parent /\ h.app = g.app /\ h.perms = g.perms
      /\ h.subject = g.subject /\ h.issuer = g.issuer /\ h.grantee = g.grantee
      /\ h.task = g.task /\ h.createdAt = g.createdAt /\ h.notBefore = g.notBefore
      /\ h.expiresAt = g.expiresAt /\ h.revokedAt = t
  BY DEF Grant
<1>. HIDE DEF h
<1>2. ValidGrant(h)
  BY <1>1 DEF ValidGrant
<1>3. \A r : Represents(g, r) => Represents(h, r)
  BY <1>1 DEF Represents
<1>4. QED
  BY <1>1, <1>2, <1>3 DEF h

\* The conjuncts of ValidFile for a file of grants that come from approvals.
LEMMA ValidFromParts ==
  ASSUME NEW f \in File, UniqueIDs(f.apps), UniqueIDs(f.requests), UniqueIDs(f.grants),
         \A a \in f.apps : ValidApplication(a),
         \A r \in f.requests : ValidRequest(r) /\ Declared(f, r.app, r.perm),
         \A g \in f.grants : g.parent = NoGrant /\ ValidGrant(g),
         \A g \in f.grants : \A p \in g.perms : Declared(f, g.app, p),
         \A r \in Approved(f) : \E g \in f.grants : g.id = r.grant /\ Represents(g, r),
         \A g \in f.grants : \E r \in Approved(f) : r.grant = g.id
  PROVE  ValidFile(f)
<1>1. ValidGrantSet(f.grants)
  BY RootsAreValid DEF File
<1>. QED
  BY <1>1 DEF ValidFile

LEMMA AddIsValid ==
  ASSUME StoreInv, NEW op \in Call, Accepts(file, op), op.kind = "add"
  PROVE  ValidFile(Result(file, op))
<1>. DEFINE f == Result(file, op)
<1>1. file \in File /\ ValidFile(file) /\ \A g \in file.grants : FromApproval(g)
  BY DEF StoreInv, TypeOK
<1>2. UniqueIDs(file.apps) /\ UniqueIDs(file.requests) /\ UniqueIDs(file.grants)
  BY <1>1, ValidUnique
<1>3. /\ f \in File
      /\ f.apps = file.apps \cup {op.app} /\ f.requests = file.requests
      /\ f.grants = file.grants
  BY <1>1, <1>2, ResultTypes, AddShape
<1>. HIDE DEF f
<1>4. ValidApplication(op.app) /\ \A a \in file.apps : a.id # op.app.id
  BY DEF Accepts, AcceptsAdd
<1>5. \A app, perm : Declared(file, app, perm) => Declared(f, app, perm)
  BY <1>3 DEF Declared
<1>6. UniqueIDs(f.apps)
  BY <1>2, <1>3, <1>4 DEF UniqueIDs
<1>7. \A a \in f.apps : ValidApplication(a)
  BY <1>1, <1>3, <1>4 DEF ValidFile
<1>8. ValidFile(f)
  BY <1>1, <1>2, <1>3, <1>5, <1>6, <1>7 DEF ValidFile, Approved
<1>. QED
  BY <1>8 DEF f

LEMMA CreateIsValid ==
  ASSUME StoreInv, NEW at \in 0..now, NEW op \in Calls(file, at), Accepts(file, op),
         op.kind = "create"
  PROVE  ValidFile(Result(file, op))
<1>. DEFINE f == Result(file, op)
<1>1. file \in File /\ at \in Nat /\ ValidFile(file)
  BY DEF StoreInv, TypeOK
<1>2. UniqueIDs(file.requests) /\ op \in Call
  BY <1>1, ValidUnique, CallTypes
<1>3. /\ f.apps = file.apps /\ f.requests = file.requests \cup {op.request}
      /\ f.grants = file.grants /\ \A r \in file.requests : r.id # op.request.id
  BY <1>1, <1>2, CreateShape
<1>. HIDE DEF f
<1>4. op.request.status = "pending"
  BY DEF Calls, AddCalls, CreateCalls, NewRequest, ApproveCalls, DenyCalls, RevokeCalls
<1>5. ValidRequest(op.request) /\ Declared(file, op.request.app, op.request.perm)
  BY DEF Accepts, AcceptsCreate
<1>6. Approved(f) = Approved(file)
  BY <1>3, <1>4 DEF Approved
<1>7. \A app, perm : Declared(file, app, perm) <=> Declared(f, app, perm)
  BY <1>3 DEF Declared
<1>8. UniqueIDs(f.requests)
  BY <1>2, <1>3 DEF UniqueIDs
<1>9. ValidFile(f)
  BY <1>1, <1>3, <1>5, <1>6, <1>7, <1>8 DEF ValidFile
<1>. QED
  BY <1>9 DEF f

LEMMA DecideIsValid ==
  ASSUME StoreInv, NEW op \in Call, Accepts(file, op), op.kind \in {"approve", "deny"}
  PROVE  ValidFile(Result(file, op))
<1>. DEFINE f == Result(file, op)
<1>1. file \in File /\ ValidFile(file) /\ \A g \in file.grants : FromApproval(g)
  BY DEF StoreInv, TypeOK
<1>2. UniqueIDs(file.apps) /\ UniqueIDs(file.requests) /\ UniqueIDs(file.grants)
  BY <1>1, ValidUnique
<1>3. op \in DecideCall /\ f \in File
  BY <1>1, <1>2, CallKinds, ResultTypes
<1>4. PICK r \in file.requests :
        /\ r.id = op.id /\ r.status = "pending"
        /\ f.requests = (file.requests \ {r}) \cup {Settled(r, op)}
        /\ f.apps = file.apps
        /\ \/ /\ Verdict(r, op) = "approved"
              /\ op.grant # NoGrant /\ \A g \in file.grants : g.id # op.grant
              /\ f.grants = file.grants \cup {NewGrant(r, op)}
           \/ /\ Verdict(r, op) # "approved"
              /\ f.grants = file.grants
  BY <1>1, <1>2, DecideShape
<1>. HIDE DEF f
<1>. DEFINE s == Settled(r, op)
            n == NewGrant(r, op)
<1>5. r \in AuthorizationRequest /\ ValidRequest(r) /\ Declared(file, r.app, r.perm)
  BY <1>1 DEF File, ValidFile
<1>6. /\ ValidRequest(s) /\ s.app = r.app /\ s.perm = r.perm /\ s.id = r.id
      /\ s.status = Verdict(r, op)
  BY <1>3, <1>4, <1>5, SettledIsValid
<1>7. Verdict(r, op) = "approved" => ValidGrant(n)
  BY <1>2, <1>4 DEF Accepts, AcceptsDecide, UniqueIDs
<1>8. n.id = op.grant /\ FromApproval(n)
  BY NewGrantFields
<1>9. Verdict(r, op) = "approved" =>
        Represents(n, s) /\ s.grant = n.id /\ n.app = r.app /\ n.perms = {r.perm}
  BY <1>3, <1>5, NewGrantRepresents
<1>. HIDE DEF s, n
<1>10. \A app, perm : Declared(file, app, perm) <=> Declared(f, app, perm)
  BY <1>4 DEF Declared
<1>11. UniqueIDs(f.requests)
  BY <1>2, <1>4, <1>6 DEF UniqueIDs, s
<1>12. UniqueIDs(f.grants)
  BY <1>2, <1>4, <1>8 DEF UniqueIDs, n
<1>13. \A x \in f.requests : ValidRequest(x) /\ Declared(f, x.app, x.perm)
  BY <1>1, <1>4, <1>5, <1>6, <1>10 DEF ValidFile, s
<1>14. \A g \in f.grants : g.parent = NoGrant /\ ValidGrant(g)
  BY <1>1, <1>4, <1>7, <1>8 DEF ValidFile, ValidGrantSet, FromApproval, n
<1>15. \A g \in f.grants : \A p \in g.perms : Declared(f, g.app, p)
  BY <1>1, <1>4, <1>5, <1>9, <1>10 DEF ValidFile, n
<1>16. \/ Verdict(r, op) = "approved" /\ Approved(f) = Approved(file) \cup {s}
       \/ Verdict(r, op) # "approved" /\ Approved(f) = Approved(file)
  BY <1>4, <1>6 DEF Approved, s
<1>17. \A x \in Approved(f) : \E g \in f.grants : g.id = x.grant /\ Represents(g, x)
  BY <1>1, <1>4, <1>9, <1>16 DEF ValidFile, n
<1>18. \A g \in f.grants : \E x \in Approved(f) : x.grant = g.id
  BY <1>1, <1>4, <1>9, <1>16 DEF ValidFile, FromApproval, n
<1>19. /\ UniqueIDs(f.apps) /\ \A a \in f.apps : ValidApplication(a)
  BY <1>1, <1>2, <1>4 DEF ValidFile
<1>20. ValidFile(f)
  BY <1>3, <1>11, <1>12, <1>13, <1>14, <1>15, <1>17, <1>18, <1>19, ValidFromParts
<1>. QED
  BY <1>20 DEF f

LEMMA RevokeIsValid ==
  ASSUME StoreInv, NEW at \in 0..now, NEW op \in Calls(file, at), Accepts(file, op),
         op.kind = "revoke"
  PROVE  ValidFile(Result(file, op))
<1>. DEFINE f == Result(file, op)
<1>1. /\ file \in File /\ at \in Nat /\ ValidFile(file)
      /\ \A g \in file.grants : FromApproval(g)
  BY DEF StoreInv, TypeOK
<1>2. UniqueIDs(file.apps) /\ UniqueIDs(file.requests) /\ UniqueIDs(file.grants)
  BY <1>1, ValidUnique
<1>3. op \in Call /\ op.at = at /\ \A g \in file.grants : g.id = op.id => g.createdAt <= at
  BY <1>1, <1>2, CallTypes, SampledLate
<1>4. f \in File
  BY <1>1, <1>2, <1>3, ResultTypes
<1>5. PICK g \in file.grants :
        /\ g.id = op.id
        /\ f.grants = (file.grants \ {g}) \cup {[g EXCEPT !.revokedAt = op.at]}
        /\ f.apps = file.apps /\ f.requests = file.requests
  BY <1>1, <1>2, <1>3, RevokeShape
<1>. HIDE DEF f
<1>. DEFINE h == [g EXCEPT !.revokedAt = op.at]
<1>6. g \in Grant /\ ValidGrant(g) /\ g.createdAt <= at
  BY <1>1, <1>3, <1>5 DEF File, ValidFile, ValidGrantSet
<1>7. /\ ValidGrant(h) /\ h.id = g.id /\ h.parent = g.parent /\ h.app = g.app
      /\ h.perms = g.perms /\ \A r : Represents(g, r) => Represents(h, r)
  BY <1>1, <1>3, <1>6, RevokedIsValid
<1>8. f.grants = (file.grants \ {g}) \cup {h}
  BY <1>5
<1>. HIDE DEF h
<1>9. \A app, perm : Declared(file, app, perm) <=> Declared(f, app, perm)
  BY <1>5 DEF Declared
<1>10. Approved(f) = Approved(file)
  BY <1>5 DEF Approved
<1>11. UniqueIDs(f.grants)
  BY <1>2, <1>7, <1>8 DEF UniqueIDs
<1>12. \A x \in f.grants : x.parent = NoGrant /\ ValidGrant(x)
  BY <1>1, <1>7, <1>8 DEF ValidFile, ValidGrantSet, FromApproval
<1>13. \A x \in f.grants : \A p \in x.perms : Declared(f, x.app, p)
  BY <1>1, <1>7, <1>8, <1>9 DEF ValidFile
<1>14. \A r \in Approved(f) : \E x \in f.grants : x.id = r.grant /\ Represents(x, r)
  BY <1>1, <1>7, <1>8, <1>10 DEF ValidFile
<1>15. \A x \in f.grants : \E r \in Approved(f) : r.grant = x.id
  BY <1>1, <1>7, <1>8, <1>10 DEF ValidFile, FromApproval
<1>16. /\ UniqueIDs(f.apps) /\ UniqueIDs(f.requests)
       /\ \A a \in f.apps : ValidApplication(a)
       /\ \A r \in f.requests : ValidRequest(r) /\ Declared(f, r.app, r.perm)
  BY <1>1, <1>2, <1>5, <1>9 DEF ValidFile
<1>17. ValidFile(f)
  BY <1>4, <1>11, <1>12, <1>13, <1>14, <1>15, <1>16, ValidFromParts
<1>. QED
  BY <1>17 DEF f

\* Whatever an operation lets through from a file of the store is a file that
\* the store accepts: saveUnlocked refuses nothing.
THEOREM NothingRefused == Spec => []NoSaveRefused
<1>1. Init => StoreInv
  BY InvInit
<1>2. StoreInv /\ [Next]_vars => StoreInv'
  BY InvStep
<1>3. StoreInv => NoSaveRefused
  <2>. SUFFICES ASSUME StoreInv, NEW at \in 0..now, NEW op \in Calls(file, at),
                       Accepts(file, op)
                PROVE  ValidFile(Result(file, op))
    BY DEF NoSaveRefused
  <2>1. op \in Call
    BY CallTypes DEF StoreInv, TypeOK
  <2>2. QED
    BY <2>1, CallKinds, AddIsValid, CreateIsValid, DecideIsValid, RevokeIsValid
<1>. QED
  BY <1>1, <1>2, <1>3, PTL DEF Spec

(***************************************************************************)
(* How the grants of a file develop                                        *)
(***************************************************************************)
\* h is what became of g: the same grant, perhaps revoked since.
Descends(g, h) ==
  h = g \/ (g.revokedAt = NoTime /\ \E t \in Nat : h = [g EXCEPT !.revokedAt = t])

Kept(gs, hs) == \A g \in gs : \E h \in hs : Descends(g, h)

\* The grants of a file read at or before t.
Snapshot(gs, t) ==
  /\ gs \in SUBSET Grant
  /\ UniqueIDs(gs)
  /\ \A g \in gs : FromApproval(g) /\ (g.revokedAt # NoTime => g.revokedAt \in 0..t)

LEMMA DescendantFields ==
  ASSUME NEW g \in Grant, NEW h, Descends(g, h)
  PROVE  /\ h \in Grant /\ h.id = g.id
         /\ h.notBefore = g.notBefore /\ h.expiresAt = g.expiresAt
         /\ g.revokedAt # NoTime => h = g
         /\ \A q : Matches(h, q) <=> Matches(g, q)
<1>1. CASE h = g
  BY <1>1
<1>2. CASE g.revokedAt = NoTime /\ h # g
  <2>1. PICK t \in Nat : h = [g EXCEPT !.revokedAt = t]
    BY <1>2 DEF Descends
  <2>2. /\ h \in Grant /\ h.id = g.id /\ h.subject = g.subject /\ h.grantee = g.grantee
        /\ h.app = g.app /\ h.perms = g.perms /\ h.task = g.task
        /\ h.notBefore = g.notBefore /\ h.expiresAt = g.expiresAt
    BY <2>1 DEF Grant
  <2>3. \A q : Matches(h, q) <=> Matches(g, q)
    BY <2>2 DEF Matches, Candidate, Permits, TaskMatches
  <2>4. QED
    BY <1>2, <2>2, <2>3
<1>. QED
  BY <1>1, <1>2 DEF Descends

LEMMA KeptIsTransitive ==
  ASSUME NEW gs \in SUBSET Grant, NEW hs, NEW ks, Kept(gs, hs), Kept(hs, ks)
  PROVE  Kept(gs, ks)
<1>. SUFFICES ASSUME NEW g \in gs PROVE \E k \in ks : Descends(g, k)
  BY DEF Kept
<1>1. PICK h \in hs : Descends(g, h)
  BY DEF Kept
<1>2. PICK k \in ks : Descends(h, k)
  BY DEF Kept
<1>3. CASE h = g
  BY <1>2, <1>3
<1>4. CASE h # g
  <2>1. PICK t \in Nat : h = [g EXCEPT !.revokedAt = t]
    BY <1>1, <1>4 DEF Descends
  <2>2. h.revokedAt # NoTime
    BY <2>1, AbsentAssumption DEF Grant
  <2>3. k = h
    BY <1>2, <2>2 DEF Descends
  <2>4. QED
    BY <1>1, <2>3
<1>. QED
  BY <1>3, <1>4

\* A step of the store, or none, keeps the grants and does not turn time back.
LEMMA StoreKeeps ==
  ASSUME StoreInv, [Next]_vars
  PROVE  Kept(file.grants, file'.grants) /\ now <= now' /\ now' \in Nat
<1>1. now \in Nat
  BY DEF StoreInv, TypeOK
<1>2. CASE Tick \/ UNCHANGED vars
  <2>1. file' = file /\ (now' = now \/ now' = now + 1)
    BY <1>2 DEF Tick, vars
  <2>2. \A g \in file.grants : Descends(g, g)
    BY DEF Descends
  <2>3. Kept(file.grants, file'.grants)
    BY <2>1, <2>2 DEF Kept
  <2>4. QED
    BY <1>1, <2>1, <2>3
<1>3. ASSUME NEW at \in 0..now, NEW op \in Calls(file, at), Save(op)
      PROVE  Kept(file.grants, file'.grants) /\ now <= now' /\ now' \in Nat
  <2>1. now' = now
    BY <1>3 DEF Save
  <2>2. ASSUME NEW g \in file.grants PROVE \E h \in file'.grants : Descends(g, h)
    <3>1. \/ g \in file'.grants
          \/ /\ g.revokedAt = NoTime
             /\ \E t \in 0..now : [g EXCEPT !.revokedAt = t] \in file'.grants
      BY <1>3, SaveRevokesOnce
    <3>2. CASE g \in file'.grants
      BY <3>2 DEF Descends
    <3>3. CASE g \notin file'.grants
      <4>1. PICK t \in 0..now : [g EXCEPT !.revokedAt = t] \in file'.grants
        BY <3>1, <3>3
      <4>2. t \in Nat
        BY <1>1
      <4>3. Descends(g, [g EXCEPT !.revokedAt = t])
        BY <3>1, <3>3, <4>2 DEF Descends
      <4>4. QED
        BY <4>1, <4>3
    <3>4. QED
      BY <3>2, <3>3
  <2>3. QED
    BY <1>1, <2>1, <2>2 DEF Kept
<1>. QED
  BY <1>1, <1>2, <1>3, StepsAreCalls

LEMMA FileIsSnapshot ==
  ASSUME StoreInv
  PROVE  /\ Snapshot(file.grants, now) /\ now \in Nat
         /\ \A g \in file.grants : g.notBefore \in 0..now
<1>1. file.grants \in SUBSET Grant /\ now \in Nat
  BY DEF StoreInv, TypeOK, File
<1>2. UniqueIDs(file.grants)
  BY ValidUnique DEF StoreInv
<1>3. \A g \in file.grants :
        FromApproval(g) /\ g.createdAt <= now
        /\ (g.revokedAt # NoTime => g.revokedAt \in g.createdAt..now)
  BY DEF StoreInv, TypeOK
<1>4. \A g \in file.grants : g.createdAt \in Nat /\ g.notBefore = g.createdAt
  BY <1>1, <1>3 DEF Grant, FromApproval
<1>. QED
  BY <1>1, <1>2, <1>3, <1>4 DEF Snapshot

(***************************************************************************)
(* What a check knows at each of its steps                                 *)
(***************************************************************************)
\* The grant has been revoked or has run out.
Over(g, hs, t) == \E h \in hs : h.id = g.id /\ (Revoked(h, t) \/ h.expiresAt <= t)

Began(b, hs, t) == Snapshot(b.grants, t) /\ Kept(b.grants, hs) /\ b.now \in 0..t

\* What was listed lies between the grants at the beginning and those of the
\* file now, and allows at no later time what the file did not allow then.
Listed(gs, b, q, l, hs, t) ==
  /\ Snapshot(gs, t) /\ Kept(b.grants, gs) /\ Kept(gs, hs)
  /\ \A u \in Nat : t <= u /\ Evaluate(gs, q, u).allowed => l

Sound(d, b, q, l, hs, t) ==
  /\ d \in Decision
  /\ d.allowed => l /\ \A g \in b.grants : g.revokedAt # NoTime => g.id \notin d.grants
  /\ ~d.allowed => \A g \in b.grants : Matches(g, q) /\ ActiveAt(g, b.now) => Over(g, hs, t)

Entry(c, q, d) == [id |-> c, request |-> q, decision |-> d]

CheckWell(c) ==
  /\ pc[c] # "start" => req[c] \in Request
  /\ Began(began[c], file.grants, now)
  /\ pc[c] = "evaluate" =>
       Listed(loaded[c], began[c], req[c], atList[c], file.grants, now)
  /\ pc[c] \in {"record", "respond"} =>
       Sound(decision[c], began[c], req[c], atList[c], file.grants, now)
  /\ pc[c] = "respond" => Entry(c, req[c], decision[c]) \in audit
  /\ pc[c] # "done" => answer[c] = NoAnswer
  /\ answer[c] \notin {NoAnswer, Error} =>
       /\ Sound(answer[c], began[c], req[c], atList[c], file.grants, now)
       /\ Entry(c, req[c], answer[c]) \in audit

(***************************************************************************)
(* The inductive invariant: of the store, of the types, of every check.    *)
(***************************************************************************)
CheckInv ==
  /\ StoreInv
  /\ CheckTypeOK
  /\ \A c \in Check : CheckWell(c)

(***************************************************************************)
(* What was known stays true while the file and the clock go on            *)
(***************************************************************************)
LEMMA SnapshotLater ==
  ASSUME NEW gs, NEW t \in Nat, NEW u \in Nat, t <= u, Snapshot(gs, t)
  PROVE  Snapshot(gs, u)
BY DEF Snapshot

LEMMA OverLater ==
  ASSUME NEW g, NEW hs \in SUBSET Grant, NEW ks, Kept(hs, ks),
         NEW t \in Nat, NEW u \in Nat, t <= u, Over(g, hs, t)
  PROVE  Over(g, ks, u)
<1>1. PICK h \in hs : h.id = g.id /\ (Revoked(h, t) \/ h.expiresAt <= t)
  BY DEF Over
<1>2. PICK k \in ks : Descends(h, k)
  BY DEF Kept
<1>3. h \in Grant /\ h.expiresAt \in Nat /\ (h.revokedAt # NoTime => h.revokedAt \in Nat)
  BY DEF Grant
<1>4. k.id = h.id /\ k.expiresAt = h.expiresAt /\ (h.revokedAt # NoTime => k = h)
  BY <1>2, <1>3, DescendantFields
<1>5. Revoked(k, u) \/ k.expiresAt <= u
  BY <1>1, <1>3, <1>4 DEF Revoked
<1>. QED
  BY <1>1, <1>4, <1>5 DEF Over

LEMMA BeganLater ==
  ASSUME NEW b, NEW hs \in SUBSET Grant, NEW ks, Kept(hs, ks),
         NEW t \in Nat, NEW u \in Nat, t <= u, Began(b, hs, t)
  PROVE  Began(b, ks, u)
<1>1. Snapshot(b.grants, u) /\ b.grants \in SUBSET Grant
  BY SnapshotLater DEF Began, Snapshot
<1>2. Kept(b.grants, ks)
  BY <1>1, KeptIsTransitive DEF Began
<1>. QED
  BY <1>1, <1>2 DEF Began

LEMMA ListedLater ==
  ASSUME NEW gs, NEW b, NEW q, NEW l, NEW hs \in SUBSET Grant, NEW ks, Kept(hs, ks),
         NEW t \in Nat, NEW u \in Nat, t <= u, Listed(gs, b, q, l, hs, t)
  PROVE  Listed(gs, b, q, l, ks, u)
<1>1. Snapshot(gs, u) /\ gs \in SUBSET Grant
  BY SnapshotLater DEF Listed, Snapshot
<1>2. Kept(gs, ks)
  BY <1>1, KeptIsTransitive DEF Listed
<1>3. ASSUME NEW v \in Nat, u <= v, Evaluate(gs, q, v).allowed
      PROVE  l
  BY <1>3 DEF Listed
<1>. QED
  BY <1>1, <1>2, <1>3 DEF Listed

LEMMA SoundLater ==
  ASSUME NEW d, NEW b, NEW q, NEW l, NEW hs \in SUBSET Grant, NEW ks, Kept(hs, ks),
         NEW t \in Nat, NEW u \in Nat, t <= u, Sound(d, b, q, l, hs, t)
  PROVE  Sound(d, b, q, l, ks, u)
<1>1. \A g : Over(g, hs, t) => Over(g, ks, u)
  BY OverLater
<1>. QED
  BY <1>1 DEF Sound

\* A check that does not move itself keeps what it knows.
LEMMA OthersDisturbNothing ==
  ASSUME CheckInv, [Next]_vars, NEW c \in Check, audit \subseteq audit',
         pc'[c] = pc[c], req'[c] = req[c], loaded'[c] = loaded[c],
         decision'[c] = decision[c], answer'[c] = answer[c], began'[c] = began[c],
         atList'[c] = atList[c]
  PROVE  CheckWell(c)'
<1>1. /\ Kept(file.grants, file'.grants) /\ now <= now' /\ now' \in Nat /\ now \in Nat
      /\ file.grants \in SUBSET Grant
  BY StoreKeeps, FileIsSnapshot DEF CheckInv, Snapshot
<1>2. CheckWell(c)
  BY DEF CheckInv
<1>3. Began(began'[c], file'.grants, now')
  BY <1>1, <1>2, BeganLater DEF CheckWell
<1>4. pc'[c] = "evaluate" =>
        Listed(loaded'[c], began'[c], req'[c], atList'[c], file'.grants, now')
  BY <1>1, <1>2, ListedLater DEF CheckWell
<1>5. pc'[c] \in {"record", "respond"} =>
        Sound(decision'[c], began'[c], req'[c], atList'[c], file'.grants, now')
  BY <1>1, <1>2, SoundLater DEF CheckWell
<1>6. answer'[c] \notin {NoAnswer, Error} =>
        Sound(answer'[c], began'[c], req'[c], atList'[c], file'.grants, now')
  BY <1>1, <1>2, SoundLater DEF CheckWell
<1>7. (pc'[c] # "start" => req'[c] \in Request) /\ (pc'[c] # "done" => answer'[c] = NoAnswer)
  BY <1>2 DEF CheckWell
<1>8. /\ pc'[c] = "respond" => Entry(c, req'[c], decision'[c]) \in audit'
      /\ answer'[c] \notin {NoAnswer, Error} => Entry(c, req'[c], answer'[c]) \in audit'
  BY <1>2 DEF CheckWell
<1>. QED
  BY <1>3, <1>4, <1>5, <1>6, <1>7, <1>8 DEF CheckWell

(***************************************************************************)
(* The two steps that add to what a check knows                            *)
(***************************************************************************)
LEMMA KeptIsReflexive ==
  ASSUME NEW gs
  PROVE  Kept(gs, gs)
BY DEF Kept, Descends

\* A grant that is active later and not from the future is active now.
LEMMA ListedNow ==
  ASSUME CheckInv, NEW c \in Check, pc[c] = "list"
  PROVE  Listed(file.grants, began[c], req[c],
                Evaluate(file.grants, req[c], now).allowed, file.grants, now)
<1>. DEFINE gs == file.grants
            q  == req[c]
<1>1. /\ Snapshot(gs, now) /\ now \in Nat /\ \A g \in gs : g.notBefore \in 0..now
  BY FileIsSnapshot DEF CheckInv
<1>2. Kept(began[c].grants, gs) /\ Kept(gs, gs)
  BY KeptIsReflexive DEF CheckInv, CheckWell, Began
<1>3. gs \in SUBSET Grant /\ \A g \in gs : g.parent = NoGrant
  BY <1>1 DEF Snapshot, FromApproval
<1>4. ASSUME NEW u \in Nat, now <= u, Evaluate(gs, q, u).allowed
      PROVE  Evaluate(gs, q, now).allowed
  <2>1. PICK g \in gs : Matches(g, q) /\ ActiveAt(g, u)
    BY <1>3, <1>4, RootDecision
  <2>2. /\ g.expiresAt \in Nat /\ (g.revokedAt # NoTime => g.revokedAt \in 0..now)
        /\ g.notBefore \in 0..now
    BY <1>1, <1>3 DEF Snapshot, Grant
  <2>3. ActiveAt(g, now)
    BY <1>1, <1>4, <2>1, <2>2 DEF ActiveAt, Revoked
  <2>4. QED
    BY <1>3, <2>1, <2>3, RootDecision
<1>. QED
  BY <1>1, <1>2, <1>4 DEF Listed

LEMMA EvaluatedNow ==
  ASSUME CheckInv, NEW c \in Check, pc[c] = "evaluate"
  PROVE  Sound(Evaluate(loaded[c], req[c], now), began[c], req[c], atList[c],
               file.grants, now)
<1>. DEFINE gs == loaded[c]
            q  == req[c]
            b  == began[c]
            d  == Evaluate(gs, q, now)
<1>1. /\ Listed(gs, b, q, atList[c], file.grants, now) /\ Began(b, file.grants, now)
      /\ now \in Nat
  BY FileIsSnapshot DEF CheckInv, CheckWell
<1>2. /\ gs \in SUBSET Grant /\ UniqueIDs(gs) /\ b.grants \in SUBSET Grant /\ b.now \in 0..now
      /\ Kept(b.grants, gs) /\ Kept(gs, file.grants)
  BY <1>1 DEF Listed, Began, Snapshot
<1>3. /\ \A g \in gs : g.parent = NoGrant
      /\ \A g \in gs : g.revokedAt # NoTime => g.revokedAt \in 0..now
  BY <1>1 DEF Listed, Began, Snapshot, FromApproval
<1>. HIDE DEF gs, b, q
<1>4. /\ d \in Decision
      /\ d.allowed <=> \E g \in gs : Matches(g, q) /\ ActiveAt(g, now)
      /\ d.allowed => \E g \in gs : Matches(g, q) /\ ActiveAt(g, now) /\ d.grants = {g.id}
  <2>1. gs \in SUBSET Grant /\ \A g \in gs : g.parent = NoGrant
    BY <1>2, <1>3
  <2>2. QED
    BY <2>1, RootDecision
<1>. HIDE DEF d
<1>5. d.allowed => atList[c]
  BY <1>1 DEF Listed, d
<1>6. ASSUME d.allowed, NEW g \in b.grants, g.revokedAt # NoTime, g.id \in d.grants
      PROVE  FALSE
  <2>1. PICK h \in gs : ActiveAt(h, now) /\ d.grants = {h.id}
    BY <1>4, <1>6
  <2>2. PICK k \in gs : Descends(g, k)
    BY <1>2 DEF Kept
  <2>3. k = g /\ k.id = h.id
    BY <1>2, <1>6, <2>1, <2>2, DescendantFields
  <2>4. h = g
    BY <1>2, <2>1, <2>2, <2>3 DEF UniqueIDs
  <2>5. g.revokedAt \in 0..now
    BY <1>3, <1>6, <2>1, <2>4
  <2>6. QED
    BY <1>1, <1>6, <2>1, <2>4, <2>5 DEF ActiveAt, Revoked
<1>7. ASSUME ~d.allowed, NEW g \in b.grants, Matches(g, q), ActiveAt(g, b.now)
      PROVE  Over(g, file.grants, now)
  <2>1. PICK h \in gs : Descends(g, h)
    BY <1>2 DEF Kept
  <2>2. /\ h \in Grant /\ h.id = g.id /\ Matches(h, q)
        /\ h.notBefore = g.notBefore /\ h.expiresAt = g.expiresAt
    BY <1>2, <1>7, <2>1, DescendantFields
  <2>3. ~ActiveAt(h, now)
    BY <1>4, <1>7, <2>2
  <2>4. h.notBefore <= now
    BY <1>1, <1>2, <1>7, <2>2 DEF ActiveAt, Grant
  <2>5. Revoked(h, now) \/ h.expiresAt <= now
    BY <1>1, <2>2, <2>3, <2>4 DEF ActiveAt, Grant
  <2>6. Over(g, gs, now)
    BY <2>2, <2>5 DEF Over
  <2>7. QED
    BY <1>1, <1>2, <2>6, OverLater
<1>8. Sound(d, b, q, atList[c], file.grants, now)
  BY <1>4, <1>5, <1>6, <1>7 DEF Sound
<1>. QED
  BY <1>8 DEF gs, b, q, d

(***************************************************************************)
(* The steps of a check keep its own part of the invariant                 *)
(***************************************************************************)
LEMMA StartKeeps ==
  ASSUME CheckInv, NEW c \in Check, Start(c)
  PROVE  CheckWell(c)'
<1>1. CheckWell(c) /\ CheckTypeOK /\ Snapshot(file.grants, now) /\ now \in Nat
  BY FileIsSnapshot DEF CheckInv
<1>2. PICK r \in Asked : req' = [req EXCEPT ![c] = r]
  BY DEF Start
<1>3. /\ pc'[c] = "agents" /\ req'[c] \in Request
      /\ began'[c] = [grants |-> file.grants, now |-> now]
      /\ answer'[c] = NoAnswer /\ file' = file /\ now' = now
  BY <1>1, <1>2, CheckAssumption DEF Start, Goto, CheckTypeOK, CheckWell
<1>4. Began(began'[c], file'.grants, now')
  BY <1>1, <1>3, KeptIsReflexive DEF Began
<1>. QED
  BY <1>3, <1>4 DEF CheckWell

LEMMA ReadsKeep ==
  ASSUME CheckInv, NEW c \in Check, LoadAgents(c) \/ CheckDeclared(c)
  PROVE  CheckWell(c)'
<1>1. CheckWell(c) /\ CheckTypeOK
  BY DEF CheckInv
<1>2. /\ pc[c] \in {"agents", "declared"} /\ pc'[c] \in {"declared", "list"}
      /\ UNCHANGED <<file, now, req, decision, answer, audit, began, atList>>
  BY <1>1 DEF LoadAgents, CheckDeclared, Goto, CheckTypeOK
<1>. QED
  BY <1>1, <1>2 DEF CheckWell

LEMMA ListKeeps ==
  ASSUME CheckInv, NEW c \in Check, ListGrants(c)
  PROVE  CheckWell(c)'
<1>1. CheckWell(c) /\ CheckTypeOK
  BY DEF CheckInv
<1>2. /\ pc[c] = "list" /\ pc'[c] = "evaluate" /\ loaded'[c] = file.grants
      /\ atList'[c] = Evaluate(file.grants, req[c], now).allowed
      /\ UNCHANGED <<file, now, req, decision, answer, audit, began>>
  BY <1>1 DEF ListGrants, Goto, CheckTypeOK
<1>3. Listed(loaded'[c], began'[c], req'[c], atList'[c], file'.grants, now')
  BY <1>2, ListedNow
<1>4. /\ answer'[c] = NoAnswer /\ req'[c] \in Request
      /\ Began(began'[c], file'.grants, now')
  BY <1>1, <1>2 DEF CheckWell
<1>. QED
  BY <1>2, <1>3, <1>4 DEF CheckWell

LEMMA EvaluateKeeps ==
  ASSUME CheckInv, NEW c \in Check, EvaluateGrants(c)
  PROVE  CheckWell(c)'
<1>1. CheckWell(c) /\ CheckTypeOK
  BY DEF CheckInv
<1>2. /\ pc[c] = "evaluate" /\ pc'[c] = "record"
      /\ decision'[c] = Evaluate(loaded[c], req[c], now)
      /\ UNCHANGED <<file, now, req, answer, audit, began, atList>>
  BY <1>1 DEF EvaluateGrants, Goto, CheckTypeOK
<1>3. Sound(decision'[c], began'[c], req'[c], atList'[c], file'.grants, now')
  BY <1>2, EvaluatedNow
<1>4. /\ answer'[c] = NoAnswer /\ req'[c] \in Request
      /\ Began(began'[c], file'.grants, now')
  BY <1>1, <1>2 DEF CheckWell
<1>. QED
  BY <1>2, <1>3, <1>4 DEF CheckWell

LEMMA RecordKeeps ==
  ASSUME CheckInv, NEW c \in Check, Record(c)
  PROVE  CheckWell(c)'
<1>1. CheckWell(c) /\ CheckTypeOK
  BY DEF CheckInv
<1>2. /\ pc[c] = "record" /\ pc'[c] = "respond"
      /\ Entry(c, req[c], decision[c]) \in audit'
      /\ UNCHANGED <<file, now, req, decision, answer, began, atList>>
  BY <1>1 DEF Record, Goto, CheckTypeOK, Entry
<1>. QED
  BY <1>1, <1>2 DEF CheckWell

LEMMA EndKeeps ==
  ASSUME CheckInv, NEW c \in Check, Respond(c) \/ Refuse(c) \/ Fail(c)
  PROVE  CheckWell(c)'
<1>1. CheckWell(c) /\ CheckTypeOK
  BY DEF CheckInv
<1>2. /\ pc[c] # "start" /\ pc'[c] = "done"
      /\ \/ pc[c] = "respond" /\ answer'[c] = decision[c]
         \/ answer'[c] = Error
      /\ UNCHANGED <<file, now, req, decision, audit, began, atList>>
  BY <1>1 DEF Respond, Refuse, Fail, Goto, Answer, CheckTypeOK
<1>3. /\ req'[c] \in Request /\ Began(began'[c], file'.grants, now')
  BY <1>1, <1>2 DEF CheckWell
<1>4. answer'[c] \notin {NoAnswer, Error} =>
        /\ Sound(answer'[c], began'[c], req'[c], atList'[c], file'.grants, now')
        /\ Entry(c, req'[c], answer'[c]) \in audit'
  BY <1>1, <1>2 DEF CheckWell
<1>. QED
  BY <1>2, <1>3, <1>4 DEF CheckWell

(***************************************************************************)
(* Types                                                                   *)
(***************************************************************************)
LEMMA MoveKeepsTypes ==
  ASSUME CheckInv, NEW c \in Check, Start(c) \/ HandlerStep(c)
  PROVE  CheckTypeOK'
<1>1. CheckTypeOK /\ CheckWell(c) /\ Snapshot(file.grants, now) /\ now \in Nat
  BY FileIsSnapshot DEF CheckInv
<1>2. file.grants \in SUBSET Grant /\ \A g \in file.grants : g.parent = NoGrant
  BY <1>1 DEF Snapshot, FromApproval
<1>3. CASE Start(c)
  <2>1. [grants |-> file.grants, now |-> now] \in [grants : SUBSET Grant, now : Nat]
    BY <1>1, <1>2
  <2>2. QED
    BY <1>1, <1>3, <2>1, CheckAssumption DEF Start, Goto, CheckTypeOK
<1>4. CASE LoadAgents(c) \/ CheckDeclared(c)
  BY <1>1, <1>4 DEF LoadAgents, CheckDeclared, Goto, CheckTypeOK
<1>5. CASE ListGrants(c)
  <2>1. Evaluate(file.grants, req[c], now) \in Decision
    BY <1>2, RootDecision
  <2>2. Evaluate(file.grants, req[c], now).allowed \in BOOLEAN
    BY <2>1 DEF Decision
  <2>3. atList' \in [Check -> BOOLEAN]
    BY <1>1, <1>5, <2>2 DEF ListGrants, CheckTypeOK
  <2>4. loaded' \in [Check -> SUBSET Grant]
    BY <1>1, <1>2, <1>5 DEF ListGrants, CheckTypeOK
  <2>5. QED
    BY <1>1, <1>5, <2>3, <2>4 DEF ListGrants, Goto, CheckTypeOK
<1>6. CASE EvaluateGrants(c)
  <2>1. Evaluate(loaded[c], req[c], now) \in Decision
    BY <1>6, EvaluatedNow DEF EvaluateGrants, Goto, Sound
  <2>2. decision' \in [Check -> Decision \cup {NoAnswer}]
    BY <1>1, <1>6, <2>1 DEF EvaluateGrants, CheckTypeOK
  <2>3. QED
    BY <1>1, <1>6, <2>2 DEF EvaluateGrants, Goto, CheckTypeOK
<1>7. CASE Record(c)
  <2>1. decision[c] \in Decision /\ req[c] \in Request
    BY <1>1, <1>7 DEF Record, Goto, CheckWell, Sound
  <2>2. audit' \subseteq [id : Check, request : Request, decision : Decision]
    BY <1>1, <1>7, <2>1 DEF Record, CheckTypeOK
  <2>3. QED
    BY <1>1, <1>7, <2>2 DEF Record, Goto, CheckTypeOK
<1>8. CASE Respond(c) \/ Refuse(c) \/ Fail(c)
  BY <1>1, <1>8 DEF Respond, Refuse, Fail, Goto, Answer, CheckTypeOK
<1>. QED
  BY <1>3, <1>4, <1>5, <1>6, <1>7, <1>8 DEF HandlerStep

LEMMA OtherStepsKeepTypes ==
  ASSUME CheckInv,
         \/ \E a \in Actors : AddAgent(a) \/ RemoveAgent(a)
         \/ StoreStep
         \/ UNCHANGED allVars
  PROVE  CheckTypeOK'
<1>1. agents' \subseteq Actors /\ UNCHANGED checkVars
  BY DEF CheckInv, CheckTypeOK, AddAgent, RemoveAgent, StoreStep, allVars
<1>. QED
  BY <1>1 DEF CheckInv, CheckTypeOK, checkVars

(***************************************************************************)
(* The invariant is inductive                                              *)
(***************************************************************************)
LEMMA CheckInvInit == CheckInit => CheckInv
<1>. SUFFICES ASSUME CheckInit PROVE CheckInv
  OBVIOUS
<1>1. StoreInv /\ now = 0
  BY InvInit DEF CheckInit, Init
<1>2. CheckTypeOK
  BY DEF CheckInit, CheckTypeOK
<1>3. ASSUME NEW c \in Check PROVE CheckWell(c)
  <2>1. pc[c] = "start" /\ answer[c] = NoAnswer /\ began[c].grants = {} /\ began[c].now = 0
    BY DEF CheckInit
  <2>2. Began(began[c], file.grants, now)
    BY <1>1, <2>1 DEF Began, Snapshot, UniqueIDs, Kept
  <2>3. QED
    BY <2>1, <2>2 DEF CheckWell
<1>. QED
  BY <1>1, <1>2, <1>3 DEF CheckInv

LEMMA MoveKeepsOthers ==
  ASSUME CheckInv, NEW c \in Check, Start(c) \/ HandlerStep(c),
         NEW d \in Check, d # c
  PROVE  CheckWell(d)'
<1>1. CheckTypeOK
  BY DEF CheckInv
<1>2. UNCHANGED vars
  BY DEF Start, HandlerStep, LoadAgents, CheckDeclared, ListGrants, EvaluateGrants, Record,
         Respond, Refuse, Fail, vars
<1>3. audit \subseteq audit'
  BY DEF Start, HandlerStep, LoadAgents, CheckDeclared, ListGrants, EvaluateGrants, Record,
         Respond, Refuse, Fail
<1>4. /\ pc'[d] = pc[d] /\ req'[d] = req[d] /\ loaded'[d] = loaded[d]
      /\ decision'[d] = decision[d] /\ answer'[d] = answer[d] /\ began'[d] = began[d]
      /\ atList'[d] = atList[d]
  <2>1. CASE Start(c) \/ LoadAgents(c) \/ CheckDeclared(c)
    BY <1>1, <2>1 DEF Start, LoadAgents, CheckDeclared, Goto, CheckTypeOK
  <2>2. CASE ListGrants(c) \/ EvaluateGrants(c) \/ Record(c)
    BY <1>1, <2>2 DEF ListGrants, EvaluateGrants, Record, Goto, CheckTypeOK
  <2>3. CASE Respond(c) \/ Refuse(c) \/ Fail(c)
    BY <1>1, <2>3 DEF Respond, Refuse, Fail, Goto, Answer, CheckTypeOK
  <2>4. QED
    BY <2>1, <2>2, <2>3 DEF HandlerStep
<1>. QED
  BY <1>2, <1>3, <1>4, OthersDisturbNothing

LEMMA CheckInvStep == CheckInv /\ [CheckNext]_allVars => CheckInv'
<1>. SUFFICES ASSUME CheckInv, [CheckNext]_allVars PROVE CheckInv'
  OBVIOUS
<1>1. ASSUME NEW c \in Check, Start(c) \/ HandlerStep(c)
      PROVE  CheckInv'
  <2>1. UNCHANGED vars
    BY <1>1 DEF Start, HandlerStep, LoadAgents, CheckDeclared, ListGrants, EvaluateGrants,
                Record, Respond, Refuse, Fail, vars
  <2>2. StoreInv'
    BY <2>1, InvStep DEF CheckInv
  <2>3. CheckTypeOK'
    BY <1>1, MoveKeepsTypes
  <2>4. CheckWell(c)'
    BY <1>1, StartKeeps, ReadsKeep, ListKeeps, EvaluateKeeps, RecordKeeps, EndKeeps
       DEF HandlerStep
  <2>5. \A d \in Check : d # c => CheckWell(d)'
    BY <1>1, MoveKeepsOthers
  <2>6. QED
    BY <2>2, <2>3, <2>4, <2>5 DEF CheckInv
<1>2. CASE \/ \E a \in Actors : AddAgent(a) \/ RemoveAgent(a)
           \/ StoreStep
           \/ UNCHANGED allVars
  <2>1. [Next]_vars /\ UNCHANGED checkVars
    BY <1>2 DEF AddAgent, RemoveAgent, StoreStep, allVars, vars
  <2>2. StoreInv'
    BY <2>1, InvStep DEF CheckInv
  <2>3. CheckTypeOK'
    BY <1>2, OtherStepsKeepTypes
  <2>4. ASSUME NEW c \in Check PROVE CheckWell(c)'
    BY <2>1, OthersDisturbNothing DEF checkVars
  <2>5. QED
    BY <2>2, <2>3, <2>4 DEF CheckInv
<1>. QED
  BY <1>1, <1>2 DEF CheckNext

(***************************************************************************)
(* The properties                                                          *)
(***************************************************************************)
LEMMA CheckInvImplies ==
  CheckInv => AnswerIsRecorded /\ RevocationHonoured /\ AllowedWhenListed /\ ApprovalHonoured
<1>. SUFFICES ASSUME CheckInv, NEW c \in Check, answer[c] \notin {NoAnswer, Error}
              PROVE  /\ [id |-> c, request |-> req[c], decision |-> answer[c]] \in audit
                     /\ answer[c].allowed =>
                          /\ atList[c]
                          /\ \A g \in began[c].grants :
                               g.revokedAt # NoTime => g.id \notin answer[c].grants
                     /\ ~answer[c].allowed =>
                          \A g \in began[c].grants :
                            /\ Candidate(g, req[c]) /\ Permits(g, req[c])
                            /\ TaskMatches(g, req[c]) /\ ActiveAt(g, began[c].now)
                            => \E h \in file.grants : h.id = g.id /\ ~ActiveAt(h, now)
  BY DEF AnswerIsRecorded, RevocationHonoured, AllowedWhenListed, ApprovalHonoured, Allowed,
         Denied
<1>1. /\ Sound(answer[c], began[c], req[c], atList[c], file.grants, now)
      /\ Entry(c, req[c], answer[c]) \in audit
  BY DEF CheckInv, CheckWell
<1>2. file.grants \in SUBSET Grant /\ now \in Nat
  BY FileIsSnapshot DEF CheckInv, Snapshot
<1>3. \A g : Over(g, file.grants, now) =>
        \E h \in file.grants : h.id = g.id /\ ~ActiveAt(h, now)
  <2>. SUFFICES ASSUME NEW h \in file.grants, Revoked(h, now) \/ h.expiresAt <= now
                PROVE  ~ActiveAt(h, now)
    BY DEF Over
  <2>1. h.expiresAt \in Nat
    BY <1>2 DEF Grant
  <2>2. QED
    BY <1>2, <2>1 DEF ActiveAt
<1>. QED
  BY <1>1, <1>3 DEF Sound, Matches, Entry

LEMMA CheckInvAlways == CheckSpec => []CheckInv
<1>. QED
  BY CheckInvInit, CheckInvStep, PTL DEF CheckSpec

\* Every variable of a check keeps its type; in particular Evaluate returns
\* one of its seven reasons and ids of grants, whatever grants it is given.
THEOREM CheckTypes == CheckSpec => []CheckTypeOK
<1>1. CheckInv => CheckTypeOK
  BY DEF CheckInv
<1>. QED
  BY <1>1, CheckInvAlways, PTL

\* No caller has a decision that the audit log does not have.
THEOREM EveryAnswerRecorded == CheckSpec => []AnswerIsRecorded
<1>1. CheckInv => AnswerIsRecorded
  BY CheckInvImplies
<1>. QED
  BY <1>1, CheckInvAlways, PTL

\* No check allows on a grant whose revocation was in the file before it began.
THEOREM EveryRevocationHonoured == CheckSpec => []RevocationHonoured
<1>1. CheckInv => RevocationHonoured
  BY CheckInvImplies
<1>. QED
  BY <1>1, CheckInvAlways, PTL

\* An allow is what the file said at the moment it was listed, although the
\* clock is read later.
THEOREM EveryAllowWasListed == CheckSpec => []AllowedWhenListed
<1>1. CheckInv => AllowedWhenListed
  BY CheckInvImplies
<1>. QED
  BY <1>1, CheckInvAlways, PTL

\* A denial means that no grant in force when the check began still is.
THEOREM EveryApprovalHonoured == CheckSpec => []ApprovalHonoured
<1>1. CheckInv => ApprovalHonoured
  BY CheckInvImplies
<1>. QED
  BY <1>1, CheckInvAlways, PTL
=============================================================================
