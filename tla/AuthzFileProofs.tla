-------------------------- MODULE AuthzFileProofs --------------------------
(***************************************************************************)
(* Lemmas about what the calls of authzstore.Store make of a file, for any *)
(* set of applications, requests, grants, permissions and ttls.  They speak *)
(* of one file and one call; the proofs about the atomic store and about its *)
(* implementation by threads and a rename cite them.                       *)
(***************************************************************************)
EXTENDS AuthzFile, FiniteSetTheorems, TLAPS

(***************************************************************************)
(* Types of calls and of their results                                     *)
(***************************************************************************)
LEMMA CallTypes ==
  ASSUME NEW f \in File, NEW at \in Nat, NEW op \in Calls(f, at)
  PROVE  op \in Call
<1>. USE InputAssumption
<1>1. CASE op \in AddCalls
  BY <1>1 DEF AddCalls, Call, AddCall
<1>2. CASE op \in CreateCalls(at)
  <2>1. PICK id \in RequestID, subject \in Subjects, actor \in Actors, app \in AppID,
             perm \in Permissions, task \in TaskID \cup {NoTask}, ttl \in TTLs :
          op = [kind |-> "create",
                request |-> NewRequest(id, subject, actor, app, perm, task, ttl, at)]
    BY <1>2 DEF CreateCalls
  <2>2. ttl \in Nat /\ at + Window \in Nat
    BY TTLAssumption
  <2>3. NewRequest(id, subject, actor, app, perm, task, ttl, at) \in AuthorizationRequest
    BY <2>2 DEF NewRequest, AuthorizationRequest, Status, Identity
  <2>4. QED
    BY <2>1, <2>3 DEF Call, CreateCall
<1>3. CASE op \in ApproveCalls(f, at)
  BY <1>3 DEF ApproveCalls, Call, DecideCall, File, AuthorizationRequest
<1>4. CASE op \in DenyCalls(f, at)
  BY <1>4 DEF DenyCalls, Call, DecideCall, File, AuthorizationRequest
<1>5. CASE op \in RevokeCalls(f, at)
  BY <1>5 DEF RevokeCalls, Call, RevokeCall, File, Grant
<1>6. QED
  BY <1>1, <1>2, <1>3, <1>4, <1>5 DEF Calls

LEMMA SettledType ==
  ASSUME NEW r \in AuthorizationRequest, NEW op \in DecideCall
  PROVE  /\ Settled(r, op) \in AuthorizationRequest
         /\ Settled(r, op).id = r.id
         /\ Settled(r, op).createdAt = r.createdAt
         /\ Settled(r, op).decidedAt = op.at
         /\ Settled(r, op).status = Verdict(r, op)
BY DEF Settled, Verdict, AuthorizationRequest, DecideCall, Status

LEMMA NewGrantType ==
  ASSUME NEW r \in AuthorizationRequest, NEW op \in DecideCall, op.grant # NoGrant
  PROVE  NewGrant(r, op) \in Grant
<1>1. op.grant \in GrantID /\ op.at \in Nat /\ op.at + r.ttl \in Nat
  BY DEF DecideCall, AuthorizationRequest
<1>2. {r.perm} \in SUBSET Permission
  BY DEF AuthorizationRequest
<1>. QED
  BY <1>1, <1>2 DEF NewGrant, AuthorizationRequest, Grant

LEMMA RevokedType ==
  ASSUME NEW g \in Grant, NEW t \in Nat
  PROVE  [g EXCEPT !.revokedAt = t] \in Grant
BY DEF Grant

\* A call that is accepted leaves a file of the type of files.
LEMMA ResultTypes ==
  ASSUME NEW f \in File, NEW op \in Call, Accepts(f, op), UniqueIDs(f.requests)
  PROVE  Result(f, op) \in File
<1>1. CASE op.kind = "add"
  <2>1. op.app \in Application
    BY <1>1 DEF Call, AddCall, CreateCall, DecideCall, RevokeCall
  <2>2. QED
    BY <1>1, <2>1 DEF Result, AddApplication, File
<1>2. CASE op.kind = "create"
  <2>1. op.request \in AuthorizationRequest
    BY <1>2 DEF Call, AddCall, CreateCall, DecideCall, RevokeCall
  <2>2. QED
    BY <1>2, <2>1 DEF Result, CreateRequest, File
<1>3. CASE op.kind \in {"approve", "deny"}
  <2>1. op \in DecideCall
    BY <1>3 DEF Call, AddCall, CreateCall, DecideCall, RevokeCall
  <2>2. PICK r \in f.requests :
          /\ r.id = op.id
          /\ Verdict(r, op) = "approved" => op.grant # NoGrant
    BY <1>3 DEF Accepts, AcceptsDecide
  <2>3. \A x \in f.requests : x.id = op.id => x = r
    BY <2>2 DEF UniqueIDs
  <2>. DEFINE decided  == {x \in f.requests : x.id = op.id}
              approved == {x \in decided : Verdict(x, op) = "approved"}
              after    == (f.requests \ decided) \cup {Settled(x, op) : x \in decided}
              granted  == f.grants \cup {NewGrant(x, op) : x \in approved}
  <2>4. after \in SUBSET AuthorizationRequest
    BY <2>1, SettledType DEF File
  <2>5. granted \in SUBSET Grant
    BY <2>1, <2>2, <2>3, NewGrantType DEF File
  <2>6. DecideRequest(f, op) = [f EXCEPT !.requests = after, !.grants = granted]
    BY DEF DecideRequest
  <2>7. DecideRequest(f, op) \in File
    <3>. HIDE DEF after, granted
    <3>. QED
      BY <2>4, <2>5, <2>6 DEF File
  <2>8. QED
    BY <1>3, <2>7 DEF Result
<1>4. CASE op.kind = "revoke"
  <2>1. op \in RevokeCall
    BY <1>4 DEF Call, AddCall, CreateCall, DecideCall, RevokeCall
  <2>. DEFINE revoked == {g \in f.grants : g.id = op.id}
              left    == (f.grants \ revoked)
                           \cup {[g EXCEPT !.revokedAt = op.at] : g \in revoked}
  <2>2. left \in SUBSET Grant
    BY <2>1, RevokedType DEF File, RevokeCall
  <2>3. RevokeGrant(f, op) = [f EXCEPT !.grants = left]
    BY DEF RevokeGrant
  <2>4. RevokeGrant(f, op) \in File
    <3>. HIDE DEF left
    <3>. QED
      BY <2>2, <2>3 DEF File
  <2>5. QED
    BY <1>4, <2>4 DEF Result
<1>5. QED
  BY <1>1, <1>2, <1>3, <1>4 DEF Call, AddCall, CreateCall, DecideCall, RevokeCall

(***************************************************************************)
(* What each kind of call does to a file whose ids are unique              *)
(***************************************************************************)
LEMMA CallKinds ==
  ASSUME NEW op \in Call
  PROVE  /\ op.kind \in {"add", "create", "approve", "deny", "revoke"}
         /\ op.kind \in {"approve", "deny"} => op \in DecideCall
         /\ op.kind = "revoke" => op \in RevokeCall
BY DEF Call, AddCall, CreateCall, DecideCall, RevokeCall

LEMMA ValidUnique ==
  ASSUME NEW f, ValidFile(f)
  PROVE  UniqueIDs(f.apps) /\ UniqueIDs(f.requests) /\ UniqueIDs(f.grants)
BY DEF ValidFile, ValidGrantSet, UniqueIDs

LEMMA AddShape ==
  ASSUME NEW f \in File, NEW op \in Call, Accepts(f, op), op.kind = "add"
  PROVE  /\ Result(f, op).apps = f.apps \cup {op.app}
         /\ Result(f, op).requests = f.requests /\ Result(f, op).grants = f.grants
BY DEF Result, AddApplication, File

LEMMA CreateShape ==
  ASSUME NEW f \in File, NEW op \in Call, Accepts(f, op), op.kind = "create"
  PROVE  /\ Result(f, op).requests = f.requests \cup {op.request}
         /\ \A r \in f.requests : r.id # op.request.id
         /\ Result(f, op).apps = f.apps /\ Result(f, op).grants = f.grants
BY DEF Result, CreateRequest, File, Accepts, AcceptsCreate

LEMMA DecideShape ==
  ASSUME NEW f \in File, NEW op \in Call, Accepts(f, op), UniqueIDs(f.requests),
         op.kind \in {"approve", "deny"}
  PROVE  \E r \in f.requests :
           /\ r.id = op.id /\ r.status = "pending"
           /\ Result(f, op).requests = (f.requests \ {r}) \cup {Settled(r, op)}
           /\ Result(f, op).apps = f.apps
           /\ \/ /\ Verdict(r, op) = "approved"
                 /\ op.grant # NoGrant /\ \A g \in f.grants : g.id # op.grant
                 /\ Result(f, op).grants = f.grants \cup {NewGrant(r, op)}
              \/ /\ Verdict(r, op) # "approved"
                 /\ Result(f, op).grants = f.grants
<1>1. PICK r \in f.requests :
        /\ r.id = op.id /\ r.status = "pending"
        /\ Verdict(r, op) = "approved" =>
             /\ op.grant # NoGrant /\ \A g \in f.grants : g.id # op.grant
  BY DEF Accepts, AcceptsDecide
<1>2. {x \in f.requests : x.id = op.id} = {r}
  BY <1>1 DEF UniqueIDs
<1>. DEFINE decided == {x \in f.requests : x.id = op.id}
            new     == {NewGrant(x, op) : x \in {y \in decided : Verdict(y, op) = "approved"}}
<1>3. {Settled(x, op) : x \in decided} = {Settled(r, op)}
  BY <1>2
<1>4. \/ Verdict(r, op) = "approved" /\ new = {NewGrant(r, op)}
      \/ Verdict(r, op) # "approved" /\ new = {}
  BY <1>2
<1>5. Result(f, op) = [f EXCEPT !.requests = (f.requests \ {r}) \cup {Settled(r, op)},
                               !.grants = f.grants \cup new]
  BY <1>2, <1>3 DEF Result, DecideRequest
<1>. HIDE DEF decided, new
<1>6. /\ Result(f, op).requests = (f.requests \ {r}) \cup {Settled(r, op)}
      /\ Result(f, op).grants = f.grants \cup new
      /\ Result(f, op).apps = f.apps
  BY <1>5 DEF File
<1>. QED
  BY <1>1, <1>4, <1>6

LEMMA RevokeShape ==
  ASSUME NEW f \in File, NEW op \in Call, Accepts(f, op), UniqueIDs(f.grants),
         op.kind = "revoke"
  PROVE  \E g \in f.grants :
           /\ g.id = op.id /\ g.revokedAt = NoTime
           /\ Result(f, op).grants =
                (f.grants \ {g}) \cup {[g EXCEPT !.revokedAt = op.at]}
           /\ Result(f, op).apps = f.apps /\ Result(f, op).requests = f.requests
<1>1. PICK g \in f.grants : g.id = op.id /\ g.revokedAt = NoTime
  BY DEF Accepts, AcceptsRevoke
<1>2. {x \in f.grants : x.id = op.id} = {g}
  BY <1>1 DEF UniqueIDs
<1>3. {[x EXCEPT !.revokedAt = op.at] : x \in {y \in f.grants : y.id = op.id}}
        = {[g EXCEPT !.revokedAt = op.at]}
  BY <1>2
<1>4. Result(f, op) = [f EXCEPT !.grants =
                          (f.grants \ {g}) \cup {[g EXCEPT !.revokedAt = op.at]}]
  BY <1>2, <1>3 DEF Result, RevokeGrant
<1>. QED
  BY <1>1, <1>4 DEF File

\* The sampled time of a decision or a revocation is not before the creation
\* of the record it names.
LEMMA SampledLate ==
  ASSUME NEW f \in File, NEW at \in Nat, NEW op \in Calls(f, at),
         UniqueIDs(f.requests), UniqueIDs(f.grants)
  PROVE  /\ op.kind = "create" =>
              op.request.createdAt = at /\ op.request.decidedAt = NoTime
         /\ op.kind \in {"approve", "deny"} =>
              op.at = at /\ \A r \in f.requests : r.id = op.id => r.createdAt <= at
         /\ op.kind = "revoke" =>
              op.at = at /\ \A g \in f.grants : g.id = op.id => g.createdAt <= at
BY DEF Calls, AddCalls, CreateCalls, NewRequest, ApproveCalls, DenyCalls, RevokeCalls,
       UniqueIDs

\* A grant that DecideRequest made and nothing but a revocation touched.
FromApproval(g) ==
  g.parent = NoGrant /\ g.notBefore = g.createdAt /\ g.issuer = g.subject

LEMMA NewGrantFields ==
  ASSUME NEW r, NEW op
  PROVE  /\ NewGrant(r, op).id = op.grant
         /\ NewGrant(r, op).createdAt = op.at
         /\ NewGrant(r, op).revokedAt = NoTime
         /\ FromApproval(NewGrant(r, op))
BY DEF NewGrant, FromApproval

LEMMA RevokedFields ==
  ASSUME NEW g \in Grant, NEW t \in Nat
  PROVE  LET h == [g EXCEPT !.revokedAt = t]
         IN  /\ h.revokedAt = t /\ h.createdAt = g.createdAt /\ h.id = g.id
             /\ FromApproval(g) => FromApproval(h)
BY DEF Grant, FromApproval
(***************************************************************************)
(* What an accepted call keeps: nothing that is in the file goes away, and *)
(* only a pending request and a grant that is not revoked change.          *)
(***************************************************************************)
LEMMA RequestsAreKept ==
  ASSUME NEW f \in File, NEW op \in Call, Accepts(f, op),
         UniqueIDs(f.requests), UniqueIDs(f.grants), NEW r \in f.requests
  PROVE  \E s \in Result(f, op).requests :
           /\ s.id = r.id /\ s.createdAt = r.createdAt
           /\ r.status # "pending" => s = r
<1>1. CASE op.kind \in {"add", "create", "revoke"}
  BY <1>1, AddShape, CreateShape, RevokeShape
<1>2. CASE op.kind \in {"approve", "deny"}
  <2>1. op \in DecideCall
    BY <1>2, CallKinds
  <2>2. PICK x \in f.requests :
          /\ x.status = "pending"
          /\ Result(f, op).requests = (f.requests \ {x}) \cup {Settled(x, op)}
    BY <1>2, DecideShape
  <2>3. Settled(x, op).id = x.id /\ Settled(x, op).createdAt = x.createdAt
    BY <2>1, <2>2, SettledType DEF File
  <2>4. QED
    BY <2>2, <2>3
<1>. QED
  BY <1>1, <1>2, CallKinds

LEMMA GrantsAreKept ==
  ASSUME NEW f \in File, NEW op \in Call, Accepts(f, op),
         UniqueIDs(f.requests), UniqueIDs(f.grants), NEW g \in f.grants
  PROVE  \E h \in Result(f, op).grants :
           /\ h.id = g.id /\ h.createdAt = g.createdAt
           /\ g.revokedAt # NoTime => h = g
<1>1. CASE op.kind \in {"add", "create", "approve", "deny"}
  BY <1>1, AddShape, CreateShape, DecideShape
<1>2. CASE op.kind = "revoke"
  <2>1. op.at \in Nat
    BY <1>2, CallKinds DEF RevokeCall
  <2>2. PICK x \in f.grants :
          /\ x.revokedAt = NoTime
          /\ Result(f, op).grants = (f.grants \ {x}) \cup {[x EXCEPT !.revokedAt = op.at]}
    BY <1>2, RevokeShape
  <2>3. x \in Grant
    BY DEF File
  <2>4. [x EXCEPT !.revokedAt = op.at].id = x.id
        /\ [x EXCEPT !.revokedAt = op.at].createdAt = x.createdAt
    BY <2>1, <2>3, RevokedFields
  <2>5. QED
    BY <2>2, <2>4
<1>. QED
  BY <1>1, <1>2, CallKinds

LEMMA AppsAreKept ==
  ASSUME NEW f \in File, NEW op \in Call, Accepts(f, op),
         UniqueIDs(f.requests), UniqueIDs(f.grants)
  PROVE  f.apps \subseteq Result(f, op).apps
BY CallKinds, AddShape, CreateShape, DecideShape, RevokeShape

\* A call that a caller could have made stays one: what it decides or
\* revokes is still there, with its creation.
LEMMA CallsAreKept ==
  ASSUME NEW f \in File, NEW op \in Call, Accepts(f, op),
         UniqueIDs(f.requests), UniqueIDs(f.grants),
         NEW at \in Nat, NEW c \in Calls(f, at)
  PROVE  c \in Calls(Result(f, op), at)
<1>. DEFINE new == Result(f, op)
<1>1. /\ \A r \in f.requests : \E s \in new.requests :
           s.id = r.id /\ s.createdAt = r.createdAt
      /\ \A g \in f.grants : \E h \in new.grants :
           h.id = g.id /\ h.createdAt = g.createdAt
  BY RequestsAreKept, GrantsAreKept
<1>. HIDE DEF new
<1>2. CASE c \in AddCalls \cup CreateCalls(at)
  BY <1>2 DEF Calls, new
<1>3. CASE c \in ApproveCalls(f, at)
  <2>1. PICK r \in f.requests, grant \in GrantID :
          /\ r.createdAt <= at
          /\ c = [kind |-> "approve", id |-> r.id, grant |-> grant, at |-> at]
    BY <1>3 DEF ApproveCalls
  <2>2. c \in ApproveCalls(new, at)
    BY <1>1, <2>1 DEF ApproveCalls
  <2>3. QED
    BY <2>2 DEF Calls, new
<1>4. CASE c \in DenyCalls(f, at)
  <2>1. c \in DenyCalls(new, at)
    BY <1>1, <1>4 DEF DenyCalls
  <2>2. QED
    BY <2>1 DEF Calls, new
<1>5. CASE c \in RevokeCalls(f, at)
  <2>1. c \in RevokeCalls(new, at)
    BY <1>1, <1>5 DEF RevokeCalls
  <2>2. QED
    BY <2>1 DEF Calls, new
<1>. QED
  BY <1>2, <1>3, <1>4, <1>5 DEF Calls

(***************************************************************************)
(* Evaluate                                                                *)
(***************************************************************************)
\* A root has no ancestors.
LEMMA RootLineage ==
  ASSUME NEW gs \in SUBSET Grant, NEW g \in gs, g.parent = NoGrant
  PROVE  Lineage(g, gs) = {g}
<1>1. \A p \in gs : p.id # g.parent
  BY GrantIDsAssumption DEF Grant
<1>2. g \in Lineage(g, gs)
  BY DEF Lineage
<1>3. ASSUME NEW h \in Lineage(g, gs)
      PROVE  h = g
  <2>1. {g} \in SUBSET gs
    OBVIOUS
  <2>2. \A k \in {g}, p \in gs : p.id = k.parent => p \in {g}
    BY <1>1
  <2>3. h \in {g}
    BY <1>3, <2>1, <2>2 DEF Lineage
  <2>4. QED
    BY <2>3
<1>. QED
  BY <1>2, <1>3

\* Evaluate allows exactly when a grant that matches the request is active
\* with all its ancestors.
LEMMA AllowedIffUsable ==
  ASSUME NEW gs, NEW q, NEW t
  PROVE  Evaluate(gs, q, t).allowed <=>
           \E g \in gs : /\ Candidate(g, q) /\ Permits(g, q) /\ TaskMatches(g, q)
                        /\ LineageActive(g, gs, t)
<1>. DEFINE inTask == {g \in {h \in {k \in gs : Candidate(k, q)} : Permits(h, q)} : TaskMatches(g, q)}
            usable == {g \in inTask : LineageActive(g, gs, t)}
<1>1. CASE usable # {}
  <2>1. Evaluate(gs, q, t) = AllowDecision(Lineage(First(usable), gs))
    BY <1>1 DEF Evaluate
  <2>2. Evaluate(gs, q, t).allowed
    BY <2>1 DEF AllowDecision
  <2>3. QED
    BY <1>1, <2>2
<1>2. CASE usable = {}
  <2>1. \E reason, ids : Evaluate(gs, q, t) = DenyDecision(reason, ids)
    BY <1>2 DEF Evaluate
  <2>2. ~Evaluate(gs, q, t).allowed
    BY <2>1 DEF DenyDecision
  <2>3. QED
    BY <1>2, <2>2
<1>. QED
  BY <1>1, <1>2

\* A set of numbers has a least one.  The provers do no induction; this comes
\* from the finite sets 0..m being well founded by inclusion.
LEMMA LeastNumber ==
  ASSUME NEW T \in SUBSET Nat, T # {}
  PROVE  \E x \in T : \A y \in T : x <= y
<1>1. PICK n \in T : TRUE
  OBVIOUS
<1>. DEFINE R == StrictSubsetOrdering(0..n)
            Segments == {0..m : m \in {k \in T : k <= n}}
<1>2. IsWellFoundedOn(R, SUBSET (0..n))
  <2>1. IsFiniteSet(0..n)
    BY FS_Interval
  <2>2. FiniteSubsetsOf(0..n) = SUBSET (0..n)
    BY <2>1, FS_FiniteSubsetsOfFinite
  <2>3. QED
    BY <2>2, FS_StrictSubsetOrderingWellFounded
<1>3. Segments \subseteq SUBSET (0..n) /\ Segments # {}
  BY <1>1
<1>4. PICK D \in Segments : \A E \in Segments : ~ (<<E, D>> \in R)
  <2>. HIDE DEF R, Segments
  <2>. QED
    BY <1>2, <1>3, WFMin
<1>5. PICK x \in T : x <= n /\ D = 0..x
  OBVIOUS
<1>6. ASSUME NEW y \in T, y < x PROVE FALSE
  <2>1. 0..y \in Segments
    BY <1>5, <1>6
  <2>2. 0..y \subseteq 0..x /\ 0..y # 0..x /\ 0..y \in SUBSET (0..n) /\ 0..x \in SUBSET (0..n)
    BY <1>1, <1>5, <1>6
  <2>3. <<0..y, 0..x>> \in R
    BY <2>2 DEF StrictSubsetOrdering
  <2>4. QED
    BY <1>4, <1>5, <2>1, <2>3
<1>. QED
  BY <1>6

\* First takes a grant of the set.
LEMMA FirstIsLeast ==
  ASSUME NEW gs \in SUBSET Grant, gs # {}
  PROVE  First(gs) \in gs /\ \A h \in gs : First(gs).id <= h.id
<1>1. {g.id : g \in gs} \in SUBSET Nat /\ {g.id : g \in gs} # {}
  BY GrantIDsAssumption DEF Grant
<1>2. PICK i \in {g.id : g \in gs} : \A k \in {g.id : g \in gs} : i <= k
  BY <1>1, LeastNumber
<1>3. \E g \in gs : \A h \in gs : g.id <= h.id
  BY <1>2
<1>. QED
  BY <1>3 DEF First

Matches(g, q) == Candidate(g, q) /\ Permits(g, q) /\ TaskMatches(g, q)

\* The decision over grants that have no parent: an allow names one grant,
\* which matches and is active, and a denial means that there is none.
LEMMA RootDecision ==
  ASSUME NEW gs \in SUBSET Grant, \A g \in gs : g.parent = NoGrant, NEW q, NEW t
  PROVE  /\ Evaluate(gs, q, t) \in Decision
         /\ Evaluate(gs, q, t).allowed <=> \E g \in gs : Matches(g, q) /\ ActiveAt(g, t)
         /\ Evaluate(gs, q, t).allowed =>
              \E g \in gs : /\ Matches(g, q) /\ ActiveAt(g, t)
                            /\ Evaluate(gs, q, t).grants = {g.id}
<1>. DEFINE candidates == {g \in gs : Candidate(g, q)}
            permitting == {g \in candidates : Permits(g, q)}
            inTask == {g \in permitting : TaskMatches(g, q)}
            usable == {g \in inTask : LineageActive(g, gs, t)}
            blocker == Blocker(First(inTask), gs, t)
<1>1. \A g \in gs : Lineage(g, gs) = {g} /\ (LineageActive(g, gs, t) <=> ActiveAt(g, t)) /\ g.id \in GrantID
  BY RootLineage DEF LineageActive, Grant
<1>2. Evaluate(gs, q, t).allowed <=> \E g \in gs : Matches(g, q) /\ ActiveAt(g, t)
  BY <1>1, AllowedIffUsable DEF Matches
<1>3. CASE usable # {}
  <2>1. Evaluate(gs, q, t) = AllowDecision(Lineage(First(usable), gs))
    BY <1>3 DEF Evaluate
  <2>2. First(usable) \in usable
    BY <1>3, FirstIsLeast
  <2>3. Lineage(First(usable), gs) = {First(usable)}
    BY <1>1, <2>2
  <2>4. Evaluate(gs, q, t) = [allowed |-> TRUE, reason |-> "matching_grant", grants |-> {First(usable).id}]
    BY <2>1, <2>3 DEF AllowDecision, IDs
  <2>5. Evaluate(gs, q, t) \in Decision /\ Evaluate(gs, q, t).grants = {First(usable).id}
    BY <1>1, <2>2, <2>4 DEF Decision, ReasonCode
  <2>6. QED
    BY <1>1, <1>2, <2>2, <2>5 DEF Matches
<1>4. CASE usable = {} /\ inTask # {}
  <2>1. Evaluate(gs, q, t) = DenyDecision(InactiveReason(blocker, t), {blocker.id})
    BY <1>4 DEF Evaluate
  <2>2. First(inTask) \in inTask
    BY <1>4, FirstIsLeast
  <2>3. blocker = First(inTask)
    BY <1>1, <1>4, <2>2 DEF Blocker
  <2>4. InactiveReason(blocker, t) \in ReasonCode
    BY DEF InactiveReason, ReasonCode
  <2>5. Evaluate(gs, q, t) \in Decision /\ ~Evaluate(gs, q, t).allowed
    BY <1>1, <2>1, <2>2, <2>3, <2>4 DEF DenyDecision, Decision, ReasonCode
  <2>6. QED
    BY <1>2, <2>5
<1>5. CASE usable = {} /\ inTask = {} /\ permitting # {}
  <2>1. Evaluate(gs, q, t) = DenyDecision("task_mismatch", {First(permitting).id})
    BY <1>5 DEF Evaluate
  <2>2. First(permitting) \in permitting
    BY <1>5, FirstIsLeast
  <2>3. Evaluate(gs, q, t) \in Decision /\ ~Evaluate(gs, q, t).allowed
    BY <1>1, <2>1, <2>2 DEF DenyDecision, Decision, ReasonCode
  <2>4. QED
    BY <1>2, <2>3
<1>6. CASE usable = {} /\ inTask = {} /\ permitting = {}
  <2>1. \E reason \in ReasonCode : Evaluate(gs, q, t) = DenyDecision(reason, {})
    BY <1>6 DEF Evaluate, ReasonCode
  <2>2. Evaluate(gs, q, t) \in Decision /\ ~Evaluate(gs, q, t).allowed
    BY <2>1 DEF DenyDecision, Decision
  <2>3. QED
    BY <1>2, <2>2
<1>. QED
  BY <1>3, <1>4, <1>5, <1>6
=============================================================================
