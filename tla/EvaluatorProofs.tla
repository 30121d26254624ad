--------------------------- MODULE EvaluatorProofs -------------------------
(***************************************************************************)
(* Proofs about Evaluator: its type invariant, that an allow rests on a    *)
(* chain of grants with the requested authority however long it is, that   *)
(* the loop reaches the decision of the definition Evaluate, and that a    *)
(* revocation only takes away.  The facts about Evaluate itself come from  *)
(* AuthzFileProofs.                                                        *)
(***************************************************************************)
EXTENDS Evaluator, AuthzFileProofs

(***************************************************************************)
(* A grant that matches everything the climb has to preserve.              *)
(***************************************************************************)
Authorizes(g) ==
  /\ g.subject = request.subject /\ g.app = request.app
  /\ Permits(g, request) /\ TaskMatches(g, request)

\* Containment of permissions is transitive: what a covered permission
\* covers is covered (ContainsPermission, then Contains).
LEMMA CoversTransitive ==
  ASSUME NEW p, NEW q, NEW r, Covers(p, q), Covers(q, r)
  PROVE  Covers(p, r)
BY DEF Covers

\* A parent has the authority of the children that validation accepts.
LEMMA ParentAuthorizes ==
  ASSUME NEW child, NEW parent, ValidDerivedGrant(child, parent), Authorizes(child)
  PROVE  Authorizes(parent)
<1>1. parent.subject = request.subject /\ parent.app = request.app
  BY DEF ValidDerivedGrant, Authorizes
<1>2. TaskMatches(parent, request)
  BY DEF ValidDerivedGrant, Authorizes, TaskMatches
<1>3. Permits(parent, request)
  <2>1. PICK c \in child.perms : Covers(c, request)
    BY DEF Authorizes, Permits
  <2>2. PICK p \in parent.perms : Covers(p, c)
    BY <2>1 DEF ValidDerivedGrant
  <2>3. Covers(p, request)
    BY <2>1, <2>2, CoversTransitive
  <2>4. QED
    BY <2>2, <2>3 DEF Permits
<1>4. QED
  BY <1>1, <1>2, <1>3 DEF Authorizes

(***************************************************************************)
(* The type invariant                                                      *)
(***************************************************************************)
LEMMA InputTypes ==
  ASSUME input \in Inputs
  PROVE  /\ grants \in SUBSET Grant /\ request \in Request /\ now \in Nat
BY InputsAssumption DEF grants, request, now

\* The ids of grants are grant ids, so the decisions name grant ids only.
LEMMA IDsType ==
  ASSUME NEW S \in SUBSET Grant
  PROVE  IDs(S) \in SUBSET GrantID
BY DEF IDs, Grant

LEMMA TypeInit == Init => TypeOK
<1>. SUFFICES ASSUME Init PROVE TypeOK
  OBVIOUS
<1>1. grants = input.grants
  BY DEF grants
<1>. QED
  BY <1>1 DEF Init, TypeOK, NoDecision, Unblocked, Reasons, ReasonCode

LEMMA TypeStep == TypeOK /\ [Next]_vars => TypeOK'
<1>. SUFFICES ASSUME TypeOK, [Next]_vars PROVE TypeOK'
  OBVIOUS
<1>0. grants \in SUBSET Grant /\ input \in Inputs
  BY InputTypes DEF TypeOK
<1>. USE DEF TypeOK, scanVars, grants
<1>1. CASE Accept
  BY <1>1 DEF Accept
<1>2. CASE Reject
  BY <1>2 DEF Reject, Invalid, Reasons, ReasonCode
<1>3. ASSUME NEW g \in todo, Scan(g) PROVE TypeOK'
  <2>1. g \in grants /\ g.id \in GrantID
    BY <1>0 DEF Grant
  <2>2. FirstPermission(g) \in GrantID \cup {NoGrant}
    BY <2>1 DEF FirstPermission
  <2>3. CASE SkipOther(g)
    BY <2>3 DEF SkipOther
  <2>4. CASE SkipPermission(g)
    BY <2>4 DEF SkipPermission
  <2>5. CASE SkipTask(g)
    BY <2>5, <2>2 DEF SkipTask
  <2>6. CASE StartClimb(g)
    BY <2>6, <2>1, <2>2 DEF StartClimb
  <2>7. QED
    BY <1>3, <2>3, <2>4, <2>5, <2>6 DEF Scan
<1>4. CASE Blocked
  <2>1. at \in grants /\ at.id \in GrantID
    BY <1>0, <1>4 DEF Blocked, Grant
  <2>2. inactive' \in {Unblocked} \cup [reason : Reasons, id : GrantID]
    BY <1>4, <2>1 DEF Blocked, InactiveReason, Reasons, ReasonCode
  <2>3. QED
    BY <1>4, <2>2 DEF Blocked
<1>5. CASE Climb
  BY <1>5 DEF Climb
<1>6. CASE ReachRoot
  <2>1. chain' \subseteq grants
    BY <1>6 DEF ReachRoot
  <2>2. decision' \in [allowed : BOOLEAN, reason : Reasons, grants : SUBSET GrantID]
    BY <1>0, <1>6, <2>1, IDsType DEF ReachRoot, AllowDecision, Reasons, ReasonCode
  <2>3. QED
    BY <1>6, <2>1, <2>2 DEF ReachRoot
<1>7. CASE Conclude
  <2>1. decision' \in [allowed : BOOLEAN, reason : Reasons, grants : SUBSET GrantID]
    <3>1. CASE inactive # Unblocked
      BY <1>7, <3>1 DEF Conclude, DenyDecision
    <3>2. CASE inactive = Unblocked /\ permission # NoGrant
      BY <1>7, <3>2 DEF Conclude, DenyDecision, Reasons, ReasonCode
    <3>3. CASE inactive = Unblocked /\ permission = NoGrant
      BY <1>7, <3>3 DEF Conclude, DenyDecision, Reasons, ReasonCode
    <3>4. QED
      BY <3>1, <3>2, <3>3
  <2>2. QED
    BY <1>7, <2>1 DEF Conclude
<1>8. CASE UNCHANGED vars
  BY <1>8 DEF vars
<1>9. QED
  BY <1>1, <1>2, <1>3, <1>4, <1>5, <1>6, <1>7, <1>8 DEF Next

\* The variables of the evaluation loop keep their types.
THEOREM EvaluatorTypes == Spec => []TypeOK
<1>1. Init => TypeOK
  BY TypeInit
<1>2. TypeOK /\ [Next]_vars => TypeOK'
  BY TypeStep
<1>. QED
  BY <1>1, <1>2, PTL DEF Spec

(***************************************************************************)
(* The authority of an allow.  AuthorityNeverBroadens alone is not         *)
(* inductive: the climb must carry what it has established of the grants   *)
(* below, and that the set of grants was accepted.                         *)
(***************************************************************************)
AuthorityInv ==
  /\ phase \in {"scan", "climb"} => ValidGrantSet(grants)
  /\ phase = "climb" =>
       /\ at \in grants /\ Authorizes(at)
       /\ \A g \in chain : g \in grants /\ GivesAuthority(g)
  /\ phase # "done" => ~decision.allowed
  /\ todo \subseteq grants
  /\ AuthorityNeverBroadens

LEMMA AuthorityInit == Init => AuthorityInv
BY DEF Init, AuthorityInv, AuthorityNeverBroadens, NoDecision, grants

LEMMA AuthorityStep == AuthorityInv /\ [Next]_vars => AuthorityInv'
<1>. SUFFICES ASSUME AuthorityInv, [Next]_vars PROVE AuthorityInv'
  OBVIOUS
<1>0. UNCHANGED input
  BY DEF Next, vars, Accept, Reject, Scan, SkipOther, SkipPermission, SkipTask,
         StartClimb, Blocked, Climb, ReachRoot, Conclude
<1>a. ASSUME ~decision'.allowed PROVE AuthorityNeverBroadens'
  BY <1>a DEF AuthorityNeverBroadens
<1>b. grants' = grants /\ request' = request /\ now' = now
  BY <1>0 DEF grants, request, now
<1>1. CASE Accept
  BY <1>1, <1>a, <1>b DEF Accept, AuthorityInv, scanVars
<1>2. CASE Reject
  BY <1>2, <1>a, <1>b DEF Reject, AuthorityInv, scanVars, Invalid
<1>3. ASSUME NEW g \in todo, Scan(g) PROVE AuthorityInv'
  <2>1. CASE SkipOther(g)
    BY <2>1, <1>a, <1>b DEF SkipOther, Scanning, AuthorityInv
  <2>2. CASE SkipPermission(g)
    BY <2>2, <1>a, <1>b DEF SkipPermission, Scanning, AuthorityInv
  <2>3. CASE SkipTask(g)
    BY <2>3, <1>a, <1>b DEF SkipTask, Scanning, AuthorityInv
  <2>4. CASE StartClimb(g)
    <3>1. g \in grants /\ Authorizes(g)
      BY <2>4 DEF StartClimb, Candidate, Authorizes, AuthorityInv
    <3>2. Authorizes(at)'
      BY <3>1, <2>4, <1>b DEF StartClimb, Authorizes, Permits, TaskMatches
    <3>3. QED
      BY <2>4, <3>1, <3>2, <1>a, <1>b DEF StartClimb, Scanning, AuthorityInv
  <2>5. QED
    BY <1>3, <2>1, <2>2, <2>3, <2>4 DEF Scan
<1>4. CASE Blocked
  BY <1>4, <1>a, <1>b DEF Blocked, AuthorityInv, scanVars
<1>5. CASE Climb
  <2>1. at \in grants /\ Authorizes(at) /\ ValidGrantSet(grants)
    BY <1>5 DEF Climb, AuthorityInv
  <2>2. at' \in grants /\ at'.id = at.parent
    BY <1>5 DEF Climb
  <2>3. ValidDerivedGrant(at, at')
    <3>1. PICK p \in grants : p.id = at.parent /\ ValidDerivedGrant(at, p)
      BY <1>5, <2>1 DEF Climb, ValidGrantSet
    <3>2. p = at'
      BY <3>1, <2>1, <2>2 DEF ValidGrantSet
    <3>3. QED
      BY <3>1, <3>2
  <2>4. Authorizes(at')
    BY <2>1, <2>3, ParentAuthorizes
  <2>5. Authorizes(at)'
    BY <2>4, <1>b DEF Authorizes, Permits, TaskMatches
  <2>6. GivesAuthority(at)
    BY <1>5, <2>1 DEF Climb, Authorizes, GivesAuthority
  <2>7. \A g \in chain' : g \in grants /\ GivesAuthority(g)
    BY <1>5, <2>1, <2>6 DEF Climb, AuthorityInv
  <2>8. (\A g \in chain : g \in grants /\ GivesAuthority(g))'
    BY <2>7, <1>b DEF GivesAuthority, Permits, TaskMatches
  <2>9. phase' = "climb" /\ ~decision'.allowed /\ todo' \subseteq grants
    BY <1>5 DEF Climb, AuthorityInv, scanVars
  <2>10. QED
    BY <2>1, <2>2, <2>5, <2>8, <2>9, <1>a, <1>b DEF AuthorityInv
<1>6. CASE ReachRoot
  <2>1. at \in grants /\ Authorizes(at) /\ ValidGrantSet(grants)
    BY <1>6 DEF ReachRoot, AuthorityInv
  <2>2. GivesAuthority(at)
    BY <1>6, <2>1 DEF ReachRoot, Authorizes, GivesAuthority
  <2>3. \A g \in chain' : g \in grants /\ GivesAuthority(g)
    BY <1>6, <2>1, <2>2 DEF ReachRoot, AuthorityInv
  <2>4. at \in chain' /\ decision'.grants = IDs(chain')
    BY <1>6 DEF ReachRoot, AllowDecision
  <2>5. at.issuer = request.subject /\ at.parent = NoGrant
    BY <1>6, <2>1 DEF ReachRoot, ValidGrantSet, ValidGrant, Authorizes
  <2>6. \A i \in decision'.grants : \E g \in grants : g.id = i /\ GivesAuthority(g)
    BY <2>3, <2>4 DEF IDs
  <2>7. \E g \in grants : /\ g.id \in decision'.grants
                         /\ g.issuer = request.subject /\ g.parent = NoGrant
    BY <2>1, <2>4, <2>5 DEF IDs
  <2>8. (\A i \in decision.grants : \E g \in grants : g.id = i /\ GivesAuthority(g))'
    BY <2>6, <1>b DEF GivesAuthority, Permits, TaskMatches
  <2>9. AuthorityNeverBroadens'
    BY <2>7, <2>8, <1>b DEF AuthorityNeverBroadens
  <2>10. QED
    BY <1>6, <2>9, <1>b DEF ReachRoot, AuthorityInv, scanVars
<1>7. CASE Conclude
  <2>1. ~decision'.allowed
    BY <1>7 DEF Conclude, DenyDecision
  <2>2. QED
    BY <1>7, <2>1, <1>a, <1>b DEF Conclude, AuthorityInv, scanVars
<1>8. CASE UNCHANGED vars
  <2>1. UNCHANGED <<phase, todo, at, chain, decision>>
    BY <1>8 DEF vars
  <2>2. (phase = "climb" =>
           /\ at \in grants /\ Authorizes(at)
           /\ \A g \in chain : g \in grants /\ GivesAuthority(g))'
    BY <2>1, <1>b DEF AuthorityInv, Authorizes, GivesAuthority, Permits, TaskMatches
  <2>3. AuthorityNeverBroadens'
    BY <2>1, <1>b DEF AuthorityInv, AuthorityNeverBroadens, GivesAuthority, Permits,
                      TaskMatches
  <2>4. QED
    BY <2>1, <2>2, <2>3, <1>b DEF AuthorityInv
<1>9. QED
  BY <1>1, <1>2, <1>3, <1>4, <1>5, <1>6, <1>7, <1>8 DEF Next

\* Every grant an allow rests on contains the requested authority and is
\* active, up to a root issued by the human, for every set of grants.
THEOREM AuthorityIsBounded == Spec => []AuthorityNeverBroadens
<1>1. Init => AuthorityInv
  BY AuthorityInit
<1>2. AuthorityInv /\ [Next]_vars => AuthorityInv'
  BY AuthorityStep
<1>3. AuthorityInv => AuthorityNeverBroadens
  BY DEF AuthorityInv
<1>. QED
  BY <1>1, <1>2, <1>3, PTL DEF Spec

(***************************************************************************)
(* Ancestors.  Lineage is defined as a least set; the climb goes from      *)
(* parent to parent.  These lemmas say that it is the same, and that no    *)
(* two grants of an accepted set are ancestors of each other.              *)
(***************************************************************************)
UpClosed(S, gs) == \A h \in S, p \in gs : p.id = h.parent => p \in S

LEMMA LineageIsLeast ==
  ASSUME NEW gs, NEW g \in gs
  PROVE  /\ g \in Lineage(g, gs) /\ Lineage(g, gs) \subseteq gs
         /\ UpClosed(Lineage(g, gs), gs)
         /\ \A S \in SUBSET gs : g \in S /\ UpClosed(S, gs) => Lineage(g, gs) \subseteq S
<1>1. g \in Lineage(g, gs) /\ Lineage(g, gs) \subseteq gs
  BY DEF Lineage
<1>2. \A S \in SUBSET gs : g \in S /\ UpClosed(S, gs) => Lineage(g, gs) \subseteq S
  BY DEF Lineage, UpClosed
<1>3. ASSUME NEW h \in Lineage(g, gs), NEW p \in gs, p.id = h.parent
      PROVE  p \in Lineage(g, gs)
  <2>1. ASSUME NEW S \in SUBSET gs, g \in S, UpClosed(S, gs)
        PROVE  p \in S
    <3>1. h \in S
      BY <1>2, <1>3, <2>1
    <3>2. QED
      BY <1>3, <2>1, <3>1 DEF UpClosed
  <2>2. QED
    BY <1>3, <2>1 DEF Lineage, UpClosed
<1>. QED
  BY <1>1, <1>2, <1>3 DEF UpClosed

LEMMA LineageOfAncestor ==
  ASSUME NEW gs, NEW g \in gs, NEW h \in Lineage(g, gs)
  PROVE  h \in gs /\ Lineage(h, gs) \subseteq Lineage(g, gs)
<1>1. h \in gs /\ Lineage(g, gs) \in SUBSET gs /\ UpClosed(Lineage(g, gs), gs)
  BY LineageIsLeast
<1>. QED
  BY <1>1, LineageIsLeast

LEMMA LineageOfChild ==
  ASSUME NEW gs, UniqueIDs(gs), NEW g \in gs, NEW p \in gs, p.id = g.parent
  PROVE  Lineage(g, gs) = {g} \cup Lineage(p, gs)
<1>. DEFINE S == {g} \cup Lineage(p, gs)
<1>1. p \in Lineage(p, gs) /\ Lineage(p, gs) \subseteq gs /\ UpClosed(Lineage(p, gs), gs)
  BY LineageIsLeast
<1>2. S \in SUBSET gs /\ g \in S
  BY <1>1
<1>3. UpClosed(S, gs)
  BY <1>1 DEF UpClosed, UniqueIDs
<1>4. Lineage(g, gs) \subseteq S
  BY <1>2, <1>3, LineageIsLeast
<1>5. g \in Lineage(g, gs) /\ p \in Lineage(g, gs)
  BY LineageIsLeast DEF UpClosed
<1>6. Lineage(p, gs) \subseteq Lineage(g, gs)
  BY <1>5, LineageOfAncestor
<1>. QED
  BY <1>4, <1>5, <1>6

LEMMA NoMutualAncestors ==
  ASSUME NEW gs \in SUBSET Grant, ValidGrantSet(gs), NEW g \in gs,
         NEW h \in Lineage(g, gs), g \in Lineage(h, gs)
  PROVE  h = g
<1>. SUFFICES ASSUME h # g PROVE FALSE
  OBVIOUS
<1>. DEFINE S == {k \in gs : k \in Lineage(g, gs) /\ g \in Lineage(k, gs)}
<1>1. g \in Lineage(g, gs) /\ g \in S /\ S \in SUBSET gs
  BY LineageIsLeast
<1>2. PICK k \in S : \A p \in S : p.id # k.parent
  BY <1>1 DEF ValidGrantSet, Acyclic
<1>3. UniqueIDs(gs)
  BY DEF ValidGrantSet, UniqueIDs
<1>4. CASE k.parent = NoGrant
  <2>1. Lineage(k, gs) = {k}
    BY <1>4, RootLineage
  <2>2. k = g
    BY <2>1
  <2>3. QED
    BY <2>1, <2>2
<1>5. CASE k.parent # NoGrant
  <2>1. PICK p \in gs : p.id = k.parent
    BY <1>5 DEF ValidGrantSet
  <2>2. Lineage(k, gs) = {k} \cup Lineage(p, gs)
    BY <1>3, <2>1, LineageOfChild
  <2>3. p \in Lineage(k, gs)
    BY <2>2, LineageIsLeast
  <2>4. p \in Lineage(g, gs)
    BY <2>3, LineageOfAncestor
  <2>5. CASE k # g
    <3>1. g \in Lineage(p, gs)
      BY <2>2, <2>5
    <3>2. QED
      BY <1>2, <2>1, <2>4, <3>1
  <2>6. CASE k = g
    <3>1. h \in Lineage(p, gs)
      BY <2>2, <2>6
    <3>2. g \in Lineage(p, gs)
      BY <3>1, LineageOfAncestor
    <3>3. QED
      BY <1>2, <2>1, <2>4, <3>2
  <2>7. QED
    BY <2>5, <2>6
<1>. QED
  BY <1>4, <1>5

\* The grant where the climb from s stops is the one that Blocker chooses.
LEMMA StopIsBlocker ==
  ASSUME NEW gs \in SUBSET Grant, ValidGrantSet(gs), NEW s \in gs, NEW t, NEW up,
         NEW a \in Lineage(s, gs), ~ActiveAt(a, t),
         Lineage(s, gs) = up \cup Lineage(a, gs), \A h \in up : ActiveAt(h, t)
  PROVE  Blocker(s, gs, t) = a
<1>. DEFINE Stopped(h) == {b \in Lineage(h, gs) : ~ActiveAt(b, t)}
<1>1. a \in gs /\ a \in Stopped(s)
  BY LineageOfAncestor
<1>2. Stopped(s) \subseteq Stopped(a)
  OBVIOUS
<1>3. ASSUME NEW b \in Stopped(s), Stopped(s) \subseteq Stopped(b)
      PROVE  b = a
  <2>1. b \in Lineage(a, gs) /\ a \in Lineage(b, gs)
    BY <1>1, <1>2, <1>3
  <2>2. QED
    BY <1>1, <2>1, NoMutualAncestors
<1>. HIDE DEF Stopped
<1>4. (CHOOSE b \in Stopped(s) : Stopped(s) \subseteq Stopped(b)) = a
  BY <1>1, <1>2, <1>3
<1>. QED
  BY <1>4 DEF Blocker, Stopped

\* First is the grant with the least id, and the only one.
LEMMA FirstIs ==
  ASSUME NEW gs \in SUBSET Grant, UniqueIDs(gs), NEW g \in gs, \A h \in gs : g.id <= h.id
  PROVE  First(gs) = g
<1>1. First(gs) \in gs /\ First(gs).id <= g.id /\ g.id <= First(gs).id
  BY FirstIsLeast
<1>2. First(gs).id \in Nat /\ g.id \in Nat
  BY <1>1, GrantIDsAssumption DEF Grant
<1>3. First(gs).id = g.id
  BY <1>1, <1>2
<1>. QED
  BY <1>1, <1>3 DEF UniqueIDs

(***************************************************************************)
(* What the loop knows: of the grants D it has looked at, of the grant s   *)
(* it climbs from, and of the grants left that it has not looked at.       *)
(***************************************************************************)
Candidates(gs, q) == {g \in gs : Candidate(g, q)}
Permitting(gs, q) == {g \in Candidates(gs, q) : Permits(g, q)}
InTask(gs, q)     == {g \in Permitting(gs, q) : TaskMatches(g, q)}
Usable(gs, q, t)  == {g \in InTask(gs, q) : LineageActive(g, gs, t)}

Stop(g, t) == [reason |-> InactiveReason(g, t), id |-> g.id]

\* No grant of D that matches is usable; the stop is that of the first.
Found(D, gs, q, t, stop) ==
  /\ \A g \in InTask(gs, q) \cap D : ~LineageActive(g, gs, t)
  /\ stop = Unblocked => InTask(gs, q) \cap D = {}
  /\ stop # Unblocked =>
       InTask(gs, q) # {} /\ stop = Stop(Blocker(First(InTask(gs, q)), gs, t), t)

Noted(D, gs, q, cand, perm) ==
  /\ cand <=> Candidates(gs, q) \cap D # {}
  /\ perm = NoGrant => Permitting(gs, q) \cap D = {}
  /\ perm # NoGrant => Permitting(gs, q) # {} /\ perm = First(Permitting(gs, q)).id

InOrder(gs, left) == left \subseteq gs /\ \A g \in gs \ left, h \in left : g.id < h.id

\* The climb from s has reached a; up are the grants it found active.
Climbs(s, gs, q, t, left, stop, a, up) ==
  /\ s \in InTask(gs, q) /\ s \notin left
  /\ \A g \in gs \ left : g.id <= s.id
  /\ Found((gs \ left) \ {s}, gs, q, t, stop)
  /\ a \in Lineage(s, gs)
  /\ Lineage(s, gs) = up \cup Lineage(a, gs)
  /\ \A h \in up : ActiveAt(h, t)

LEMMA EvaluateCases ==
  ASSUME NEW gs, NEW q, NEW t
  PROVE  /\ Usable(gs, q, t) # {} =>
              Evaluate(gs, q, t) = AllowDecision(Lineage(First(Usable(gs, q, t)), gs))
         /\ Usable(gs, q, t) = {} /\ InTask(gs, q) # {} =>
              LET b == Blocker(First(InTask(gs, q)), gs, t)
              IN  Evaluate(gs, q, t) = DenyDecision(InactiveReason(b, t), {b.id})
         /\ Usable(gs, q, t) = {} /\ InTask(gs, q) = {} /\ Permitting(gs, q) # {} =>
              Evaluate(gs, q, t) = DenyDecision("task_mismatch", {First(Permitting(gs, q)).id})
         /\ Usable(gs, q, t) = {} /\ InTask(gs, q) = {} /\ Permitting(gs, q) = {}
              /\ Candidates(gs, q) # {} =>
              Evaluate(gs, q, t) = DenyDecision("permission_not_granted", {})
         /\ Usable(gs, q, t) = {} /\ InTask(gs, q) = {} /\ Permitting(gs, q) = {}
              /\ Candidates(gs, q) = {} =>
              Evaluate(gs, q, t) = DenyDecision("no_matching_grant", {})
BY DEF Evaluate, Usable, InTask, Permitting, Candidates

LEMMA NextInOrder ==
  ASSUME NEW gs \in SUBSET Grant, UniqueIDs(gs), NEW left, InOrder(gs, left),
         NEW g \in left, g = First(left)
  PROVE  /\ g \in gs /\ InOrder(gs, left \ {g})
         /\ \A h \in gs \ left : h.id < g.id
         /\ \A h \in left \ {g} : g.id < h.id
<1>1. left \in SUBSET Grant /\ left # {} /\ g \in gs /\ g.id \in Nat
  BY GrantIDsAssumption DEF InOrder, Grant
<1>2. \A h \in left : g.id <= h.id /\ h.id \in Nat
  BY <1>1, FirstIsLeast, GrantIDsAssumption DEF Grant
<1>3. \A h \in left \ {g} : g.id < h.id
  BY <1>1, <1>2 DEF UniqueIDs, InOrder
<1>4. \A h \in gs \ left : h.id < g.id
  BY DEF InOrder
<1>. QED
  BY <1>1, <1>3, <1>4 DEF InOrder

(***************************************************************************)
(* One grant more has been looked at                                       *)
(***************************************************************************)
LEMMA NotedCandidate ==
  ASSUME NEW gs \in SUBSET Grant, UniqueIDs(gs), NEW left, InOrder(gs, left),
         NEW g \in left, g = First(left), NEW q, NEW cand \in BOOLEAN, NEW perm,
         Noted(gs \ left, gs, q, cand, perm)
  PROVE  /\ ~Candidate(g, q) => Noted(gs \ (left \ {g}), gs, q, cand, perm)
         /\ Candidate(g, q) /\ ~Permits(g, q) =>
              Noted(gs \ (left \ {g}), gs, q, TRUE, perm)
         /\ Candidate(g, q) /\ Permits(g, q) /\ perm = NoGrant =>
              Noted(gs \ (left \ {g}), gs, q, TRUE, g.id)
         /\ Candidate(g, q) /\ Permits(g, q) /\ perm # NoGrant =>
              Noted(gs \ (left \ {g}), gs, q, TRUE, perm)
<1>1. /\ g \in gs /\ gs \ (left \ {g}) = (gs \ left) \cup {g}
      /\ \A h \in left \ {g} : g.id < h.id
  BY NextInOrder
<1>2. CASE ~Candidate(g, q)
  BY <1>1, <1>2 DEF Noted, Candidates, Permitting
<1>3. CASE Candidate(g, q) /\ ~Permits(g, q)
  BY <1>1, <1>3 DEF Noted, Candidates, Permitting
<1>4. CASE Candidate(g, q) /\ Permits(g, q)
  <2>1. g \in Permitting(gs, q) /\ g \in Candidates(gs, q)
    BY <1>1, <1>4 DEF Permitting, Candidates
  <2>2. CASE perm # NoGrant
    <3>1. Noted(gs \ (left \ {g}), gs, q, TRUE, perm)
      BY <1>1, <2>1, <2>2 DEF Noted
    <3>2. QED
      BY <1>4, <2>2, <3>1
  <2>3. CASE perm = NoGrant
    <3>1. Permitting(gs, q) \cap (gs \ left) = {}
      BY <2>3 DEF Noted
    <3>2. Permitting(gs, q) \subseteq gs
      BY DEF Permitting, Candidates
    <3>3. g.id \in GrantID /\ g.id # NoGrant /\ g.id \in Nat
      BY <1>1, GrantIDsAssumption DEF Grant
    <3>4. \A h \in Permitting(gs, q) : g.id <= h.id
      <4>. SUFFICES ASSUME NEW h \in Permitting(gs, q), h # g PROVE g.id <= h.id
        BY <3>3
      <4>1. h \in left \ {g} /\ h.id \in Nat
        BY <3>1, <3>2, GrantIDsAssumption DEF Grant
      <4>2. QED
        BY <1>1, <3>3, <4>1
    <3>5. First(Permitting(gs, q)) = g
      BY <2>1, <3>2, <3>4, FirstIs DEF UniqueIDs
    <3>6. Noted(gs \ (left \ {g}), gs, q, TRUE, g.id)
      BY <1>1, <2>1, <3>3, <3>5 DEF Noted
    <3>7. QED
      BY <1>4, <2>3, <3>6
  <2>4. QED
    BY <1>4, <2>2, <2>3
<1>. QED
  BY <1>2, <1>3, <1>4

LEMMA FoundSkipped ==
  ASSUME NEW gs, NEW left, left \subseteq gs, NEW g \in left, NEW q, NEW t, NEW stop,
         g \notin InTask(gs, q), Found(gs \ left, gs, q, t, stop)
  PROVE  Found(gs \ (left \ {g}), gs, q, t, stop)
<1>1. gs \ (left \ {g}) = (gs \ left) \cup {g}
  OBVIOUS
<1>2. InTask(gs, q) \cap (gs \ (left \ {g})) = InTask(gs, q) \cap (gs \ left)
  BY <1>1
<1>. QED
  BY <1>2 DEF Found

(***************************************************************************)
(* The climb                                                               *)
(***************************************************************************)
LEMMA ClimbStarts ==
  ASSUME NEW gs \in SUBSET Grant, UniqueIDs(gs), NEW left, InOrder(gs, left),
         NEW g \in left, g = First(left), NEW q, NEW t, NEW stop,
         g \in InTask(gs, q), Found(gs \ left, gs, q, t, stop)
  PROVE  Climbs(g, gs, q, t, left \ {g}, stop, g, {})
<1>1. /\ g \in gs /\ (gs \ (left \ {g})) \ {g} = gs \ left
      /\ gs \ (left \ {g}) = (gs \ left) \cup {g}
  BY NextInOrder
<1>2. \A h \in gs : h.id \in Nat
  BY GrantIDsAssumption DEF Grant
<1>3. \A h \in gs \ left : h.id < g.id
  BY NextInOrder
<1>4. \A h \in gs \ (left \ {g}) : h.id <= g.id
  BY <1>1, <1>2, <1>3
<1>5. g \in Lineage(g, gs)
  BY <1>1, LineageIsLeast
<1>. QED
  BY <1>1, <1>4, <1>5 DEF Climbs

LEMMA ClimbGoesOn ==
  ASSUME NEW gs \in SUBSET Grant, UniqueIDs(gs), NEW s, NEW q, NEW t, NEW left,
         NEW stop, NEW a, NEW up, Climbs(s, gs, q, t, left, stop, a, up),
         ActiveAt(a, t), NEW p \in gs, p.id = a.parent
  PROVE  Climbs(s, gs, q, t, left, stop, p, up \cup {a})
<1>1. s \in gs /\ a \in Lineage(s, gs) /\ a \in gs
  BY LineageIsLeast DEF Climbs, InTask, Permitting, Candidates
<1>2. Lineage(a, gs) = {a} \cup Lineage(p, gs)
  BY <1>1, LineageOfChild
<1>3. p \in Lineage(s, gs)
  BY <1>1, LineageIsLeast DEF UpClosed
<1>4. Lineage(s, gs) = (up \cup {a}) \cup Lineage(p, gs)
  BY <1>2 DEF Climbs
<1>. QED
  BY <1>3, <1>4 DEF Climbs

\* s is the first of the matching grants that have been looked at, when none
\* was before it; and whatever is left comes after it.
LEMMA ClimbIsBlocked ==
  ASSUME NEW gs \in SUBSET Grant, ValidGrantSet(gs), NEW s, NEW q, NEW t, NEW left,
         InOrder(gs, left), NEW stop, NEW a, NEW up,
         Climbs(s, gs, q, t, left, stop, a, up), ~ActiveAt(a, t)
  PROVE  Found(gs \ left, gs, q, t, IF stop = Unblocked THEN Stop(a, t) ELSE stop)
<1>. DEFINE T == InTask(gs, q)
<1>1. s \in T /\ s \in gs \ left /\ T \subseteq gs /\ a \in Lineage(s, gs) /\ a \in gs
  BY LineageIsLeast DEF Climbs, InTask, Permitting, Candidates
<1>2. ~LineageActive(s, gs, t)
  BY <1>1 DEF LineageActive
<1>3. Found((gs \ left) \ {s}, gs, q, t, stop)
  BY DEF Climbs
<1>4. \A g \in T \cap (gs \ left) : ~LineageActive(g, gs, t)
  BY <1>2, <1>3 DEF Found
<1>5. CASE stop # Unblocked
  BY <1>3, <1>4, <1>5 DEF Found
<1>6. CASE stop = Unblocked
  <2>1. T \cap ((gs \ left) \ {s}) = {}
    BY <1>3, <1>6 DEF Found
  <2>2. \A g \in gs : g.id \in Nat /\ g.id # NoGrant
    BY GrantIDsAssumption DEF Grant
  <2>3. \A g \in T : s.id <= g.id
    BY <1>1, <2>1, <2>2 DEF InOrder
  <2>4. UniqueIDs(T) /\ T \in SUBSET Grant
    BY <1>1 DEF ValidGrantSet, UniqueIDs
  <2>5. First(T) = s
    BY <1>1, <2>3, <2>4, FirstIs
  <2>6. Blocker(s, gs, t) = a
    BY <1>1, StopIsBlocker DEF Climbs
  <2>7. Stop(a, t) # Unblocked
    BY <1>1, <2>2 DEF Stop, Unblocked
  <2>8. Found(gs \ left, gs, q, t, Stop(a, t))
    BY <1>1, <1>4, <2>5, <2>6, <2>7 DEF Found
  <2>9. QED
    BY <1>6, <2>8
<1>. QED
  BY <1>5, <1>6

LEMMA ClimbReachesRoot ==
  ASSUME NEW gs \in SUBSET Grant, ValidGrantSet(gs), NEW s, NEW q, NEW t, NEW left,
         InOrder(gs, left), NEW stop, NEW a, NEW up,
         Climbs(s, gs, q, t, left, stop, a, up), ActiveAt(a, t), a.parent = NoGrant
  PROVE  Evaluate(gs, q, t) = AllowDecision(up \cup {a})
<1>. DEFINE U == Usable(gs, q, t)
<1>1. s \in InTask(gs, q) /\ s \in gs \ left /\ U \subseteq gs
      /\ a \in gs /\ U \subseteq InTask(gs, q)
  BY LineageIsLeast DEF Climbs, InTask, Permitting, Candidates, Usable
<1>2. Lineage(a, gs) = {a}
  BY <1>1, RootLineage
<1>3. Lineage(s, gs) = up \cup {a}
  BY <1>2 DEF Climbs
<1>4. LineageActive(s, gs, t)
  BY <1>3 DEF LineageActive, Climbs
<1>5. s \in U
  BY <1>1, <1>4 DEF Usable
<1>6. U \cap ((gs \ left) \ {s}) = {}
  BY <1>1 DEF Climbs, Found, Usable
<1>7. \A g \in gs : g.id \in Nat
  BY GrantIDsAssumption DEF Grant
<1>8. \A g \in U : s.id <= g.id
  BY <1>1, <1>6, <1>7 DEF InOrder
<1>9. UniqueIDs(U) /\ U \in SUBSET Grant
  BY <1>1 DEF ValidGrantSet, UniqueIDs
<1>. HIDE DEF U
<1>10. First(U) = s
  BY <1>5, <1>8, <1>9, FirstIs
<1>11. Evaluate(gs, q, t) = AllowDecision(Lineage(s, gs))
  BY <1>5, <1>10, EvaluateCases DEF U
<1>. QED
  BY <1>3, <1>11

\* All grants have been looked at.
LEMMA NothingLeft ==
  ASSUME NEW gs \in SUBSET Grant, NEW q, NEW t, NEW stop, NEW cand, NEW perm,
         Found(gs, gs, q, t, stop), Noted(gs, gs, q, cand, perm)
  PROVE  Evaluate(gs, q, t) =
           IF stop # Unblocked THEN DenyDecision(stop.reason, {stop.id})
           ELSE IF perm # NoGrant THEN DenyDecision("task_mismatch", {perm})
           ELSE IF cand THEN DenyDecision("permission_not_granted", {})
           ELSE DenyDecision("no_matching_grant", {})
<1>1. /\ InTask(gs, q) \cap gs = InTask(gs, q) /\ Permitting(gs, q) \cap gs = Permitting(gs, q)
      /\ Candidates(gs, q) \cap gs = Candidates(gs, q)
  BY DEF InTask, Permitting, Candidates
<1>2. Usable(gs, q, t) = {}
  BY <1>1 DEF Found, Usable
<1>3. CASE stop # Unblocked
  <2>. DEFINE b == Blocker(First(InTask(gs, q)), gs, t)
  <2>1. InTask(gs, q) # {} /\ stop = Stop(b, t)
    BY <1>3 DEF Found
  <2>2. stop.reason = InactiveReason(b, t) /\ stop.id = b.id
    BY <2>1 DEF Stop
  <2>3. Evaluate(gs, q, t) = DenyDecision(InactiveReason(b, t), {b.id})
    BY <1>2, <2>1, EvaluateCases
  <2>4. QED
    BY <1>3, <2>2, <2>3
<1>4. CASE stop = Unblocked /\ perm # NoGrant
  <2>1. InTask(gs, q) = {} /\ Permitting(gs, q) # {} /\ perm = First(Permitting(gs, q)).id
    BY <1>1, <1>4 DEF Found, Noted
  <2>2. QED
    BY <1>2, <1>4, <2>1, EvaluateCases
<1>5. CASE stop = Unblocked /\ perm = NoGrant /\ cand
  <2>1. InTask(gs, q) = {} /\ Permitting(gs, q) = {} /\ Candidates(gs, q) # {}
    BY <1>1, <1>5 DEF Found, Noted
  <2>2. QED
    BY <1>2, <1>5, <2>1, EvaluateCases
<1>6. CASE stop = Unblocked /\ perm = NoGrant /\ ~cand
  <2>1. InTask(gs, q) = {} /\ Permitting(gs, q) = {} /\ Candidates(gs, q) = {}
    BY <1>1, <1>6 DEF Found, Noted
  <2>2. QED
    BY <1>2, <1>6, <2>1, EvaluateCases
<1>. QED
  BY <1>3, <1>4, <1>5, <1>6

(***************************************************************************)
(* The inductive invariant of the loop                                     *)
(***************************************************************************)
LoopInv ==
  /\ TypeOK
  /\ phase = "validate" =>
       todo = grants /\ ~candidate /\ permission = NoGrant /\ inactive = Unblocked
  /\ phase \in {"scan", "climb"} =>
       /\ ValidGrantSet(grants) /\ InOrder(grants, todo)
       /\ Noted(grants \ todo, grants, request, candidate, permission)
  /\ phase = "scan" => Found(grants \ todo, grants, request, now, inactive)
  /\ phase = "climb" =>
       \E s \in grants : Climbs(s, grants, request, now, todo, inactive, at, chain)
  /\ DecisionIsReference

LEMMA LoopInit == Init => LoopInv
BY TypeInit DEF Init, LoopInv, DecisionIsReference, grants

LEMMA InputStays ==
  ASSUME [Next]_vars
  PROVE  grants' = grants /\ request' = request /\ now' = now
<1>1. input' = input
  BY DEF Next, vars, Accept, Reject, Scan, SkipOther, SkipPermission, SkipTask,
         StartClimb, Blocked, Climb, ReachRoot, Conclude
<1>. QED
  BY <1>1 DEF grants, request, now

LEMMA ScanKeepsLoop ==
  ASSUME LoopInv, NEW g \in todo, Scan(g)
  PROVE  LoopInv'
<1>1. TypeOK' /\ TypeOK /\ grants' = grants /\ request' = request /\ now' = now
  BY TypeStep, InputStays DEF LoopInv, Next
<1>2. phase = "scan" /\ g = First(todo)
  BY DEF Scan, SkipOther, SkipPermission, SkipTask, StartClimb, Scanning
<1>3. /\ grants \in SUBSET Grant /\ ValidGrantSet(grants) /\ InOrder(grants, todo)
      /\ Noted(grants \ todo, grants, request, candidate, permission)
      /\ Found(grants \ todo, grants, request, now, inactive)
      /\ candidate \in BOOLEAN
  BY <1>1, <1>2, InputTypes DEF LoopInv, TypeOK
<1>4. UniqueIDs(grants) /\ todo \subseteq grants
  BY <1>3 DEF ValidGrantSet, UniqueIDs, InOrder
<1>5. InOrder(grants, todo \ {g}) /\ g \in grants
  BY <1>2, <1>3, <1>4, NextInOrder
<1>6. CASE SkipOther(g)
  <2>1. /\ phase' = "scan" /\ todo' = todo \ {g} /\ ~Candidate(g, request)
        /\ UNCHANGED <<candidate, permission, inactive>>
    BY <1>2, <1>6 DEF SkipOther
  <2>2. Noted(grants \ (todo \ {g}), grants, request, candidate, permission)
    <3>1. grants \ (todo \ {g}) = (grants \ todo) \cup {g}
      BY <1>5
    <3>2. g \notin Candidates(grants, request) /\ g \notin Permitting(grants, request)
      BY <2>1 DEF Candidates, Permitting
    <3>3. /\ Candidates(grants, request) \cap (grants \ (todo \ {g}))
              = Candidates(grants, request) \cap (grants \ todo)
          /\ Permitting(grants, request) \cap (grants \ (todo \ {g}))
              = Permitting(grants, request) \cap (grants \ todo)
      BY <3>1, <3>2
    <3>4. QED
      BY <1>3, <3>3, Zenon DEF Noted
  <2>3. g \notin InTask(grants, request)
    BY <2>1 DEF InTask, Permitting, Candidates
  <2>4. Found(grants \ (todo \ {g}), grants, request, now, inactive)
    BY <1>3, <1>4, <2>3, FoundSkipped
  <2>5. QED
    BY <1>1, <1>3, <1>5, <2>1, <2>2, <2>4 DEF LoopInv, DecisionIsReference
<1>7. CASE SkipPermission(g)
  <2>1. /\ phase' = "scan" /\ todo' = todo \ {g}
        /\ Candidate(g, request) /\ ~Permits(g, request)
        /\ candidate' = TRUE /\ UNCHANGED <<permission, inactive>>
    BY <1>2, <1>7 DEF SkipPermission
  <2>2. Noted(grants \ (todo \ {g}), grants, request, TRUE, permission)
    BY <1>2, <1>3, <1>4, <2>1, NotedCandidate
  <2>3. g \notin InTask(grants, request)
    BY <2>1 DEF InTask, Permitting, Candidates
  <2>4. Found(grants \ (todo \ {g}), grants, request, now, inactive)
    BY <1>3, <1>4, <2>3, FoundSkipped
  <2>5. QED
    BY <1>1, <1>3, <1>5, <2>1, <2>2, <2>4 DEF LoopInv, DecisionIsReference
<1>8. ASSUME SkipTask(g) \/ StartClimb(g)
      PROVE  /\ Noted(grants \ (todo \ {g}), grants, request, candidate', permission')
             /\ todo' = todo \ {g} /\ inactive' = inactive
             /\ Candidate(g, request) /\ Permits(g, request)
  <2>1. /\ Candidate(g, request) /\ Permits(g, request) /\ todo' = todo \ {g}
        /\ candidate' = TRUE /\ inactive' = inactive
        /\ permission = NoGrant => permission' = g.id
        /\ permission # NoGrant => permission' = permission
    BY <1>8 DEF SkipTask, StartClimb, FirstPermission
  <2>2. Noted(grants \ (todo \ {g}), grants, request, candidate', permission')
    BY <1>2, <1>3, <1>4, <2>1, NotedCandidate
  <2>3. QED
    BY <2>1, <2>2
<1>9. CASE SkipTask(g)
  <2>1. phase' = "scan" /\ ~TaskMatches(g, request)
    BY <1>2, <1>9 DEF SkipTask
  <2>2. g \notin InTask(grants, request)
    BY <2>1 DEF InTask
  <2>3. Found(grants \ (todo \ {g}), grants, request, now, inactive)
    BY <1>3, <1>4, <2>2, FoundSkipped
  <2>4. QED
    BY <1>1, <1>3, <1>5, <1>8, <1>9, <2>1, <2>3 DEF LoopInv, DecisionIsReference
<1>10. CASE StartClimb(g)
  <2>1. phase' = "climb" /\ at' = g /\ chain' = {} /\ TaskMatches(g, request)
    BY <1>10 DEF StartClimb
  <2>2. g \in InTask(grants, request)
    BY <1>5, <1>8, <1>10, <2>1 DEF InTask, Permitting, Candidates
  <2>3. Climbs(g, grants, request, now, todo \ {g}, inactive, g, {})
    BY <1>2, <1>3, <1>4, <2>2, ClimbStarts
  <2>4. Climbs(g, grants', request', now', todo', inactive', at', chain')
    BY <1>1, <1>8, <1>10, <2>1, <2>3
  <2>5. QED
    BY <1>1, <1>3, <1>5, <1>8, <1>10, <2>1, <2>4 DEF LoopInv, DecisionIsReference
<1>. QED
  BY <1>6, <1>7, <1>9, <1>10 DEF Scan

LEMMA ClimbKeepsLoop ==
  ASSUME LoopInv, Blocked \/ Climb \/ ReachRoot
  PROVE  LoopInv'
<1>1. TypeOK' /\ TypeOK /\ grants' = grants /\ request' = request /\ now' = now
  BY TypeStep, InputStays DEF LoopInv, Next
<1>2. phase = "climb"
  BY DEF Blocked, Climb, ReachRoot
<1>3. /\ grants \in SUBSET Grant /\ ValidGrantSet(grants) /\ InOrder(grants, todo)
      /\ Noted(grants \ todo, grants, request, candidate, permission)
      /\ UniqueIDs(grants)
  BY <1>1, <1>2, InputTypes DEF LoopInv, TypeOK, ValidGrantSet, UniqueIDs
<1>4. PICK s \in grants : Climbs(s, grants, request, now, todo, inactive, at, chain)
  BY <1>2 DEF LoopInv
<1>5. CASE Blocked
  <2>1. /\ phase' = "scan" /\ ~ActiveAt(at, now)
        /\ inactive' = IF inactive = Unblocked THEN Stop(at, now) ELSE inactive
        /\ UNCHANGED scanVars
    BY <1>5 DEF Blocked, Stop
  <2>2. Found(grants \ todo, grants, request, now,
              IF inactive = Unblocked THEN Stop(at, now) ELSE inactive)
    BY <1>3, <1>4, <2>1, ClimbIsBlocked
  <2>3. Found(grants' \ todo', grants', request', now', inactive')
    BY <1>1, <2>1, <2>2 DEF scanVars
  <2>4. QED
    BY <1>1, <1>3, <2>1, <2>3 DEF LoopInv, DecisionIsReference, scanVars
<1>6. CASE Climb
  <2>1. /\ phase' = "climb" /\ ActiveAt(at, now) /\ chain' = chain \cup {at}
        /\ at' \in grants /\ at'.id = at.parent /\ UNCHANGED <<scanVars, inactive>>
    BY <1>2, <1>6 DEF Climb
  <2>2. Climbs(s, grants, request, now, todo, inactive, at', chain \cup {at})
    BY <1>3, <1>4, <2>1, ClimbGoesOn
  <2>3. Climbs(s, grants', request', now', todo', inactive', at', chain')
    BY <1>1, <2>1, <2>2 DEF scanVars
  <2>4. QED
    BY <1>1, <1>3, <2>1, <2>3 DEF LoopInv, DecisionIsReference, scanVars
<1>7. CASE ReachRoot
  <2>1. /\ phase' = "done" /\ ActiveAt(at, now) /\ at.parent = NoGrant
        /\ decision' = AllowDecision(chain \cup {at})
    BY <1>7 DEF ReachRoot
  <2>2. decision' = Evaluate(grants, request, now)
    BY <1>3, <1>4, <2>1, ClimbReachesRoot
  <2>3. QED
    BY <1>1, <1>3, <2>1, <2>2 DEF LoopInv, DecisionIsReference
<1>. QED
  BY <1>5, <1>6, <1>7

LEMMA LoopStep == LoopInv /\ [Next]_vars => LoopInv'
<1>. SUFFICES ASSUME LoopInv, [Next]_vars PROVE LoopInv'
  OBVIOUS
<1>1. TypeOK' /\ TypeOK /\ grants' = grants /\ request' = request /\ now' = now
  BY TypeStep, InputStays DEF LoopInv
<1>2. CASE Accept
  <2>1. /\ phase' = "scan" /\ ValidGrantSet(grants) /\ UNCHANGED <<scanVars, inactive>>
        /\ todo = grants /\ ~candidate /\ permission = NoGrant /\ inactive = Unblocked
    BY <1>2 DEF Accept, LoopInv
  <2>2. InOrder(grants, grants) /\ grants \ grants = {}
    BY DEF InOrder
  <2>3. /\ Noted({}, grants, request, candidate, permission)
        /\ Found({}, grants, request, now, inactive)
    BY <2>1 DEF Noted, Found
  <2>4. QED
    BY <1>1, <2>1, <2>2, <2>3 DEF LoopInv, DecisionIsReference, scanVars
<1>3. CASE Reject
  BY <1>1, <1>3 DEF Reject, LoopInv, DecisionIsReference
<1>4. CASE Conclude
  <2>1. /\ phase = "scan" /\ todo = {} /\ phase' = "done"
        /\ decision' =
             IF inactive # Unblocked THEN DenyDecision(inactive.reason, {inactive.id})
             ELSE IF permission # NoGrant THEN DenyDecision("task_mismatch", {permission})
             ELSE IF candidate THEN DenyDecision("permission_not_granted", {})
             ELSE DenyDecision("no_matching_grant", {})
    BY <1>4 DEF Conclude
  <2>2. /\ Found(grants, grants, request, now, inactive) /\ ValidGrantSet(grants)
        /\ Noted(grants, grants, request, candidate, permission)
    BY <2>1 DEF LoopInv
  <2>3. decision' = Evaluate(grants, request, now)
    BY <1>1, <2>1, <2>2, InputTypes, NothingLeft DEF TypeOK
  <2>4. QED
    BY <1>1, <2>1, <2>2, <2>3 DEF LoopInv, DecisionIsReference
<1>5. CASE UNCHANGED vars
  BY <1>1, <1>5 DEF LoopInv, DecisionIsReference, vars
<1>. QED
  BY <1>2, <1>3, <1>4, <1>5, ScanKeepsLoop, ClimbKeepsLoop DEF Next

\* The loop over the sorted grants, with its climbs from parent to parent,
\* returns what the definition by sets says: verdict, reason and grant ids,
\* for every set of grants, valid or not, every request and every time.
THEOREM LoopIsReference == Spec => []DecisionIsReference
<1>1. LoopInv => DecisionIsReference
  BY DEF LoopInv
<1>. QED
  BY <1>1, LoopInit, LoopStep, PTL DEF Spec

(***************************************************************************)
(* Revocation                                                              *)
(***************************************************************************)
\* A grant that is usable after g was revoked has no ancestor g, and was
\* usable before.
LEMMA UsableBefore ==
  ASSUME NEW gs \in SUBSET Grant, UniqueIDs(gs), NEW g \in gs, NEW t \in Nat,
         NEW k \in (gs \ {g}) \cup {[g EXCEPT !.revokedAt = t]},
         LineageActive(k, (gs \ {g}) \cup {[g EXCEPT !.revokedAt = t]}, t)
  PROVE  /\ k \in gs /\ LineageActive(k, gs, t)
         /\ g.id \notin IDs(Lineage(k, (gs \ {g}) \cup {[g EXCEPT !.revokedAt = t]}))
<1>. DEFINE r  == [g EXCEPT !.revokedAt = t]
            hs == (gs \ {g}) \cup {r}
            L  == Lineage(k, hs)
<1>1. r.id = g.id /\ r.revokedAt = t
  BY DEF Grant
<1>2. ~ActiveAt(r, t)
  BY <1>1, AbsentAssumption DEF ActiveAt, Revoked
<1>. HIDE DEF r
<1>3. k \in L /\ L \subseteq hs /\ UpClosed(L, hs)
  BY LineageIsLeast DEF r
<1>4. \A h \in L : ActiveAt(h, t)
  BY DEF LineageActive, r
<1>5. r \notin L
  BY <1>2, <1>4
<1>6. L \in SUBSET gs /\ g \notin L
  <2>1. CASE r = g
    BY <1>3, <1>5, <2>1
  <2>2. CASE r # g
    BY <1>3, <1>5, <2>2
  <2>3. QED
    BY <2>1, <2>2
<1>. HIDE DEF L
<1>7. UpClosed(L, gs)
  <2>. SUFFICES ASSUME NEW h \in L, NEW p \in gs, p.id = h.parent PROVE p \in L
    BY DEF UpClosed
  <2>1. CASE p = g
    BY <1>1, <1>3, <1>5, <2>1 DEF UpClosed
  <2>2. CASE p # g
    BY <1>3, <2>2 DEF UpClosed
  <2>3. QED
    BY <2>1, <2>2
<1>8. k \in gs /\ Lineage(k, gs) \subseteq L
  BY <1>3, <1>6, <1>7, LineageIsLeast
<1>9. LineageActive(k, gs, t)
  BY <1>4, <1>8 DEF LineageActive
<1>10. g.id \notin IDs(L)
  BY <1>6 DEF IDs, UniqueIDs
<1>. QED
  BY <1>8, <1>9, <1>10 DEF L, r

\* Revoking a grant never makes a denial an allow, and what still is allowed
\* does not rest on it.
THEOREM RevocationRemoves == Spec => []RevocationOnlyRemoves
<1>1. TypeOK /\ DecisionIsReference => RevocationOnlyRemoves
  <2>. SUFFICES ASSUME TypeOK, DecisionIsReference, phase = "done", decision # Invalid,
                       NEW g \in grants,
                       Evaluate(RevokeNow(g), request, now).allowed
                PROVE  /\ decision.allowed
                       /\ g.id \notin Evaluate(RevokeNow(g), request, now).grants
    BY DEF RevocationOnlyRemoves
  <2>. DEFINE hs == (grants \ {g}) \cup {[g EXCEPT !.revokedAt = now]}
              U  == Usable(hs, request, now)
  <2>1. ValidGrantSet(grants) /\ decision = Evaluate(grants, request, now)
    BY DEF DecisionIsReference
  <2>2. grants \in SUBSET Grant /\ now \in Nat /\ UniqueIDs(grants)
    BY <2>1, InputTypes DEF TypeOK, ValidGrantSet, UniqueIDs
  <2>3. RevokeNow(g) = hs /\ hs \in SUBSET Grant
    BY <2>2, RevokedType DEF RevokeNow
  <2>. HIDE DEF hs
  <2>4. U # {} /\ U \in SUBSET Grant /\ U \subseteq hs
    BY <2>3, AllowedIffUsable DEF Usable, InTask, Permitting, Candidates
  <2>5. First(U) \in U
    BY <2>4, FirstIsLeast
  <2>6. Evaluate(hs, request, now) = AllowDecision(Lineage(First(U), hs))
    BY <2>4, EvaluateCases
  <2>. DEFINE k == First(U)
  <2>7. /\ k \in hs /\ LineageActive(k, hs, now)
        /\ Candidate(k, request) /\ Permits(k, request) /\ TaskMatches(k, request)
    BY <2>4, <2>5 DEF Usable, InTask, Permitting, Candidates
  <2>. HIDE DEF k
  <2>8. k \in grants /\ LineageActive(k, grants, now) /\ g.id \notin IDs(Lineage(k, hs))
    BY <2>2, <2>7, UsableBefore DEF hs
  <2>9. decision.allowed
    BY <2>1, <2>7, <2>8, AllowedIffUsable
  <2>10. Evaluate(hs, request, now).grants = IDs(Lineage(k, hs))
    BY <2>6 DEF AllowDecision, k
  <2>11. QED
    BY <2>3, <2>8, <2>9, <2>10
<1>. QED
  BY <1>1, EvaluatorTypes, LoopIsReference, PTL
=============================================================================
