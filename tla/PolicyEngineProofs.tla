------------------------- MODULE PolicyEngineProofs ------------------------
(***************************************************************************)
(* Proofs about the policy engine, for any file of rules that validateAll  *)
(* accepts and any request: sortRules leaves a first rule, the loop of     *)
(* policy.Evaluate returns the decision of the definition by sets, that    *)
(* decision is the documented verdict, and what one more rule does to it.  *)
(***************************************************************************)
EXTENDS PolicyEngine, FiniteSetTheorems, WellFoundedInduction, TLAPS

(***************************************************************************)
(* The order of rules                                                      *)
(***************************************************************************)
LEMMA PathLengthType ==
  ASSUME NEW path \in Seq(DOMAIN SegmentLength)
  PROVE  PathLength(path) \in Nat
<1>. DEFINE Of(i) == {i} \X (0..SegmentLength[path[i]])
            Parts == {Of(i) : i \in DOMAIN path}
            f == [i \in 1..Len(path) |-> Of(i)]
<1>1. DOMAIN path = 1..Len(path) /\ Len(path) \in Nat
  OBVIOUS
<1>2. \A i \in DOMAIN path : IsFiniteSet(Of(i))
  <2>. SUFFICES ASSUME NEW i \in DOMAIN path PROVE IsFiniteSet(Of(i))
    OBVIOUS
  <2>1. SegmentLength[path[i]] \in Nat
    BY PolicyAssumption
  <2>2. \A n \in Nat : IsFiniteSet(0..n)
    BY FS_Interval
  <2>3. IsFiniteSet(0..SegmentLength[path[i]])
    BY <2>1, <2>2
  <2>4. IsFiniteSet({i})
    BY FS_Singleton
  <2>5. QED
    BY <2>3, <2>4, FS_Product
<1>3. IsFiniteSet(Parts)
  <2>1. f \in Surjection(1..Len(path), Parts)
    BY <1>1 DEF Surjection
  <2>2. IsFiniteSet(1..Len(path))
    BY <1>1, FS_Interval
  <2>3. QED
    BY <2>1, <2>2, FS_Surjection
<1>4. IsFiniteSet(UNION Parts)
  BY <1>2, <1>3, FS_UNION
<1>. QED
  BY <1>4, FS_CardinalityType DEF PathLength, Bytes

\* Of two different rules of a file exactly one comes before the other, and
\* coming before is transitive.
LEMMA BeforeIsOrder ==
  ASSUME NEW rs, ValidRules(rs)
  PROVE  /\ \A r, s \in rs : r # s => Before(r, s) \/ Before(s, r)
         /\ \A r, s \in rs : Before(r, s) => ~Before(s, r)
         /\ \A r, s, t \in rs : Before(r, s) /\ Before(s, t) => Before(r, t)
<1>1. \A r \in rs : /\ r.id \in Nat /\ r.effect \in {"allow", "deny"}
                    /\ PathLength(r.prefix) \in Nat
  BY PathLengthType DEF ValidRules
<1>2. \A r, s \in rs : r.id = s.id => r = s
  BY DEF ValidRules
<1>3. \A r, s \in rs : r # s => Before(r, s) \/ Before(s, r)
  BY <1>1, <1>2 DEF Before
<1>4. \A r, s \in rs : Before(r, s) => ~Before(s, r)
  BY <1>1 DEF Before
<1>5. \A r, s, t \in rs : Before(r, s) /\ Before(s, t) => Before(r, t)
  BY <1>1 DEF Before
<1>. QED
  BY <1>3, <1>4, <1>5

LEMMA ValidSubset ==
  ASSUME NEW rs, ValidRules(rs), NEW S \in SUBSET rs
  PROVE  ValidRules(S)
BY FS_Subset DEF ValidRules

\* A rule before which the fewest come has none before it: of the rules of
\* its kind it is the one that Evaluate meets first.
LEMMA FirstRuleExists ==
  ASSUME NEW rs, ValidRules(rs), rs # {}
  PROVE  FirstRule(rs) \in rs /\ \A s \in rs \ {FirstRule(rs)} : Before(FirstRule(rs), s)
<1>. DEFINE Earlier(r) == {s \in rs : Before(s, r)}
            Sets == {Earlier(r) : r \in rs}
            R == StrictSubsetOrdering(rs)
<1>1. IsWellFoundedOn(R, SUBSET rs)
  BY FS_FiniteSubsetsOfFinite, FS_StrictSubsetOrderingWellFounded DEF ValidRules
<1>2. Sets \subseteq SUBSET rs /\ Sets # {}
  OBVIOUS
<1>3. PICK D \in Sets : \A E \in Sets : ~ (<<E, D>> \in R)
  <2>. HIDE DEF R, Sets
  <2>. QED
    BY <1>1, <1>2, WFMin
<1>4. PICK r \in rs : D = Earlier(r)
  OBVIOUS
<1>5. ASSUME NEW s \in rs, Before(s, r) PROVE FALSE
  <2>1. Earlier(s) \subseteq Earlier(r)
    BY <1>5, BeforeIsOrder
  <2>2. s \in Earlier(r) /\ s \notin Earlier(s)
    BY <1>5, BeforeIsOrder
  <2>3. <<Earlier(s), D>> \in R
    BY <1>4, <2>1, <2>2 DEF StrictSubsetOrdering
  <2>4. QED
    BY <1>3, <2>3
<1>6. \A s \in rs \ {r} : Before(r, s)
  BY <1>5, BeforeIsOrder
<1>. QED
  BY <1>6 DEF FirstRule

\* A rule before all others is the first.
LEMMA FirstRuleIs ==
  ASSUME NEW rs, ValidRules(rs), NEW r \in rs, \A s \in rs \ {r} : Before(r, s)
  PROVE  FirstRule(rs) = r
BY FirstRuleExists, BeforeIsOrder

(***************************************************************************)
(* The decision                                                            *)
(***************************************************************************)
Matching(rs, q) == {r \in rs : Matches(r, q)}
Deciding(rs, q) == {r \in Matching(rs, q) : Decisive(r, q)}

LEMMA DecisionFields ==
  ASSUME NEW effect, NEW rule
  PROVE  /\ Decision(effect, rule).allowed <=> effect = "allow"
         /\ Decision(effect, rule) \in [allowed : BOOLEAN, rule : {rule}]
<1>1. Decision(effect, rule).allowed = (effect = "allow")
  BY DEF Decision
<1>2. (effect = "allow") \in BOOLEAN
  OBVIOUS
<1>3. Decision(effect, rule) \in [allowed : BOOLEAN, rule : {rule}]
  BY <1>2 DEF Decision
<1>. QED
  BY <1>1, <1>3

LEMMA DecisionCases ==
  ASSUME NEW rs, NEW q
  PROVE  /\ rs = {} => PolicyDecision(rs, q) = Decision("allow", NoRule)
         /\ rs # {} /\ Deciding(rs, q) # {} =>
              PolicyDecision(rs, q) =
                Decision(FirstRule(Deciding(rs, q)).effect, FirstRule(Deciding(rs, q)).id)
         /\ rs # {} /\ Deciding(rs, q) = {} /\ Matching(rs, q) # {} =>
              PolicyDecision(rs, q) = Decision("deny", FirstRule(Matching(rs, q)).id)
         /\ rs # {} /\ Matching(rs, q) = {} =>
              PolicyDecision(rs, q) = Decision("deny", NoRule)
BY DEF PolicyDecision, Matching, Deciding

\* The first decisive rule is a denial if one matches, so the verdict depends
\* on no order.
LEMMA VerdictOfDecision ==
  ASSUME NEW rs, ValidRules(rs), NEW q
  PROVE  PolicyDecision(rs, q).allowed <=> Permitted(rs, q)
<1>1. CASE rs = {}
  BY <1>1, DecisionCases, DecisionFields DEF Permitted
<1>2. CASE rs # {} /\ Deciding(rs, q) = {}
  <2>1. ~PolicyDecision(rs, q).allowed
    BY <1>2, DecisionCases, DecisionFields
  <2>2. ~Permitted(rs, q)
    BY <1>2 DEF Permitted, Deciding, Matching, Decisive
  <2>3. QED
    BY <2>1, <2>2
<1>3. CASE rs # {} /\ Deciding(rs, q) # {}
  <2>. DEFINE f == FirstRule(Deciding(rs, q))
  <2>1. f \in Deciding(rs, q) /\ \A s \in Deciding(rs, q) \ {f} : Before(f, s)
    <3>1. ValidRules(Deciding(rs, q))
      BY ValidSubset DEF Deciding, Matching
    <3>2. QED
      BY <1>3, <3>1, FirstRuleExists
  <2>2. PolicyDecision(rs, q).allowed <=> f.effect = "allow"
    BY <1>3, DecisionCases, DecisionFields
  <2>3. f \in rs /\ Matches(f, q) /\ Decisive(f, q)
    BY <2>1 DEF Deciding, Matching
  <2>4. f.effect \in {"allow", "deny"}
    BY <2>3 DEF ValidRules
  <2>5. CASE f.effect = "deny"
    BY <1>3, <2>2, <2>3, <2>5 DEF Permitted
  <2>6. CASE f.effect = "allow"
    <3>1. \A s \in rs : Matches(s, q) => s.effect # "deny"
      <4>. SUFFICES ASSUME NEW s \in rs, Matches(s, q), s.effect = "deny" PROVE FALSE
        OBVIOUS
      <4>1. s \in Deciding(rs, q) \ {f}
        BY <2>6 DEF Deciding, Matching, Decisive
      <4>2. QED
        BY <2>1, <2>6, <4>1 DEF Before
    <3>2. f.scopes \subseteq q.scopes
      BY <2>3, <2>6 DEF Decisive
    <3>3. QED
      BY <2>2, <2>3, <2>6, <3>1, <3>2 DEF Permitted
  <2>7. QED
    BY <2>4, <2>5, <2>6
<1>. QED
  BY <1>1, <1>2, <1>3

(***************************************************************************)
(* The loop                                                                *)
(***************************************************************************)
\* The rules that were looked at come first and none of them decides; missing
\* is the first of them that matches.
EngineInv ==
  /\ rules \in RuleSets /\ todo \subseteq rules
  /\ \A r \in rules \ todo, s \in todo : Before(r, s)
  /\ decision = Undecided => Deciding(rules, request) \subseteq todo
  /\ missing = NoRule => Matching(rules, request) \subseteq todo
  /\ missing # NoRule => /\ Matching(rules, request) # {}
                         /\ missing = FirstRule(Matching(rules, request)).id
  /\ DecisionIsReference

\* The next rule comes before all that are left.
LEMMA NextRule ==
  ASSUME EngineInv, NEW r \in todo, Scanning(r)
  PROVE  /\ ValidRules(rules) /\ r \in rules
         /\ \A s \in todo \ {r} : Before(r, s)
         /\ \A t \in rules \ (todo \ {r}), s \in todo \ {r} : Before(t, s)
<1>1. ValidRules(rules) /\ todo \subseteq rules
  BY PolicyAssumption DEF EngineInv
<1>2. r = FirstRule(todo)
  BY DEF Scanning
<1>3. \A s \in todo \ {r} : Before(r, s)
  BY <1>1, <1>2, ValidSubset, FirstRuleExists
<1>. QED
  BY <1>1, <1>3 DEF EngineInv

LEMMA NotUndecided ==
  ASSUME NEW effect, NEW rule \in Nat \cup {NoRule}
  PROVE  Decision(effect, rule) # Undecided
<1>1. Decision(effect, rule) \in [allowed : BOOLEAN, rule : {rule}]
  BY DecisionFields
<1>2. [allowed : BOOLEAN, rule : {rule}] \subseteq [allowed : BOOLEAN, rule : Nat \cup {NoRule}]
  OBVIOUS
<1>. QED
  BY <1>1, <1>2, PolicyAssumption

LEMMA EngineInit == Init => EngineInv
BY DEF Init, EngineInv, Deciding, Matching, DecisionIsReference

LEMMA EngineStep == EngineInv /\ [Next]_vars => EngineInv'
<1>. SUFFICES ASSUME EngineInv, [Next]_vars PROVE EngineInv'
  OBVIOUS
<1>. USE DEF EngineInv
<1>1. CASE AllowWithoutRules
  <2>1. decision' = PolicyDecision(rules, request)
    BY <1>1, DecisionCases DEF AllowWithoutRules
  <2>2. Deciding(rules, request) = {} /\ todo = {}
    BY <1>1 DEF AllowWithoutRules, Deciding, Matching
  <2>3. QED
    BY <1>1, <2>1, <2>2 DEF AllowWithoutRules, DecisionIsReference
<1>2. CASE DenyUnmatched
  <2>1. Deciding(rules, request) = {}
    BY <1>2 DEF DenyUnmatched
  <2>2. decision' = PolicyDecision(rules, request)
    BY <1>2, <2>1, DecisionCases DEF DenyUnmatched
  <2>3. QED
    BY <1>2, <2>1, <2>2 DEF DenyUnmatched, DecisionIsReference
<1>3. ASSUME NEW r \in todo, Skip(r) PROVE EngineInv'
  <2>1. /\ Scanning(r) /\ ~Matches(r, request) /\ todo' = todo \ {r}
        /\ UNCHANGED <<rules, request, missing, decision>>
    BY <1>3 DEF Skip
  <2>2. r \notin Matching(rules, request) /\ r \notin Deciding(rules, request)
    BY <2>1 DEF Matching, Deciding
  <2>3. QED
    BY <2>1, <2>2, NextRule DEF DecisionIsReference
<1>4. ASSUME NEW r \in todo, Decide(r) PROVE EngineInv'
  <2>1. /\ Scanning(r) /\ Matches(r, request) /\ Decisive(r, request)
        /\ decision' = Decision(r.effect, r.id)
        /\ UNCHANGED <<rules, request, todo, missing>>
    BY <1>4 DEF Decide
  <2>2. ValidRules(rules) /\ r \in rules /\ \A s \in todo \ {r} : Before(r, s)
    BY <2>1, NextRule
  <2>3. r \in Deciding(rules, request) /\ Deciding(rules, request) \subseteq todo
    BY <2>1, <2>2 DEF Deciding, Matching, Scanning
  <2>4. FirstRule(Deciding(rules, request)) = r
    <3>1. ValidRules(Deciding(rules, request))
      BY <2>2, ValidSubset DEF Deciding, Matching
    <3>2. QED
      BY <2>2, <2>3, <3>1, FirstRuleIs
  <2>5. decision' = PolicyDecision(rules, request)
    BY <2>1, <2>2, <2>3, <2>4, DecisionCases
  <2>6. decision' # Undecided
    BY <2>1, <2>2, NotUndecided DEF ValidRules
  <2>7. QED
    BY <2>1, <2>5, <2>6 DEF DecisionIsReference
<1>5. ASSUME NEW r \in todo, LackScopes(r) PROVE EngineInv'
  <2>1. /\ Scanning(r) /\ Matches(r, request) /\ ~Decisive(r, request)
        /\ missing' = (IF missing = NoRule THEN r.id ELSE missing)
        /\ todo' = todo \ {r}
        /\ UNCHANGED <<rules, request, decision>>
    BY <1>5 DEF LackScopes
  <2>2. /\ ValidRules(rules) /\ r \in rules /\ \A s \in todo \ {r} : Before(r, s)
        /\ \A t \in rules \ (todo \ {r}), s \in todo \ {r} : Before(t, s)
    BY <2>1, NextRule
  <2>3. r \in Matching(rules, request) /\ r \notin Deciding(rules, request)
    BY <2>1, <2>2 DEF Matching, Deciding
  <2>4. missing' # NoRule /\ missing' = FirstRule(Matching(rules, request)).id
    <3>1. CASE missing = NoRule
      <4>1. ValidRules(Matching(rules, request))
        BY <2>2, ValidSubset DEF Matching
      <4>2. FirstRule(Matching(rules, request)) = r
        BY <2>2, <2>3, <3>1, <4>1, FirstRuleIs
      <4>3. r.id # NoRule
        BY <2>2, PolicyAssumption DEF ValidRules
      <4>4. QED
        BY <2>1, <3>1, <4>2, <4>3
    <3>2. CASE missing # NoRule
      BY <2>1, <3>2
    <3>3. QED
      BY <3>1, <3>2
  <2>5. QED
    BY <2>1, <2>2, <2>3, <2>4 DEF DecisionIsReference
<1>6. CASE UNCHANGED vars
  BY <1>6 DEF vars, DecisionIsReference
<1>. QED
  BY <1>1, <1>2, <1>3, <1>4, <1>5, <1>6 DEF Next

LEMMA EngineInvAlways == Spec => []EngineInv
BY EngineInit, EngineStep, PTL DEF Spec

(***************************************************************************)
(* The theorems                                                            *)
(***************************************************************************)
\* The loop of policy.Evaluate, which stops at the first rule that decides and
\* remembers the first that lacks scopes, returns the decision that the rules
\* define, whatever their number.
THEOREM LoopIsReference == Spec => []DecisionIsReference
<1>1. EngineInv => DecisionIsReference
  BY DEF EngineInv
<1>. QED
  BY <1>1, EngineInvAlways, PTL

LEMMA InvGivesVerdict == EngineInv => VerdictIsDocumented
BY VerdictOfDecision, PolicyAssumption DEF EngineInv, VerdictIsDocumented, DecisionIsReference

\* "When policy rules exist, deny rules take priority and unmatched delegated
\* agent requests are denied" (docs/security-boundaries.md), for every file.
THEOREM VerdictAsDocumented == Spec => []VerdictIsDocumented
BY InvGivesVerdict, EngineInvAlways, PTL

\* A rule with a new id can be added to a valid file.
LEMMA AddedRuleIsValid ==
  ASSUME NEW rs, ValidRules(rs), NEW ps, ValidRules(ps), NEW r \in ps,
         r.id \notin {s.id : s \in rs}
  PROVE  ValidRules(rs \cup {r})
<1>1. IsFiniteSet(rs \cup {r})
  BY FS_AddElement DEF ValidRules
<1>. QED
  BY <1>1 DEF ValidRules

\* How the verdict changes with one more rule.
LEMMA OneMoreRule ==
  ASSUME NEW rs, NEW r, NEW q, r \notin rs, r.effect \in {"allow", "deny"}
  PROVE  /\ r.effect = "deny" /\ Permitted(rs \cup {r}, q) =>
              Permitted(rs, q) /\ ~Matches(r, q)
         /\ r.effect = "allow" /\ Permitted(rs, q) /\ rs # {} => Permitted(rs \cup {r}, q)
<1>1. ASSUME r.effect = "deny", Permitted(rs \cup {r}, q)
      PROVE  Permitted(rs, q) /\ ~Matches(r, q)
  BY <1>1 DEF Permitted
<1>2. ASSUME r.effect = "allow", Permitted(rs, q), rs # {}
      PROVE  Permitted(rs \cup {r}, q)
  BY <1>2 DEF Permitted
<1>. QED
  BY <1>1, <1>2

LEMMA InvGivesEffect == EngineInv => EffectOfOneMoreRule
<1>. SUFFICES ASSUME EngineInv, decision # Undecided, NEW r \in UNION RuleSets,
                     r.id \notin {s.id : s \in rules}
              PROVE  LET after == PolicyDecision(rules \cup {r}, request)
                     IN  IF r.effect = "deny"
                         THEN after.allowed => decision.allowed /\ ~Matches(r, request)
                         ELSE decision.allowed /\ rules # {} => after.allowed
  BY DEF EffectOfOneMoreRule
<1>1. ValidRules(rules) /\ decision = PolicyDecision(rules, request)
  BY PolicyAssumption DEF EngineInv, DecisionIsReference
<1>2. PICK ps \in RuleSets : r \in ps
  OBVIOUS
<1>3. ValidRules(ps) /\ r.effect \in {"allow", "deny"} /\ r \notin rules
  BY <1>2, PolicyAssumption DEF ValidRules
<1>4. ValidRules(rules \cup {r})
  BY <1>1, <1>2, <1>3, AddedRuleIsValid
<1>5. /\ decision.allowed <=> Permitted(rules, request)
      /\ PolicyDecision(rules \cup {r}, request).allowed <=> Permitted(rules \cup {r}, request)
  BY <1>1, <1>4, VerdictOfDecision
<1>. QED
  BY <1>3, <1>5, OneMoreRule

\* A denial that is added only narrows, whatever scopes it names, and an
\* allowance that is added only widens, unless it is the first rule.
THEOREM OneMoreRuleDoesWhatItSays == Spec => []EffectOfOneMoreRule
BY InvGivesEffect, EngineInvAlways, PTL
=============================================================================
