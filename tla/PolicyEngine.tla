---------------------------- MODULE PolicyEngine ----------------------------
(***************************************************************************)
(* policy.Evaluate as the loop the code runs: the rules in their order     *)
(* until one decides; a rule that matches but asks for scopes the request  *)
(* lacks is remembered, the first of them, for the denial at the end.      *)
(***************************************************************************)
EXTENDS Policy

CONSTANTS
  RuleSets, Requests,   \* the arguments of the calls
  Undecided             \* no decision yet

ASSUME PolicyAssumption ==
  /\ \A s \in DOMAIN SegmentLength : SegmentLength[s] \in Nat
  /\ \A rs \in RuleSets : ValidRules(rs)
  /\ NoRule \notin Nat
  /\ Undecided \notin [allowed : BOOLEAN, rule : Nat \cup {NoRule}]

VARIABLES
  rules, request,  \* the arguments
  todo,            \* rules the loop has not looked at
  missing,         \* candidateMissingScope: a rule's id, or NoRule
  decision         \* a decision, or Undecided

vars == <<rules, request, todo, missing, decision>>

Init ==
  /\ rules \in RuleSets /\ request \in Requests
  /\ todo = rules
  /\ missing = NoRule
  /\ decision = Undecided

AllowWithoutRules ==
  /\ rules = {} /\ decision = Undecided
  /\ decision' = Decision("allow", NoRule)
  /\ UNCHANGED <<rules, request, todo, missing>>

Scanning(r) == decision = Undecided /\ todo # {} /\ r = FirstRule(todo)

Skip(r) ==
  /\ Scanning(r)
  /\ ~Matches(r, request)
  /\ todo' = todo \ {r}
  /\ UNCHANGED <<rules, request, missing, decision>>

Decide(r) ==
  /\ Scanning(r)
  /\ Matches(r, request) /\ Decisive(r, request)
  /\ decision' = Decision(r.effect, r.id)
  /\ UNCHANGED <<rules, request, todo, missing>>

\* Faulty variant: the last rule that lacks scopes is remembered.
LackScopesLast(r) ==
  /\ Scanning(r)
  /\ Matches(r, request) /\ ~Decisive(r, request)
  /\ missing' = r.id
  /\ todo' = todo \ {r}
  /\ UNCHANGED <<rules, request, decision>>

LackScopes(r) ==
  /\ Scanning(r)
  /\ Matches(r, request) /\ ~Decisive(r, request)
  /\ missing' = IF missing = NoRule THEN r.id ELSE missing
  /\ todo' = todo \ {r}
  /\ UNCHANGED <<rules, request, decision>>

DenyUnmatched ==
  /\ rules # {} /\ todo = {} /\ decision = Undecided
  /\ decision' = Decision("deny", missing)
  /\ UNCHANGED <<rules, request, todo, missing>>

Next ==
  \/ AllowWithoutRules \/ DenyUnmatched
  \/ \E r \in todo : Skip(r) \/ Decide(r) \/ LackScopes(r)

Spec == Init /\ [][Next]_vars

-----------------------------------------------------------------------------
\* The verdict is the documented one, which knows no order of the rules.
VerdictIsDocumented ==
  decision # Undecided => (decision.allowed <=> Permitted(rules, request))

\* The rule named with the verdict is the one that the definition by sets
\* names: the most specific one of its effect, however many rules were
\* skipped on the way.
DecisionIsReference ==
  decision # Undecided => decision = PolicyDecision(rules, request)

\* What one more rule does: a denial that matches stops the request whatever
\* scopes it has, and any denial only narrows; an allowance only widens,
\* unless it is the first rule, which turns the default from allow to deny.
EffectOfOneMoreRule ==
  decision # Undecided =>
    \A r \in UNION RuleSets : r.id \notin {s.id : s \in rules} =>
      LET after == PolicyDecision(rules \cup {r}, request)
      IN  IF r.effect = "deny"
          THEN after.allowed => decision.allowed /\ ~Matches(r, request)
          ELSE decision.allowed /\ rules # {} => after.allowed
=============================================================================
