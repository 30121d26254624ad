------------------------------- MODULE Policy -------------------------------
(***************************************************************************)
(* The policy rules of the protected proxy (internal/policy): which rules  *)
(* match a delegated request and which of them decides it.                 *)
(*                                                                         *)
(* A path is the sequence of what follows each of its slashes: "/" is      *)
(* <<"">>, "/a/b" is <<"a", "b">> and "/a/" is <<"a", "">>.  Methods and   *)
(* scopes are sets, as normalize leaves them.                              *)
(***************************************************************************)
EXTENDS Naturals, Sequences, FiniteSets, FiniteSetsExt, SequencesExt

CONSTANTS
  AnyMethod,     \* "*" in a rule's list of methods
  AnyAgent,      \* a rule without an agent id
  NoRule,        \* no rule made the decision
  SegmentLength  \* the length of a segment's name, in bytes

Root == <<"">>

\* The bytes of a path; byte 0 of a segment is the slash before it.
Bytes(path) == UNION {{i} \X (0..SegmentLength[path[i]]) : i \in DOMAIN path}
PathLength(path) == Cardinality(Bytes(path))

\* strings.TrimRight(prefix, "/")
Stem(prefix) == SubSeq(prefix, 1, Max({i \in DOMAIN prefix : prefix[i] # ""} \cup {0}))

PathMatches(path, prefix) ==
  \/ prefix = Root
  \/ path = prefix
  \/ IsStrictPrefix(Stem(prefix), path)

MethodMatches(methods, method) == methods = {} \/ methods \cap {AnyMethod, method} # {}

Matches(rule, request) ==
  /\ rule.agent \in {AnyAgent, request.agent}
  /\ MethodMatches(rule.methods, request.method)
  /\ PathMatches(request.path, rule.prefix)

\* Faulty variant: the effect is not part of the order.
BeforeByPath(r, s) ==
  \/ PathLength(r.prefix) > PathLength(s.prefix)
  \/ PathLength(r.prefix) = PathLength(s.prefix) /\ r.id < s.id

\* sortRules: denials first, then the longer prefix, then the id.
Before(r, s) ==
  \/ r.effect = "deny" /\ s.effect = "allow"
  \/ /\ r.effect = s.effect
     /\ \/ PathLength(r.prefix) > PathLength(s.prefix)
        \/ PathLength(r.prefix) = PathLength(s.prefix) /\ r.id < s.id

\* validateAll: what a policies.json that was loaded holds.
ValidRules(rules) ==
  /\ IsFiniteSet(rules)
  /\ \A r \in rules : /\ r.id \in Nat /\ r.effect \in {"allow", "deny"}
                      /\ r.prefix \in Seq(DOMAIN SegmentLength)
  /\ \A r, s \in rules : r.id = s.id => r = s

FirstRule(rules) == CHOOSE r \in rules : \A s \in rules \ {r} : Before(r, s)

Decision(effect, rule) == [allowed |-> effect = "allow", rule |-> rule]

\* Faulty variant: a denial that names scopes waits for them.
DecisiveWithScopes(r, request) == r.scopes \subseteq request.scopes

\* A rule that matches decides if it is a denial or the request has its scopes.
Decisive(r, request) == r.effect = "deny" \/ r.scopes \subseteq request.scopes

\* Evaluate: the first decisive rule among those that match; a denial in the
\* name of the first that lacks scopes, or of none; all is allowed without rules.
PolicyDecision(rules, request) ==
  LET matching == {r \in rules : Matches(r, request)}
      decisive == {r \in matching : Decisive(r, request)}
  IN  IF rules = {} THEN Decision("allow", NoRule)
      ELSE IF decisive # {} THEN Decision(FirstRule(decisive).effect, FirstRule(decisive).id)
      ELSE Decision("deny", IF matching # {} THEN FirstRule(matching).id ELSE NoRule)

\* "When policy rules exist, deny rules take priority and unmatched delegated
\* agent requests are denied" (docs/security-boundaries.md); there is no order
\* of rules in this.
Permitted(rules, request) ==
  LET matching(effect) == {r \in rules : r.effect = effect /\ Matches(r, request)}
  IN  \/ rules = {}
      \/ /\ matching("deny") = {}
         /\ \E r \in matching("allow") : r.scopes \subseteq request.scopes
=============================================================================
