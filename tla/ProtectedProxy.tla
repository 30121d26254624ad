--------------------------- MODULE ProtectedProxy ---------------------------
(***************************************************************************)
(* The protected proxy in agent delegation mode (protectedApp.proxy): a    *)
(* request with a delegation token passes ValidateToken and the policies   *)
(* on its way to the upstream application.  The handler reads three files, *)
(* delegations, agents and policies, one after the other, while commands   *)
(* change all three; the time it checks against was sampled before any of  *)
(* the reads.                                                              *)
(***************************************************************************)
EXTENDS Delegation

CONSTANTS
  Request,          \* the requests; each is made once
  Own,              \* the audience of this proxy
  Targets,          \* what may be asked: records [method, path]
  Rules,            \* the rules that somebody may add, with unique ids
  NoToken,          \* no Authorization header
  AnyMethod, AnyAgent, NoRule, SegmentLength

INSTANCE Policy

ASSUME ProxyAssumption == Own \in Audience /\ NoToken \notin Token

VARIABLES
  rules,    \* policies.json
  phase,    \* "arrive", "claims", "record", "agent", "policy" or "done"
  token,    \* the bearer token of each request
  target,   \* its method and path
  at,       \* the time ValidateToken sampled
  answer,   \* "none", "forwarded", "unauthorized", "denied" or "error"
  ended     \* history: the delegations that had ended when it arrived,
            \*   by an acknowledged revocation or by the clock

proxyVars == <<phase, token, target, at, answer, ended>>
delegationVars == <<now, agents, commandVars>>
vars == <<delegationVars, rules, proxyVars>>

Init ==
  /\ DelegationInit
  /\ rules = {}
  /\ phase = [q \in Request |-> "arrive"]
  /\ token = [q \in Request |-> NoToken]
  /\ target \in [Request -> Targets]
  /\ at = [q \in Request |-> 0]
  /\ answer = [q \in Request |-> "none"]
  /\ ended = [q \in Request |-> {}]

Proceed(q, from, to) == phase[q] = from /\ phase' = [phase EXCEPT ![q] = to]
Respond(q, a) == answer' = [answer EXCEPT ![q] = a]

\* bearerToken
Arrive(q) ==
  /\ Proceed(q, "arrive", "claims")
  /\ \E t \in minted \cup {NoToken} : token' = [token EXCEPT ![q] = t]
  /\ ended' = [ended EXCEPT ![q] = revoked \cup {r.id : r \in {r \in records : r.expiresAt <= now}}]
  /\ UNCHANGED <<delegationVars, rules, target, at, answer>>

ClaimsHold(t, time) == t # NoToken /\ t.aud = Own /\ InTime(t, time)

\* ValidateToken samples the clock and validateClaims looks at the token.
CheckClaims(q) ==
  /\ Proceed(q, "claims", "record")
  /\ ClaimsHold(token[q], now)
  /\ at' = [at EXCEPT ![q] = now]
  /\ UNCHANGED <<delegationVars, rules, token, target, answer, ended>>

InForce(t, time) ==
  \E r \in records : TokenOf(r) = t /\ r.revokedAt = NoTime /\ time < r.expiresAt

\* Load of delegations.json and the comparison of record and token
CheckRecord(q) ==
  /\ Proceed(q, "record", "agent")
  /\ InForce(token[q], at[q])
  /\ UNCHANGED <<delegationVars, rules, token, target, at, answer, ended>>

\* agentregistry.Load and Find
CheckAgent(q) ==
  /\ Proceed(q, "agent", "policy")
  /\ token[q].agent \in agents
  /\ UNCHANGED <<delegationVars, rules, token, target, at, answer, ended>>

PolicyRequest(q) ==
  [method |-> target[q].method, path |-> target[q].path,
   agent |-> token[q].agent, scopes |-> token[q].scopes]

\* policyDecision; the audit of the decision is best effort.
Decide(q) ==
  /\ Proceed(q, "policy", "done")
  /\ Respond(q, IF PolicyDecision(rules, PolicyRequest(q)).allowed
                THEN "forwarded" ELSE "denied")
  /\ UNCHANGED <<delegationVars, rules, token, target, at, ended>>

Refuse(q) ==
  /\ \/ phase[q] = "claims" /\ ~ClaimsHold(token[q], now)
     \/ phase[q] = "record" /\ ~InForce(token[q], at[q])
     \/ phase[q] = "agent" /\ token[q].agent \notin agents
  /\ phase' = [phase EXCEPT ![q] = "done"]
  /\ Respond(q, "unauthorized")
  /\ UNCHANGED <<delegationVars, rules, token, target, at, ended>>

\* A file does not load.
Fail(q) ==
  /\ phase[q] \in {"record", "agent", "policy"}
  /\ phase' = [phase EXCEPT ![q] = "done"]
  /\ Respond(q, IF phase[q] = "policy" THEN "error" ELSE "unauthorized")
  /\ UNCHANGED <<delegationVars, rules, token, target, at, ended>>

AddRule ==
  \E r \in Rules \ rules : rules' = rules \cup {r} /\ UNCHANGED <<delegationVars, proxyVars>>
RemoveRule ==
  \E r \in rules : rules' = rules \ {r} /\ UNCHANGED <<delegationVars, proxyVars>>

Others == DelegationNext /\ UNCHANGED <<rules, proxyVars>>

HandlerStep(q) ==
  \/ CheckClaims(q) \/ CheckRecord(q) \/ CheckAgent(q) \/ Decide(q)
  \/ Refuse(q) \/ Fail(q)

Next ==
  \/ \E q \in Request : Arrive(q) \/ HandlerStep(q)
  \/ AddRule \/ RemoveRule
  \/ Others

Spec == Init /\ [][Next]_vars

-----------------------------------------------------------------------------
(***************************************************************************)
(* Properties                                                              *)
(***************************************************************************)
\* Types; and no two records of a file have one id.
TypeOK ==
  /\ now \in Nat /\ agents \subseteq AgentID
  /\ records \subseteq Record /\ minted \subseteq Token /\ revoked \subseteq DelegationID
  /\ step \in [Command -> {"idle", "load", "save"}] /\ copy \in [Command -> SUBSET Record]
  /\ op \in [Command -> Creation \cup Revocation \cup {NoOp}]
  /\ \A r, s \in records : r.id = s.id => r = s
  /\ rules \subseteq Rules
  /\ phase \in [Request -> {"arrive", "claims", "record", "agent", "policy", "done"}]
  /\ token \in [Request -> Token \cup {NoToken}]
  /\ target \in [Request -> Targets]
  /\ at \in [Request -> Nat]
  /\ answer \in [Request -> {"none", "forwarded", "unauthorized", "denied", "error"}]
  /\ ended \in [Request -> SUBSET DelegationID]

\* "Anyone who obtains one can use it until it expires or is revoked"
\* (docs/security-boundaries.md): no request is forwarded that arrives after
\* its delegation has expired or after its revocation was acknowledged.
EndedIsRefused ==
  \A q \in Request : answer[q] = "forwarded" => token[q].id \notin ended[q]
=============================================================================
