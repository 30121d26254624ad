---------------------------- MODULE AccessCheck ----------------------------
(***************************************************************************)
(* POST /access/v1/evaluation: the handler accessEvaluation and the        *)
(* Authorizer.Check it calls, running against the store of module          *)
(* AuthzStore and the agent registry while approvals, revocations and      *)
(* changes of the registry go on.  The handler reads three times (agents,  *)
(* declared application, grants) and samples the clock after the last      *)
(* read; every read may be of a different state.                           *)
(***************************************************************************)
EXTENDS AuthzStore

CONSTANTS
  Check,      \* the calls of the endpoint; each is made once
  Asked,      \* the requests that are asked
  LocalUser,  \* the human of the profile
  NoRequest, NoAnswer, Error

ASSUME CheckAssumption ==
  /\ Asked \subseteq Request
  /\ LocalUser \in Human
  /\ NoRequest \notin Request

VARIABLES
  agents,   \* registered agents that are not disabled
  pc,       \* "start", "agents", "declared", "list", "evaluate", "record",
            \*   "respond" or "done"
  req,      \* the request of each check
  loaded,   \* the grants it listed
  decision, \* what Evaluate returned; its decision id is the check itself
  answer,   \* what the caller got: NoAnswer, Error or a decision
  audit,    \* decisions in audit.jsonl: records [id, request, decision]
  began,    \* history: the grants in the file, and the time, when it began
  atList    \* history: what the file allowed at the moment it was listed

checkVars == <<pc, req, loaded, decision, answer, audit, began, atList>>
allVars == <<file, now, agents, checkVars>>

CheckInit ==
  /\ Init
  /\ agents \in SUBSET Actors
  /\ pc = [c \in Check |-> "start"]
  /\ req = [c \in Check |-> NoRequest]
  /\ loaded = [c \in Check |-> {}]
  /\ decision = [c \in Check |-> NoAnswer]
  /\ answer = [c \in Check |-> NoAnswer]
  /\ audit = {}
  /\ began = [c \in Check |-> [grants |-> {}, now |-> 0]]
  /\ atList = [c \in Check |-> FALSE]

Goto(c, from, to) == pc[c] = from /\ pc' = [pc EXCEPT ![c] = to]
Answer(c, a) == answer' = [answer EXCEPT ![c] = a]

Start(c) ==
  /\ Goto(c, "start", "agents")
  /\ \E r \in Asked : req' = [req EXCEPT ![c] = r]
  /\ began' = [began EXCEPT ![c] = [grants |-> file.grants, now |-> now]]
  /\ UNCHANGED <<file, now, agents, loaded, decision, answer, audit, atList>>

\* agentregistry.Load and Find
LoadAgents(c) ==
  /\ Goto(c, "agents", "declared")
  /\ req[c].subject = LocalUser
  /\ req[c].actor \in agents
  /\ UNCHANGED <<file, now, agents, req, loaded, decision, answer, audit, began, atList>>

\* Store.ValidateEvaluation, with a Load of its own
CheckDeclared(c) ==
  /\ Goto(c, "declared", "list")
  /\ Declared(file, req[c].app, req[c])
  /\ UNCHANGED <<file, now, agents, req, loaded, decision, answer, audit, began, atList>>

\* Faulty variant: one grant is kept of those for the same actor and application.
ListFirstGrants(c) ==
  /\ Goto(c, "list", "evaluate")
  /\ loaded' = [loaded EXCEPT ![c] =
       {g \in file.grants : \A h \in file.grants :
          <<h.subject, h.grantee, h.app>> = <<g.subject, g.grantee, g.app>> => g.id <= h.id}]
  /\ atList' = [atList EXCEPT ![c] = Evaluate(file.grants, req[c], now).allowed]
  /\ UNCHANGED <<file, now, agents, req, decision, answer, audit, began>>

\* Store.ListGrants, the second Load
ListGrants(c) ==
  /\ Goto(c, "list", "evaluate")
  /\ loaded' = [loaded EXCEPT ![c] = file.grants]
  /\ atList' = [atList EXCEPT ![c] = Evaluate(file.grants, req[c], now).allowed]
  /\ UNCHANGED <<file, now, agents, req, decision, answer, audit, began>>

\* Faulty variant: the clock is sampled at the start of the check.
EvaluateGrantsEarlyClock(c) ==
  /\ Goto(c, "evaluate", "record")
  /\ decision' = [decision EXCEPT ![c] = Evaluate(loaded[c], req[c], began[c].now)]
  /\ UNCHANGED <<file, now, agents, req, loaded, answer, audit, began, atList>>

\* newID, a.now() and Evaluate
EvaluateGrants(c) ==
  /\ Goto(c, "evaluate", "record")
  /\ decision' = [decision EXCEPT ![c] = Evaluate(loaded[c], req[c], now)]
  /\ UNCHANGED <<file, now, agents, req, loaded, answer, audit, began, atList>>

\* Faulty variant: the answer is recorded before it has been set.
RecordAnswer(c) ==
  /\ Goto(c, "record", "respond")
  /\ audit' = audit \cup {[id |-> c, request |-> req[c], decision |-> answer[c]]}
  /\ UNCHANGED <<file, now, agents, req, loaded, decision, answer, began, atList>>

Record(c) ==
  /\ Goto(c, "record", "respond")
  /\ audit' = audit \cup {[id |-> c, request |-> req[c], decision |-> decision[c]]}
  /\ UNCHANGED <<file, now, agents, req, loaded, decision, answer, began, atList>>

Respond(c) ==
  /\ Goto(c, "respond", "done")
  /\ Answer(c, decision[c])
  /\ UNCHANGED <<file, now, agents, req, loaded, decision, audit, began, atList>>

\* A foreign subject, an unregistered actor, an undeclared action or type.
Refuse(c) ==
  /\ \/ pc[c] = "agents" /\ (req[c].subject # LocalUser \/ req[c].actor \notin agents)
     \/ pc[c] = "declared" /\ ~Declared(file, req[c].app, req[c])
  /\ pc' = [pc EXCEPT ![c] = "done"]
  /\ Answer(c, Error)
  /\ UNCHANGED <<file, now, agents, req, loaded, decision, audit, began, atList>>

\* Faulty variant: a decision that cannot be recorded is answered all the same.
FailUnlessDecided(c) ==
  /\ pc[c] \in {"agents", "declared", "list", "evaluate", "record"}
  /\ pc' = [pc EXCEPT ![c] = "done"]
  /\ Answer(c, IF pc[c] = "record" THEN decision[c] ELSE Error)
  /\ UNCHANGED <<file, now, agents, req, loaded, decision, audit, began, atList>>

\* Reading a file, making the decision id or appending to the audit log
\* fails; the caller gets an error and no decision.
Fail(c) ==
  /\ pc[c] \in {"agents", "declared", "list", "evaluate", "record"}
  /\ pc' = [pc EXCEPT ![c] = "done"]
  /\ Answer(c, Error)
  /\ UNCHANGED <<file, now, agents, req, loaded, decision, audit, began, atList>>

\* Registering and removing agents, from the command line.
AddAgent(a) ==
  /\ a \notin agents
  /\ agents' = agents \cup {a}
  /\ UNCHANGED <<file, now, checkVars>>

RemoveAgent(a) ==
  /\ a \in agents
  /\ agents' = agents \ {a}
  /\ UNCHANGED <<file, now, checkVars>>

StoreStep == Next /\ UNCHANGED <<agents, checkVars>>

HandlerStep(c) ==
  \/ LoadAgents(c) \/ CheckDeclared(c) \/ ListGrants(c) \/ EvaluateGrants(c)
  \/ Record(c) \/ Respond(c) \/ Refuse(c) \/ Fail(c)

CheckNext ==
  \/ \E c \in Check : Start(c) \/ HandlerStep(c)
  \/ \E a \in Actors : AddAgent(a) \/ RemoveAgent(a)
  \/ StoreStep

CheckSpec == CheckInit /\ [][CheckNext]_allVars

-----------------------------------------------------------------------------
(***************************************************************************)
(* Properties                                                              *)
(***************************************************************************)
CheckTypeOK ==
  /\ agents \subseteq Actors
  /\ pc \in [Check -> {"start", "agents", "declared", "list", "evaluate", "record",
                       "respond", "done"}]
  /\ req \in [Check -> Request \cup {NoRequest}]
  /\ loaded \in [Check -> SUBSET Grant]
  /\ decision \in [Check -> Decision \cup {NoAnswer}]
  /\ answer \in [Check -> Decision \cup {NoAnswer, Error}]
  /\ audit \subseteq [id : Check, request : Request, decision : Decision]
  /\ began \in [Check -> [grants : SUBSET Grant, now : Nat]]
  /\ atList \in [Check -> BOOLEAN]

Allowed(c) == answer[c] \notin {NoAnswer, Error} /\ answer[c].allowed
Denied(c)  == answer[c] \notin {NoAnswer, Error} /\ ~answer[c].allowed

\* A caller that has a decision has one that the audit log has under the same
\* id, for the same request: "a decision fails closed if its grant source or
\* decision audit write fails" (docs/security-boundaries.md).
AnswerIsRecorded ==
  \A c \in Check :
    answer[c] \notin {NoAnswer, Error} =>
      [id |-> c, request |-> req[c], decision |-> answer[c]] \in audit

\* A revocation that was in the file when the check began is honoured by it,
\* whatever is approved, revoked or expires while the check runs.
RevocationHonoured ==
  \A c \in Check : Allowed(c) =>
    \A g \in began[c].grants : g.revokedAt # NoTime => g.id \notin answer[c].grants

\* An allow is what the file allowed at one moment of the check, the moment
\* it listed the grants: sampling the clock later never brings back a grant
\* that the listed file shows revoked, nor admits one early.
AllowedWhenListed == \A c \in Check : Allowed(c) => atList[c]

\* A denial is not a missed approval: every grant that was in force for the
\* request when the check began has been revoked or has run out by now.
ApprovalHonoured ==
  \A c \in Check : Denied(c) =>
    \A g \in began[c].grants :
      /\ Candidate(g, req[c]) /\ Permits(g, req[c]) /\ TaskMatches(g, req[c])
      /\ ActiveAt(g, began[c].now)
      => \E h \in file.grants : h.id = g.id /\ ~ActiveAt(h, now)
=============================================================================
