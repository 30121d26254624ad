----------------------------- MODULE Delegation -----------------------------
(***************************************************************************)
(* Delegations (internal/delegation): the file delegations.json, the       *)
(* commands that create and revoke delegations, and the token a creation   *)
(* hands out.  A command loads the file, changes its copy and saves it;    *)
(* nothing locks the file in between.  The rename of a save is one step    *)
(* (module StoreProcess has its details).                                  *)
(*                                                                         *)
(* The clock counts fractions of a second: records keep instants, tokens   *)
(* whole seconds.  Ids are random, so a creation takes one never used.     *)
(***************************************************************************)
EXTENDS Naturals, FiniteSets

CONSTANTS
  DelegationID, AgentID, Audience,
  ScopeSets,     \* the sets of scopes a delegation may be created with
  TTLs,          \* the lifetimes it may be created with
  Command,       \* the command line processes
  Second,        \* instants per second
  MaxTime,       \* bound of the clock
  NoTime,        \* a nil *time.Time
  NoOp           \* a process that runs no command

ASSUME DelegationAssumption ==
  /\ Second \in Nat \ {0} /\ MaxTime \in Nat
  /\ TTLs \subseteq Nat \ {0}
  /\ {} \notin ScopeSets
  /\ NoTime \notin Nat

VARIABLES
  now,
  agents,    \* registered agents
  records,   \* delegations.json
  minted,    \* tokens of creations that saved their record: any may be printed
  revoked,   \* ids of revocations that saved: any may be acknowledged
  step,      \* of each command: "idle", "load" or "save"
  op,        \* what each command does
  copy       \* the records each command has loaded

commandVars == <<records, minted, revoked, step, op, copy>>

Record ==
  [id : DelegationID, agent : AgentID, aud : Audience, scopes : ScopeSets,
   issuedAt : Nat, expiresAt : Nat, revokedAt : Nat \cup {NoTime}]

\* What a command is going to do: save a record that it made, or mark one.
Creation   == [kind : {"create"}, record : Record]
Revocation == [kind : {"revoke"}, id : DelegationID, at : Nat]

ASSUME OpAssumption == NoOp \notin Creation \cup Revocation

Unix(t) == t \div Second

\* The claims of the token of a record.  The record keeps the id and the
\* hash of its token, so a token belongs to a record when it is TokenOf it.
TokenOf(r) ==
  [id |-> r.id, agent |-> r.agent, aud |-> r.aud, scopes |-> r.scopes,
   nbf |-> Unix(r.issuedAt), exp |-> Unix(r.expiresAt)]

Token ==
  [id : DelegationID, agent : AgentID, aud : Audience, scopes : ScopeSets,
   nbf : Nat, exp : Nat]

\* Faulty variant: the second of the expiry still counts.
InTimeThroughExpiry(token, t) == token.nbf <= Unix(t) /\ Unix(t) <= token.exp

\* validateClaims: nbf and exp
InTime(token, t) == token.nbf <= Unix(t) /\ Unix(t) < token.exp

DelegationInit ==
  /\ now = 0
  /\ agents \in SUBSET AgentID
  /\ records = {} /\ minted = {} /\ revoked = {}
  /\ step = [c \in Command |-> "idle"]
  /\ op = [c \in Command |-> NoOp]
  /\ copy = [c \in Command |-> {}]

Goto(c, from, to) == step[c] = from /\ step' = [step EXCEPT ![c] = to]
Finish(c) == op' = [op EXCEPT ![c] = NoOp] /\ copy' = [copy EXCEPT ![c] = {}]

UsedIDs == {t.id : t \in minted}
             \cup {op[c].record.id : c \in {d \in Command : op[d] # NoOp /\ op[d].kind = "create"}}

\* delegateCreate finds the agent and Create samples the clock and signs.
BeginCreate(c) ==
  /\ Goto(c, "idle", "load")
  /\ \E id \in DelegationID \ UsedIDs, agent \in agents, aud \in Audience,
        scopes \in ScopeSets, ttl \in TTLs :
       op' = [op EXCEPT ![c] =
               [kind |-> "create",
                record |-> [id |-> id, agent |-> agent, aud |-> aud, scopes |-> scopes,
                            issuedAt |-> now, expiresAt |-> now + ttl,
                            revokedAt |-> NoTime]]]
  /\ UNCHANGED <<now, agents, records, minted, revoked, copy>>

\* delegateRevoke samples the clock; the id comes from a list or a token.
BeginRevoke(c) ==
  /\ Goto(c, "idle", "load")
  /\ \E id \in {t.id : t \in minted} :
       op' = [op EXCEPT ![c] = [kind |-> "revoke", id |-> id, at |-> now]]
  /\ UNCHANGED <<now, agents, records, minted, revoked, copy>>

LoadRecords(c) ==
  /\ Goto(c, "load", "save")
  /\ copy' = [copy EXCEPT ![c] = records]
  /\ UNCHANGED <<now, agents, records, minted, revoked, op>>

\* Faulty variant: the new record is saved alone.
SaveCreatedAlone(c) ==
  /\ Goto(c, "save", "idle")
  /\ op[c].kind = "create"
  /\ records' = {op[c].record}
  /\ minted' = minted \cup {TokenOf(op[c].record)}
  /\ Finish(c)
  /\ UNCHANGED <<now, agents, revoked>>

SaveCreated(c) ==
  /\ Goto(c, "save", "idle")
  /\ op[c].kind = "create"
  /\ records' = copy[c] \cup {op[c].record}
  /\ minted' = minted \cup {TokenOf(op[c].record)}
  /\ Finish(c)
  /\ UNCHANGED <<now, agents, revoked>>

\* Faulty variant: the changed record is not written back.
SaveRevokedUnchanged(c) ==
  /\ Goto(c, "save", "idle")
  /\ op[c].kind = "revoke"
  /\ \E r \in copy[c] : r.id = op[c].id
  /\ records' = copy[c]
  /\ revoked' = revoked \cup {op[c].id}
  /\ Finish(c)
  /\ UNCHANGED <<now, agents, minted>>

\* Faulty variant: the changed record is appended to the list.
SaveRevokedAppended(c) ==
  /\ Goto(c, "save", "idle")
  /\ op[c].kind = "revoke"
  /\ \E r \in copy[c] : r.id = op[c].id
  /\ records' = copy[c] \cup
       {[r EXCEPT !.revokedAt = op[c].at] : r \in {s \in copy[c] : s.id = op[c].id}}
  /\ revoked' = revoked \cup {op[c].id}
  /\ Finish(c)
  /\ UNCHANGED <<now, agents, minted>>

\* A second revocation is accepted; it overwrites the time of the first.
SaveRevoked(c) ==
  /\ Goto(c, "save", "idle")
  /\ op[c].kind = "revoke"
  /\ \E r \in copy[c] : r.id = op[c].id
  /\ records' = {IF r.id = op[c].id THEN [r EXCEPT !.revokedAt = op[c].at] ELSE r : r \in copy[c]}
  /\ revoked' = revoked \cup {op[c].id}
  /\ Finish(c)
  /\ UNCHANGED <<now, agents, minted>>

\* An error, a record that is not found, or the death of the process.
Abandon(c) ==
  /\ step[c] # "idle"
  /\ step' = [step EXCEPT ![c] = "idle"]
  /\ Finish(c)
  /\ UNCHANGED <<now, agents, records, minted, revoked>>

AddAgent    == \E a \in AgentID \ agents :
                 agents' = agents \cup {a} /\ UNCHANGED <<now, commandVars>>
RemoveAgent == \E a \in agents :
                 agents' = agents \ {a} /\ UNCHANGED <<now, commandVars>>

Tick ==
  /\ now < MaxTime
  /\ now' = now + 1
  /\ UNCHANGED <<agents, commandVars>>

DelegationNext ==
  \/ \E c \in Command :
       \/ BeginCreate(c) \/ BeginRevoke(c) \/ LoadRecords(c)
       \/ SaveCreated(c) \/ SaveRevoked(c) \/ Abandon(c)
  \/ AddAgent \/ RemoveAgent \/ Tick

-----------------------------------------------------------------------------
(***************************************************************************)
(* Properties                                                              *)
(***************************************************************************)
\* A command that was acknowledged holds: every token that was handed out
\* has its record, and a revoked delegation is revoked in the file.
CommandsAreDurable ==
  /\ \A t \in minted : \E r \in records : TokenOf(r) = t
  /\ \A r \in records : r.id \in revoked => r.revokedAt # NoTime

\* The two clocks of a delegation agree: the token, in whole seconds, is
\* never good after its record has expired, and is good from the moment it
\* was issued until at most a second before the record expires.
TokenAgreesWithRecord ==
  \A r \in records : \A t \in r.issuedAt..MaxTime :
    /\ InTime(TokenOf(r), t) => t < r.expiresAt
    /\ t + Second <= r.expiresAt => InTime(TokenOf(r), t)
=============================================================================
