------------------------ MODULE ProtectedProxyProofs -----------------------
(***************************************************************************)
(* Proofs about ProtectedProxy and the delegations it checks, for any      *)
(* number of requests, any delegations, agents, scopes and lifetimes, and  *)
(* any resolution of the clock.                                            *)
(*                                                                         *)
(* The types, which include that a file never holds two records with one   *)
(* id, and the agreement of token and record hold for any number of        *)
(* commands.  The others have the hypothesis OneCommand: the commands on   *)
(* delegations.json run one after the other.  Without it they are false,   *)
(* as the run with two commands shows.                                     *)
(***************************************************************************)
EXTENDS ProtectedProxy, TLAPS

(***************************************************************************)
(* Whole seconds                                                           *)
(***************************************************************************)
LEMMA UnixIsMonotone ==
  ASSUME NEW a \in Nat, NEW b \in Nat, a <= b
  PROVE  Unix(a) \in Nat /\ Unix(a) <= Unix(b)
BY DelegationAssumption DEF Unix

LEMMA UnixCountsSeconds ==
  ASSUME NEW a \in Nat, NEW b \in Nat, a + Second <= b
  PROVE  Unix(a) < Unix(b)
BY DelegationAssumption DEF Unix

LEMMA TokenOfRecord ==
  ASSUME NEW r \in Record
  PROVE  TokenOf(r) \in Token /\ TokenOf(r).id = r.id
<1>1. Unix(r.issuedAt) \in Nat /\ Unix(r.expiresAt) \in Nat
  BY UnixIsMonotone DEF Record
<1>. QED
  BY <1>1 DEF TokenOf, Token, Record

\* The record that a revocation writes.
Marked(r, o) == IF r.id = o.id THEN [r EXCEPT !.revokedAt = o.at] ELSE r

LEMMA MarkedRecord ==
  ASSUME NEW r \in Record, NEW o \in Revocation
  PROVE  /\ Marked(r, o) \in Record /\ Marked(r, o).id = r.id
         /\ Marked(r, o).expiresAt = r.expiresAt /\ TokenOf(Marked(r, o)) = TokenOf(r)
         /\ r.id = o.id => Marked(r, o).revokedAt # NoTime
         /\ r.id # o.id => Marked(r, o) = r
<1>1. CASE r.id # o.id
  BY <1>1 DEF Marked
<1>2. CASE r.id = o.id
  <2>1. o.at \in Nat /\ o.at # NoTime
    BY DelegationAssumption DEF Revocation
  <2>2. Marked(r, o) = [r EXCEPT !.revokedAt = o.at]
    BY <1>2 DEF Marked
  <2>3. QED
    BY <1>2, <2>1, <2>2 DEF Record, TokenOf
<1>. QED
  BY <1>1, <1>2

(***************************************************************************)
(* Commands, however many: an id belongs to one record.                    *)
(***************************************************************************)
UniqueIDs(rs) == \A r, s \in rs : r.id = s.id => r = s
Known(id, tokens) == \E t \in tokens : t.id = id

DelegationTyped ==
  /\ now \in Nat /\ agents \subseteq AgentID
  /\ records \subseteq Record /\ minted \subseteq Token /\ revoked \subseteq DelegationID
  /\ step \in [Command -> {"idle", "load", "save"}] /\ copy \in [Command -> SUBSET Record]
  /\ op \in [Command -> Creation \cup Revocation \cup {NoOp}]

ProxyTyped ==
  /\ rules \subseteq Rules
  /\ phase \in [Request -> {"arrive", "claims", "record", "agent", "policy", "done"}]
  /\ token \in [Request -> Token \cup {NoToken}]
  /\ target \in [Request -> Targets]
  /\ at \in [Request -> Nat]
  /\ answer \in [Request -> {"none", "forwarded", "unauthorized", "denied", "error"}]
  /\ ended \in [Request -> SUBSET DelegationID]

LEMMA TypeParts == TypeOK <=> DelegationTyped /\ UniqueIDs(records) /\ ProxyTyped
BY DEF TypeOK, DelegationTyped, UniqueIDs, ProxyTyped

(***************************************************************************)
(* The ids of the records of a file, or of a copy of it, have been handed  *)
(* out; the id of a creation under way has not, and no other has it.       *)
(***************************************************************************)
IDsInv ==
  /\ \A c \in Command : step[c] # "idle" => op[c] # NoOp
  /\ UniqueIDs(records) /\ \A r \in records : Known(r.id, minted)
  /\ \A c \in Command : UniqueIDs(copy[c]) /\ \A r \in copy[c] : Known(r.id, minted)
  /\ \A c \in Command : op[c] \in Creation => ~Known(op[c].record.id, minted)
  /\ \A c, d \in Command :
       op[c] \in Creation /\ op[d] \in Creation /\ op[c].record.id = op[d].record.id => c = d

DelegationInv == DelegationTyped /\ IDsInv

LEMMA OpKinds ==
  ASSUME NEW o \in Creation \cup Revocation \cup {NoOp}, o # NoOp
  PROVE  /\ o.kind = "create" => o \in Creation /\ o.record \in Record
         /\ o.kind = "revoke" => o \in Revocation /\ o.id \in DelegationID
BY DEF Creation, Revocation

LEMMA CreationsAreOps ==
  ASSUME NEW o \in Creation
  PROVE  o # NoOp /\ o \notin Revocation /\ o.kind = "create" /\ o.record \in Record
BY OpAssumption DEF Creation, Revocation

LEMMA DelegationInitHolds == DelegationInit => DelegationInv
<1>. SUFFICES ASSUME DelegationInit PROVE DelegationInv
  OBVIOUS
<1>1. \A c \in Command : op[c] = NoOp /\ step[c] = "idle" /\ copy[c] = {}
  BY DEF DelegationInit
<1>2. NoOp \notin Creation
  BY OpAssumption
<1>3. DelegationTyped
  BY DEF DelegationInit, DelegationTyped
<1>4. IDsInv
  BY <1>1, <1>2 DEF DelegationInit, IDsInv, UniqueIDs
<1>. QED
  BY <1>3, <1>4 DEF DelegationInv

LEMMA BeginCreateKeeps ==
  ASSUME DelegationInv, NEW c \in Command, BeginCreate(c)
  PROVE  DelegationInv'
<1>1. DelegationTyped /\ IDsInv
  BY DEF DelegationInv
<1>2. PICK id \in DelegationID \ UsedIDs, agent \in agents, aud \in Audience,
           scopes \in ScopeSets, ttl \in TTLs :
        op' = [op EXCEPT ![c] =
                [kind |-> "create",
                 record |-> [id |-> id, agent |-> agent, aud |-> aud, scopes |-> scopes,
                             issuedAt |-> now, expiresAt |-> now + ttl,
                             revokedAt |-> NoTime]]]
  BY DEF BeginCreate
<1>. DEFINE r == [id |-> id, agent |-> agent, aud |-> aud, scopes |-> scopes,
                  issuedAt |-> now, expiresAt |-> now + ttl, revokedAt |-> NoTime]
            o == [kind |-> "create", record |-> r]
<1>3. ttl \in Nat /\ now \in Nat /\ now + ttl \in Nat /\ agent \in AgentID
  BY <1>1, DelegationAssumption DEF DelegationTyped
<1>4. r \in Record
  BY <1>3 DEF Record
<1>5. o \in Creation /\ o.record.id = id
  BY <1>4 DEF Creation
<1>6. op' = [op EXCEPT ![c] = o]
  BY <1>2
<1>7. ~Known(id, minted)
  BY <1>2 DEF UsedIDs, Known
<1>8. \A d \in Command : op[d] \in Creation => op[d].record.id # id
  BY <1>2, CreationsAreOps DEF UsedIDs
<1>. HIDE DEF o
<1>9. /\ op' \in [Command -> Creation \cup Revocation \cup {NoOp}]
      /\ op'[c] = o /\ \A d \in Command : d # c => op'[d] = op[d]
  BY <1>1, <1>5, <1>6 DEF DelegationTyped
<1>10. step' \in [Command -> {"idle", "load", "save"}]
       /\ \A d \in Command : d # c => step'[d] = step[d]
  BY <1>1 DEF DelegationTyped, BeginCreate, Goto
<1>11. UNCHANGED <<now, agents, records, minted, revoked, copy>>
  BY DEF BeginCreate
<1>12. DelegationTyped'
  BY <1>1, <1>9, <1>10, <1>11 DEF DelegationTyped
<1>13. o # NoOp
  BY <1>5, CreationsAreOps
<1>14. IDsInv'
  BY <1>1, <1>5, <1>7, <1>8, <1>9, <1>10, <1>11, <1>13 DEF IDsInv
<1>. QED
  BY <1>12, <1>14 DEF DelegationInv

LEMMA BeginRevokeKeeps ==
  ASSUME DelegationInv, NEW c \in Command, BeginRevoke(c)
  PROVE  /\ DelegationInv' /\ op'[c] \in Revocation /\ Known(op'[c].id, minted)
         /\ UNCHANGED <<now, agents, records, minted, revoked, copy>>
<1>1. DelegationTyped /\ IDsInv
  BY DEF DelegationInv
<1>2. PICK id \in {t.id : t \in minted} :
        op' = [op EXCEPT ![c] = [kind |-> "revoke", id |-> id, at |-> now]]
  BY DEF BeginRevoke
<1>. DEFINE o == [kind |-> "revoke", id |-> id, at |-> now]
<1>3. o \in Revocation /\ Known(o.id, minted)
  BY <1>1, <1>2 DEF Revocation, Known, DelegationTyped, Token
<1>4. op' = [op EXCEPT ![c] = o]
  BY <1>2
<1>. HIDE DEF o
<1>5. /\ op' \in [Command -> Creation \cup Revocation \cup {NoOp}]
      /\ op'[c] = o /\ \A d \in Command : d # c => op'[d] = op[d]
  BY <1>1, <1>3, <1>4 DEF DelegationTyped
<1>6. step' \in [Command -> {"idle", "load", "save"}]
      /\ \A d \in Command : d # c => step'[d] = step[d]
  BY <1>1 DEF DelegationTyped, BeginRevoke, Goto
<1>7. UNCHANGED <<now, agents, records, minted, revoked, copy>>
  BY DEF BeginRevoke
<1>8. DelegationTyped'
  BY <1>1, <1>5, <1>6, <1>7 DEF DelegationTyped
<1>9. o # NoOp /\ o \notin Creation
  BY <1>3, OpAssumption, CreationsAreOps
<1>10. IDsInv'
  BY <1>1, <1>5, <1>6, <1>7, <1>9 DEF IDsInv
<1>. QED
  BY <1>3, <1>5, <1>7, <1>8, <1>10 DEF DelegationInv

LEMMA LoadKeeps ==
  ASSUME DelegationInv, NEW c \in Command, LoadRecords(c)
  PROVE  DelegationInv' /\ copy'[c] = records
<1>1. DelegationTyped /\ IDsInv
  BY DEF DelegationInv
<1>2. /\ copy' \in [Command -> SUBSET Record] /\ copy'[c] = records
      /\ \A d \in Command : d # c => copy'[d] = copy[d]
  BY <1>1 DEF DelegationTyped, LoadRecords
<1>3. /\ step' \in [Command -> {"idle", "load", "save"}] /\ step[c] # "idle"
      /\ \A d \in Command : d # c => step'[d] = step[d]
  BY <1>1 DEF DelegationTyped, LoadRecords, Goto
<1>4. UNCHANGED <<now, agents, records, minted, revoked, op>>
  BY DEF LoadRecords
<1>5. DelegationTyped'
  BY <1>1, <1>2, <1>3, <1>4 DEF DelegationTyped
<1>6. IDsInv'
  BY <1>1, <1>2, <1>3, <1>4 DEF IDsInv
<1>. QED
  BY <1>2, <1>5, <1>6 DEF DelegationInv

LEMMA FinishShape ==
  ASSUME DelegationTyped, NEW c \in Command, Finish(c)
  PROVE  /\ op' \in [Command -> Creation \cup Revocation \cup {NoOp}]
         /\ op'[c] = NoOp /\ op'[c] \notin Creation /\ op'[c] \notin Revocation
         /\ \A d \in Command : d # c => op'[d] = op[d]
         /\ copy' \in [Command -> SUBSET Record]
         /\ copy'[c] = {} /\ \A d \in Command : d # c => copy'[d] = copy[d]
BY OpAssumption DEF DelegationTyped, Finish

LEMMA SaveCreatedKeeps ==
  ASSUME DelegationInv, NEW c \in Command, SaveCreated(c)
  PROVE  /\ DelegationInv'
         /\ op[c] \in Creation /\ op[c].record \in Record
         /\ ~Known(op[c].record.id, minted)
         /\ step[c] = "save" /\ step'[c] = "idle" /\ op'[c] = NoOp
<1>1. DelegationTyped /\ IDsInv
  BY DEF DelegationInv
<1>2. /\ step' \in [Command -> {"idle", "load", "save"}] /\ step[c] = "save"
      /\ step'[c] = "idle" /\ \A d \in Command : d # c => step'[d] = step[d]
  BY <1>1 DEF DelegationTyped, SaveCreated, Goto
<1>3. op[c] \in Creation \cup Revocation \cup {NoOp} /\ op[c] # NoOp /\ op[c].kind = "create"
  BY <1>1, <1>2 DEF DelegationTyped, IDsInv, SaveCreated
<1>4. op[c] \in Creation /\ op[c].record \in Record
  BY <1>3, OpKinds
<1>. DEFINE r == op[c].record
<1>5. ~Known(r.id, minted)
  BY <1>1, <1>4 DEF IDsInv
<1>6. TokenOf(r) \in Token /\ TokenOf(r).id = r.id
  BY <1>4, TokenOfRecord
<1>7. /\ records' = copy[c] \cup {r} /\ minted' = minted \cup {TokenOf(r)}
      /\ Finish(c) /\ UNCHANGED <<now, agents, revoked>>
  BY DEF SaveCreated
<1>8. /\ copy[c] \subseteq Record /\ UniqueIDs(copy[c])
      /\ \A x \in copy[c] : Known(x.id, minted)
  BY <1>1 DEF DelegationTyped, IDsInv
<1>. HIDE DEF r
<1>9. DelegationTyped'
  BY <1>1, <1>2, <1>4, <1>6, <1>7, <1>8, FinishShape DEF DelegationTyped, r
<1>10. UniqueIDs(records')
  BY <1>5, <1>7, <1>8 DEF UniqueIDs
<1>11. \A id : Known(id, minted') <=> Known(id, minted) \/ id = r.id
  BY <1>6, <1>7 DEF Known
<1>12. \A x \in records' : Known(x.id, minted')
  BY <1>7, <1>8, <1>11
<1>13. /\ op'[c] = NoOp /\ op'[c] \notin Creation
       /\ \A d \in Command : d # c => op'[d] = op[d]
       /\ copy'[c] = {} /\ \A d \in Command : d # c => copy'[d] = copy[d]
  BY <1>1, <1>7, FinishShape
<1>14. \A d \in Command : d # c /\ op[d] \in Creation => op[d].record.id # r.id
  BY <1>1, <1>4 DEF IDsInv, r
<1>15. \A d \in Command : UniqueIDs(copy'[d]) /\ \A x \in copy'[d] : Known(x.id, minted')
  <2>1. UniqueIDs({})
    BY DEF UniqueIDs
  <2>2. QED
    BY <1>1, <1>11, <1>13, <2>1 DEF IDsInv
<1>16. IDsInv'
  BY <1>1, <1>2, <1>10, <1>11, <1>12, <1>13, <1>14, <1>15 DEF IDsInv
<1>. QED
  BY <1>2, <1>4, <1>5, <1>9, <1>13, <1>16 DEF DelegationInv, r

LEMMA SaveRevokedKeeps ==
  ASSUME DelegationInv, NEW c \in Command, SaveRevoked(c)
  PROVE  /\ DelegationInv'
         /\ op[c] \in Revocation
         /\ records' = {Marked(r, op[c]) : r \in copy[c]}
         /\ \E r \in copy[c] : r.id = op[c].id
         /\ revoked' = revoked \cup {op[c].id} /\ UNCHANGED <<now, agents, minted>>
         /\ step[c] = "save" /\ step'[c] = "idle" /\ op'[c] = NoOp
<1>1. DelegationTyped /\ IDsInv
  BY DEF DelegationInv
<1>2. /\ step' \in [Command -> {"idle", "load", "save"}] /\ step[c] = "save"
      /\ step'[c] = "idle" /\ \A d \in Command : d # c => step'[d] = step[d]
  BY <1>1 DEF DelegationTyped, SaveRevoked, Goto
<1>3. op[c] \in Creation \cup Revocation \cup {NoOp} /\ op[c] # NoOp /\ op[c].kind = "revoke"
  BY <1>1, <1>2 DEF DelegationTyped, IDsInv, SaveRevoked
<1>4. op[c] \in Revocation /\ op[c].id \in DelegationID
  BY <1>3, OpKinds
<1>5. /\ records' = {Marked(r, op[c]) : r \in copy[c]}
      /\ \E r \in copy[c] : r.id = op[c].id
      /\ revoked' = revoked \cup {op[c].id} /\ Finish(c) /\ UNCHANGED <<now, agents, minted>>
  BY DEF SaveRevoked, Marked
<1>6. /\ copy[c] \subseteq Record /\ UniqueIDs(copy[c])
      /\ \A x \in copy[c] : Known(x.id, minted)
  BY <1>1 DEF DelegationTyped, IDsInv
<1>7. \A x \in copy[c] : Marked(x, op[c]) \in Record /\ Marked(x, op[c]).id = x.id
  BY <1>4, <1>6, MarkedRecord
<1>8. DelegationTyped'
  BY <1>1, <1>2, <1>4, <1>5, <1>7, FinishShape DEF DelegationTyped
<1>9. UniqueIDs(records') /\ \A x \in records' : Known(x.id, minted)
  BY <1>5, <1>6, <1>7 DEF UniqueIDs
<1>10. /\ op'[c] = NoOp /\ op'[c] \notin Creation
       /\ \A d \in Command : d # c => op'[d] = op[d]
       /\ copy'[c] = {} /\ \A d \in Command : d # c => copy'[d] = copy[d]
  BY <1>1, <1>5, FinishShape
<1>11. \A d \in Command : UniqueIDs(copy'[d]) /\ \A x \in copy'[d] : Known(x.id, minted)
  <2>1. UniqueIDs({})
    BY DEF UniqueIDs
  <2>2. QED
    BY <1>1, <1>10, <2>1 DEF IDsInv
<1>12. IDsInv'
  BY <1>1, <1>2, <1>5, <1>9, <1>10, <1>11 DEF IDsInv
<1>. QED
  BY <1>2, <1>4, <1>5, <1>8, <1>10, <1>12 DEF DelegationInv

LEMMA AbandonKeeps ==
  ASSUME DelegationInv, NEW c \in Command, Abandon(c)
  PROVE  DelegationInv' /\ step'[c] = "idle" /\ op'[c] = NoOp
<1>1. DelegationTyped /\ IDsInv
  BY DEF DelegationInv
<1>2. /\ step' \in [Command -> {"idle", "load", "save"}]
      /\ step'[c] = "idle" /\ \A d \in Command : d # c => step'[d] = step[d]
  BY <1>1 DEF DelegationTyped, Abandon
<1>3. Finish(c) /\ UNCHANGED <<now, agents, records, minted, revoked>>
  BY DEF Abandon
<1>4. /\ op' \in [Command -> Creation \cup Revocation \cup {NoOp}]
      /\ op'[c] = NoOp /\ op'[c] \notin Creation
      /\ \A d \in Command : d # c => op'[d] = op[d]
      /\ copy' \in [Command -> SUBSET Record]
      /\ copy'[c] = {} /\ \A d \in Command : d # c => copy'[d] = copy[d]
  BY <1>1, <1>3, FinishShape
<1>5. DelegationTyped'
  BY <1>1, <1>2, <1>3, <1>4 DEF DelegationTyped
<1>6. UniqueIDs({})
  BY DEF UniqueIDs
<1>7. IDsInv'
  BY <1>1, <1>2, <1>3, <1>4, <1>6 DEF IDsInv
<1>. QED
  BY <1>2, <1>4, <1>5, <1>7 DEF DelegationInv

LEMMA DelegationStepKeeps ==
  ASSUME DelegationInv, DelegationNext \/ UNCHANGED delegationVars
  PROVE  DelegationInv'
<1>1. CASE AddAgent \/ RemoveAgent \/ Tick \/ UNCHANGED delegationVars
  <2>1. UNCHANGED commandVars
    BY <1>1 DEF AddAgent, RemoveAgent, Tick, delegationVars
  <2>2. now' \in Nat /\ agents' \subseteq AgentID
    BY <1>1 DEF AddAgent, RemoveAgent, Tick, delegationVars, DelegationInv, DelegationTyped
  <2>3. DelegationTyped'
    BY <2>1, <2>2 DEF DelegationInv, DelegationTyped, commandVars
  <2>4. IDsInv'
    BY <2>1 DEF DelegationInv, IDsInv, commandVars
  <2>5. QED
    BY <2>3, <2>4 DEF DelegationInv
<1>2. ASSUME NEW c \in Command,
             \/ BeginCreate(c) \/ BeginRevoke(c) \/ LoadRecords(c)
             \/ SaveCreated(c) \/ SaveRevoked(c) \/ Abandon(c)
      PROVE  DelegationInv'
  BY <1>2, BeginCreateKeeps, BeginRevokeKeeps, LoadKeeps, SaveCreatedKeeps, SaveRevokedKeeps,
     AbandonKeeps
<1>. QED
  BY <1>1, <1>2 DEF DelegationNext

(***************************************************************************)
(* The handler's own variables                                             *)
(***************************************************************************)
LEMMA ArriveShape ==
  ASSUME DelegationTyped, ProxyTyped, NEW q \in Request, Arrive(q)
  PROVE  /\ ProxyTyped' /\ UNCHANGED <<delegationVars, rules, target, at, answer>>
         /\ phase[q] = "arrive" /\ phase'[q] = "claims"
         /\ ended'[q] = revoked \cup {r.id : r \in {r \in records : r.expiresAt <= now}}
         /\ \A p \in Request : p # q => /\ phase'[p] = phase[p] /\ token'[p] = token[p]
                                        /\ ended'[p] = ended[p]
<1>. DEFINE over == revoked \cup {r.id : r \in {r \in records : r.expiresAt <= now}}
<1>1. over \in SUBSET DelegationID
  BY DEF DelegationTyped, Record
<1>2. PICK t \in minted \cup {NoToken} : token' = [token EXCEPT ![q] = t]
  BY DEF Arrive
<1>3. t \in Token \cup {NoToken}
  BY DEF DelegationTyped
<1>4. ended' = [ended EXCEPT ![q] = over]
  BY DEF Arrive
<1>. HIDE DEF over
<1>5. ended' \in [Request -> SUBSET DelegationID] /\ ended'[q] = over
      /\ \A p \in Request : p # q => ended'[p] = ended[p]
  BY <1>1, <1>4 DEF ProxyTyped
<1>6. token' \in [Request -> Token \cup {NoToken}]
      /\ \A p \in Request : p # q => token'[p] = token[p]
  BY <1>2, <1>3 DEF ProxyTyped
<1>7. /\ phase' \in [Request -> {"arrive", "claims", "record", "agent", "policy", "done"}]
      /\ phase[q] = "arrive" /\ phase'[q] = "claims"
      /\ \A p \in Request : p # q => phase'[p] = phase[p]
  BY DEF ProxyTyped, Arrive, Proceed
<1>8. UNCHANGED <<delegationVars, rules, target, at, answer>>
  BY DEF Arrive
<1>9. ProxyTyped'
  BY <1>5, <1>6, <1>7, <1>8 DEF ProxyTyped
<1>. QED
  BY <1>5, <1>6, <1>7, <1>8, <1>9 DEF over

LEMMA HandlerShape ==
  ASSUME DelegationTyped, ProxyTyped, NEW q \in Request, HandlerStep(q)
  PROVE  /\ ProxyTyped' /\ UNCHANGED <<delegationVars, rules, target, token, ended>>
         /\ \A p \in Request : p # q => /\ phase'[p] = phase[p] /\ at'[p] = at[p]
                                        /\ answer'[p] = answer[p]
         /\ phase[q] \notin {"arrive", "done"}
         /\ \/ /\ phase[q] = "claims" /\ phase'[q] = "record" /\ at'[q] = now
               /\ answer'[q] = answer[q]
            \/ /\ phase[q] = "record" /\ phase'[q] = "agent" /\ InForce(token[q], at[q])
               /\ answer'[q] = answer[q]
            \/ phase[q] = "agent" /\ phase'[q] = "policy" /\ answer'[q] = answer[q]
            \/ phase[q] = "policy" /\ phase'[q] = "done"
            \/ phase'[q] = "done" /\ answer'[q] # "forwarded"
<1>1. CASE CheckClaims(q)
  BY <1>1 DEF CheckClaims, Proceed, DelegationTyped, ProxyTyped
<1>2. CASE CheckRecord(q)
  BY <1>2 DEF CheckRecord, Proceed, ProxyTyped
<1>3. CASE CheckAgent(q)
  BY <1>3 DEF CheckAgent, Proceed, ProxyTyped
<1>4. CASE Decide(q)
  <2>1. PICK a \in {"forwarded", "denied"} : answer' = [answer EXCEPT ![q] = a]
    BY <1>4 DEF Decide, Respond
  <2>2. phase[q] = "policy" /\ phase' = [phase EXCEPT ![q] = "done"]
    BY <1>4 DEF Decide, Proceed
  <2>3. UNCHANGED <<delegationVars, rules, token, target, at, ended>>
    BY <1>4 DEF Decide
  <2>4. QED
    BY <2>1, <2>2, <2>3 DEF ProxyTyped
<1>5. CASE Refuse(q)
  BY <1>5 DEF Refuse, Respond, ProxyTyped
<1>6. CASE Fail(q)
  <2>1. PICK a \in {"error", "unauthorized"} : answer' = [answer EXCEPT ![q] = a]
    BY <1>6 DEF Fail, Respond
  <2>2. phase[q] \in {"record", "agent", "policy"} /\ phase' = [phase EXCEPT ![q] = "done"]
    BY <1>6 DEF Fail
  <2>3. UNCHANGED <<delegationVars, rules, token, target, at, ended>>
    BY <1>6 DEF Fail
  <2>4. QED
    BY <2>1, <2>2, <2>3 DEF ProxyTyped
<1>. QED
  BY <1>1, <1>2, <1>3, <1>4, <1>5, <1>6 DEF HandlerStep

LEMMA ProxyTypesStep ==
  ASSUME DelegationTyped, ProxyTyped, [Next]_vars
  PROVE  ProxyTyped'
<1>1. CASE \E q \in Request : Arrive(q) \/ HandlerStep(q)
  BY <1>1, ArriveShape, HandlerShape
<1>2. CASE AddRule \/ RemoveRule
  <2>1. rules' \subseteq Rules /\ UNCHANGED proxyVars /\ UNCHANGED target
    BY <1>2 DEF AddRule, RemoveRule, ProxyTyped, proxyVars
  <2>2. QED
    BY <2>1 DEF ProxyTyped, proxyVars
<1>3. CASE Others \/ UNCHANGED vars
  BY <1>3 DEF Others, vars, proxyVars, ProxyTyped
<1>. QED
  BY <1>1, <1>2, <1>3 DEF Next

\* Whatever else happens, the delegations take a step of theirs or none.
LEMMA StepsOfDelegations ==
  ASSUME [Next]_vars
  PROVE  DelegationNext \/ UNCHANGED delegationVars
BY DEF Next, Arrive, HandlerStep, CheckClaims, CheckRecord, CheckAgent, Decide, Refuse, Fail,
       AddRule, RemoveRule, Others, vars

(***************************************************************************)
(* Types, for any number of commands                                       *)
(***************************************************************************)
LEMMA TypesInit == Init => DelegationInv /\ ProxyTyped
BY DelegationInitHolds DEF Init, ProxyTyped

LEMMA TypesStep ==
  DelegationInv /\ ProxyTyped /\ [Next]_vars => DelegationInv' /\ ProxyTyped'
BY StepsOfDelegations, DelegationStepKeeps, ProxyTypesStep DEF DelegationInv

\* Every variable has its type, and a file never holds two records with one
\* id, however many commands load and save it at the same time.
THEOREM Types == Spec => []TypeOK
<1>1. DelegationInv /\ ProxyTyped => TypeOK
  BY TypeParts DEF DelegationInv, IDsInv
<1>. QED
  BY <1>1, TypesInit, TypesStep, PTL DEF Spec

LEMMA RecordsAgree ==
  ASSUME NEW r \in Record, NEW t \in r.issuedAt..MaxTime
  PROVE  /\ InTime(TokenOf(r), t) => t < r.expiresAt
         /\ t + Second <= r.expiresAt => InTime(TokenOf(r), t)
<1>1. r.issuedAt \in Nat /\ r.expiresAt \in Nat /\ t \in Nat /\ r.issuedAt <= t
  BY DelegationAssumption DEF Record
<1>2. TokenOf(r).nbf = Unix(r.issuedAt) /\ TokenOf(r).exp = Unix(r.expiresAt)
  BY DEF TokenOf
<1>3. Unix(r.issuedAt) <= Unix(t) /\ Unix(t) \in Nat /\ Unix(r.expiresAt) \in Nat
  BY <1>1, UnixIsMonotone
<1>4. r.expiresAt <= t => Unix(r.expiresAt) <= Unix(t)
  BY <1>1, UnixIsMonotone
<1>5. t + Second <= r.expiresAt => Unix(t) < Unix(r.expiresAt)
  BY <1>1, UnixCountsSeconds
<1>. QED
  BY <1>1, <1>2, <1>3, <1>4, <1>5 DEF InTime

\* A token is never good after its record has expired, and is good until at
\* most a second before, whatever fraction of a second either was made at.
THEOREM ClocksAgree == Spec => []TokenAgreesWithRecord
<1>1. TypeOK => TokenAgreesWithRecord
  BY RecordsAgree DEF TypeOK, TokenAgreesWithRecord
<1>. QED
  BY <1>1, Types, PTL

(***************************************************************************)
(* One command at a time                                                   *)
(***************************************************************************)
OneCommand == \A c, d \in Command : c = d

(***************************************************************************)
(* A command saves a copy of the file as it still is, and it revokes an id *)
(* that was handed out.                                                    *)
(***************************************************************************)
CommandInv ==
  /\ DelegationInv
  /\ \A c \in Command : step[c] = "save" => copy[c] = records
  /\ \A c \in Command : op[c] \in Revocation => Known(op[c].id, minted)
  /\ \A id \in revoked : Known(id, minted)
  /\ CommandsAreDurable

\* The ids had all been revoked, or what they name had run out at time t.
EndedBy(ids, rs, gone, t) ==
  \A id \in ids : id \in gone \/ \A r \in rs : r.id = id => r.expiresAt <= t

\* What a step does to the file, as the proxy sees it: no record changes its
\* expiry, and a new one has an id that nobody knew.
Evolves ==
  /\ now \in Nat /\ now' \in Nat /\ now <= now'
  /\ minted \subseteq minted' /\ revoked \subseteq revoked'
  /\ \A r \in records' :
       \/ \E s \in records : s.id = r.id /\ s.expiresAt = r.expiresAt
       \/ ~Known(r.id, minted)

LEMMA SaveCreatedSerial ==
  ASSUME OneCommand, CommandInv, NEW c \in Command, SaveCreated(c)
  PROVE  CommandInv' /\ Evolves
<1>1. DelegationInv /\ now \in Nat /\ copy[c] = records
  BY DEF CommandInv, DelegationInv, DelegationTyped, SaveCreated, Goto
<1>2. /\ DelegationInv'
      /\ op[c] \in Creation /\ op[c].record \in Record
      /\ ~Known(op[c].record.id, minted)
      /\ step'[c] = "idle" /\ op'[c] = NoOp
  BY <1>1, SaveCreatedKeeps
<1>. DEFINE n == op[c].record
<1>3. /\ records' = records \cup {n} /\ minted' = minted \cup {TokenOf(n)}
      /\ UNCHANGED <<now, revoked>>
  BY <1>1 DEF SaveCreated
<1>. HIDE DEF n
<1>4. \A id : Known(id, minted) => Known(id, minted')
  BY <1>3 DEF Known
<1>5. n.id \notin revoked
  BY <1>2 DEF CommandInv, n
<1>6. CommandsAreDurable'
  BY <1>3, <1>5 DEF CommandInv, CommandsAreDurable
<1>7. \A d \in Command : d = c
  BY DEF OneCommand
<1>8. CommandInv'
  BY <1>2, <1>3, <1>4, <1>6, <1>7, OpAssumption DEF CommandInv
<1>9. Evolves
  BY <1>1, <1>2, <1>3 DEF Evolves, n
<1>. QED
  BY <1>8, <1>9

LEMMA SaveRevokedSerial ==
  ASSUME OneCommand, CommandInv, NEW c \in Command, SaveRevoked(c)
  PROVE  CommandInv' /\ Evolves
<1>1. /\ DelegationInv /\ now \in Nat /\ copy[c] = records /\ records \subseteq Record
      /\ CommandsAreDurable
  BY DEF CommandInv, DelegationInv, DelegationTyped, SaveRevoked, Goto
<1>2. /\ DelegationInv'
      /\ op[c] \in Revocation
      /\ records' = {Marked(r, op[c]) : r \in records}
      /\ revoked' = revoked \cup {op[c].id} /\ UNCHANGED <<now, minted>>
      /\ step'[c] = "idle" /\ op'[c] = NoOp
  BY <1>1, SaveRevokedKeeps
<1>. DEFINE o == op[c]
<1>3. \A r \in records :
        /\ Marked(r, o).id = r.id /\ Marked(r, o).expiresAt = r.expiresAt
        /\ TokenOf(Marked(r, o)) = TokenOf(r)
        /\ r.id = o.id => Marked(r, o).revokedAt # NoTime
        /\ r.id # o.id => Marked(r, o) = r
  BY <1>1, <1>2, MarkedRecord
<1>. HIDE DEF o
<1>4. \A t \in minted' : \E r \in records' : TokenOf(r) = t
  BY <1>1, <1>2, <1>3 DEF CommandsAreDurable, o
<1>5. \A r \in records' : r.id \in revoked' => r.revokedAt # NoTime
  <2>. SUFFICES ASSUME NEW r \in records, Marked(r, o).id \in revoked'
                PROVE  Marked(r, o).revokedAt # NoTime
    BY <1>2 DEF o
  <2>1. r.id \in revoked \/ r.id = o.id
    BY <1>2, <1>3 DEF o
  <2>2. QED
    BY <1>1, <1>3, <2>1 DEF CommandsAreDurable
<1>6. Known(o.id, minted)
  BY <1>2 DEF CommandInv, o
<1>7. \A d \in Command : d = c
  BY DEF OneCommand
<1>8. CommandInv'
  BY <1>2, <1>4, <1>5, <1>6, <1>7, OpAssumption DEF CommandInv, CommandsAreDurable, o
<1>9. Evolves
  BY <1>1, <1>2, <1>3 DEF Evolves, o
<1>. QED
  BY <1>8, <1>9

LEMMA CommandStep ==
  ASSUME OneCommand, CommandInv, DelegationNext \/ UNCHANGED delegationVars
  PROVE  CommandInv' /\ Evolves
<1>1. DelegationInv /\ DelegationInv' /\ now \in Nat
  BY DelegationStepKeeps DEF CommandInv, DelegationInv, DelegationTyped
<1>2. CASE UNCHANGED delegationVars \/ AddAgent \/ RemoveAgent \/ Tick
  <2>1. UNCHANGED commandVars
    BY <1>2 DEF AddAgent, RemoveAgent, Tick, delegationVars
  <2>2. CommandInv'
    BY <1>1, <2>1 DEF CommandInv, CommandsAreDurable, commandVars
  <2>3. now' = now \/ now' = now + 1
    BY <1>2 DEF AddAgent, RemoveAgent, Tick, delegationVars
  <2>4. Evolves
    BY <1>1, <2>1, <2>3 DEF Evolves, commandVars
  <2>5. QED
    BY <2>2, <2>4
<1>3. ASSUME NEW c \in Command,
             BeginCreate(c) \/ BeginRevoke(c) \/ LoadRecords(c) \/ Abandon(c)
      PROVE  CommandInv' /\ Evolves
  <2>1. UNCHANGED <<now, records, minted, revoked>>
    BY <1>3 DEF BeginCreate, BeginRevoke, LoadRecords, Abandon
  <2>2. \A d \in Command : d = c
    BY DEF OneCommand
  <2>3. step'[c] = "save" => copy'[c] = records
    <3>1. CASE LoadRecords(c)
      BY <1>1, <3>1, LoadKeeps
    <3>2. CASE ~LoadRecords(c)
      BY <1>1, <1>3, <3>2 DEF BeginCreate, BeginRevoke, Abandon, Goto, DelegationInv,
                              DelegationTyped
    <3>3. QED
      BY <3>1, <3>2
  <2>4. op'[c] \in Revocation => Known(op'[c].id, minted)
    <3>1. CASE BeginRevoke(c)
      BY <1>1, <3>1, BeginRevokeKeeps
    <3>2. CASE Abandon(c)
      BY <1>1, <3>2, AbandonKeeps, OpAssumption
    <3>3. CASE LoadRecords(c)
      BY <3>3 DEF LoadRecords, CommandInv
    <3>4. CASE BeginCreate(c)
      <4>1. op'[c] \in {[kind |-> "create", record |-> op'[c].record]}
        BY <1>1, <3>4 DEF BeginCreate, DelegationInv, DelegationTyped
      <4>2. op'[c] \notin Revocation
        BY <4>1 DEF Revocation
      <4>3. QED
        BY <4>2
    <3>5. QED
      BY <1>3, <3>1, <3>2, <3>3, <3>4
  <2>5. CommandInv'
    BY <1>1, <2>1, <2>2, <2>3, <2>4 DEF CommandInv, CommandsAreDurable
  <2>6. Evolves
    BY <1>1, <2>1 DEF Evolves
  <2>7. QED
    BY <2>5, <2>6
<1>. QED
  BY <1>2, <1>3, SaveCreatedSerial, SaveRevokedSerial DEF DelegationNext

LEMMA CommandInit == Init => CommandInv
<1>. SUFFICES ASSUME Init PROVE CommandInv
  OBVIOUS
<1>1. DelegationInv
  BY DelegationInitHolds DEF Init
<1>2. \A c \in Command : step[c] = "idle" /\ op[c] = NoOp
  BY DEF Init, DelegationInit
<1>. QED
  BY <1>1, <1>2, OpAssumption DEF Init, DelegationInit, CommandInv, CommandsAreDurable

\* When commands do not overlap, every token handed out has its record and
\* every acknowledged revocation is in the file.
THEOREM CommandsLast == OneCommand => (Spec => []CommandsAreDurable)
<1>. SUFFICES ASSUME OneCommand PROVE Spec => []CommandsAreDurable
  OBVIOUS
<1>1. CommandInv /\ [Next]_vars => CommandInv'
  BY StepsOfDelegations, CommandStep
<1>2. CommandInv => CommandsAreDurable
  BY DEF CommandInv
<1>. QED
  BY <1>1, <1>2, CommandInit, PTL DEF Spec

(***************************************************************************)
(* Requests: what had ended when a request arrived has been revoked, or    *)
(* its record has run out at the time the request is checked against; once *)
(* the record has been looked at, the token is not one of those.           *)
(***************************************************************************)
RequestInv(q) ==
  /\ \A id \in ended[q] : Known(id, minted)
  /\ phase[q] = "claims" => EndedBy(ended[q], records, revoked, now)
  /\ phase[q] = "record" => EndedBy(ended[q], records, revoked, at[q])
  /\ phase[q] \in {"agent", "policy"} => token[q].id \notin ended[q]
  /\ phase[q] # "done" => answer[q] = "none"
  /\ answer[q] = "forwarded" => token[q].id \notin ended[q]

ProxyInv == CommandInv /\ ProxyTyped /\ \A q \in Request : RequestInv(q)

LEMMA EndedLater ==
  ASSUME Evolves, NEW ids, \A id \in ids : Known(id, minted), records \subseteq Record,
         NEW t \in Nat, NEW u \in Nat, t <= u, EndedBy(ids, records, revoked, t)
  PROVE  /\ EndedBy(ids, records', revoked', u)
         /\ \A id \in ids : Known(id, minted')
<1>1. \A id \in ids : Known(id, minted')
  BY DEF Evolves, Known
<1>2. ASSUME NEW id \in ids, id \notin revoked, NEW r \in records', r.id = id
      PROVE  r.expiresAt <= u
  <2>1. PICK s \in records : s.id = r.id /\ s.expiresAt = r.expiresAt
    BY <1>2 DEF Evolves
  <2>2. s.expiresAt <= t /\ s.expiresAt \in Nat
    BY <1>2, <2>1 DEF EndedBy, Record
  <2>3. QED
    BY <2>1, <2>2
<1>. QED
  BY <1>1, <1>2 DEF EndedBy, Evolves

\* A request that does not move keeps its part while others go on.
LEMMA RequestStays ==
  ASSUME ProxyInv, Evolves, NEW q \in Request,
         phase'[q] = phase[q], token'[q] = token[q], at'[q] = at[q],
         answer'[q] = answer[q], ended'[q] = ended[q]
  PROVE  RequestInv(q)'
<1>1. RequestInv(q) /\ records \subseteq Record /\ at[q] \in Nat
  BY DEF ProxyInv, CommandInv, DelegationInv, DelegationTyped, ProxyTyped
<1>2. \A id \in ended[q] : Known(id, minted')
  BY <1>1 DEF RequestInv, Evolves, Known
<1>3. phase[q] = "claims" => EndedBy(ended[q], records', revoked', now')
  BY <1>1, EndedLater DEF RequestInv, Evolves
<1>4. phase[q] = "record" => EndedBy(ended[q], records', revoked', at[q])
  BY <1>1, EndedLater DEF RequestInv
<1>. QED
  BY <1>1, <1>2, <1>3, <1>4 DEF RequestInv

LEMMA ArriveKeeps ==
  ASSUME ProxyInv, NEW q \in Request, Arrive(q)
  PROVE  RequestInv(q)'
<1>1. DelegationTyped /\ ProxyTyped /\ IDsInv /\ RequestInv(q)
  BY DEF ProxyInv, CommandInv, DelegationInv
<1>2. /\ UNCHANGED <<delegationVars, answer>>
      /\ phase[q] = "arrive" /\ phase'[q] = "claims"
      /\ ended'[q] = revoked \cup {r.id : r \in {r \in records : r.expiresAt <= now}}
  BY <1>1, ArriveShape
<1>3. UNCHANGED <<records, minted, revoked, now>> /\ answer'[q] = "none"
  BY <1>1, <1>2 DEF delegationVars, commandVars, RequestInv
<1>4. \A id \in ended'[q] : Known(id, minted)
  BY <1>1, <1>2 DEF ProxyInv, CommandInv, IDsInv
<1>5. EndedBy(ended'[q], records, revoked, now)
  BY <1>1, <1>2 DEF EndedBy, IDsInv, UniqueIDs
<1>. QED
  BY <1>2, <1>3, <1>4, <1>5 DEF RequestInv

LEMMA HandlerKeeps ==
  ASSUME ProxyInv, NEW q \in Request, HandlerStep(q)
  PROVE  RequestInv(q)'
<1>1. DelegationTyped /\ ProxyTyped /\ CommandsAreDurable /\ RequestInv(q)
  BY DEF ProxyInv, CommandInv, DelegationInv
<1>2. /\ UNCHANGED <<delegationVars, token, ended>>
      /\ phase[q] \notin {"arrive", "done"}
      /\ \/ /\ phase[q] = "claims" /\ phase'[q] = "record" /\ at'[q] = now
            /\ answer'[q] = answer[q]
         \/ /\ phase[q] = "record" /\ phase'[q] = "agent" /\ InForce(token[q], at[q])
            /\ answer'[q] = answer[q]
         \/ phase[q] = "agent" /\ phase'[q] = "policy" /\ answer'[q] = answer[q]
         \/ phase[q] = "policy" /\ phase'[q] = "done"
         \/ phase'[q] = "done" /\ answer'[q] # "forwarded"
  BY <1>1, HandlerShape
<1>3. /\ UNCHANGED <<records, minted, revoked, now>> /\ answer[q] = "none"
      /\ \A id \in ended'[q] : Known(id, minted')
  BY <1>1, <1>2 DEF delegationVars, commandVars, RequestInv
<1>4. CASE phase[q] = "claims" /\ phase'[q] = "record" /\ at'[q] = now
           /\ answer'[q] = answer[q]
  BY <1>1, <1>2, <1>3, <1>4 DEF RequestInv
<1>5. CASE phase[q] = "record" /\ phase'[q] = "agent" /\ InForce(token[q], at[q])
           /\ answer'[q] = answer[q]
  <2>1. PICK r \in records :
          TokenOf(r) = token[q] /\ r.revokedAt = NoTime /\ at[q] < r.expiresAt
    BY <1>5 DEF InForce
  <2>2. r.id = token[q].id /\ r.expiresAt \in Nat /\ at[q] \in Nat
    BY <1>1, <2>1, TokenOfRecord DEF DelegationTyped, ProxyTyped, Record
  <2>3. r.id \notin revoked
    BY <1>1, <2>1 DEF CommandsAreDurable
  <2>4. token[q].id \notin ended[q]
    BY <1>1, <1>5, <2>1, <2>2, <2>3 DEF RequestInv, EndedBy
  <2>5. QED
    BY <1>2, <1>3, <1>5, <2>4 DEF RequestInv
<1>6. CASE \/ phase[q] = "agent" /\ phase'[q] = "policy" /\ answer'[q] = answer[q]
           \/ phase[q] = "policy" /\ phase'[q] = "done"
           \/ phase'[q] = "done" /\ answer'[q] # "forwarded"
  BY <1>1, <1>2, <1>3, <1>6 DEF RequestInv
<1>. QED
  BY <1>2, <1>4, <1>5, <1>6

LEMMA ProxyInvInit == Init => ProxyInv
<1>. SUFFICES ASSUME Init PROVE ProxyInv
  OBVIOUS
<1>1. \A q \in Request : phase[q] = "arrive" /\ answer[q] = "none" /\ ended[q] = {}
  BY DEF Init
<1>. QED
  BY <1>1, CommandInit, TypesInit DEF ProxyInv, RequestInv

LEMMA ProxyInvStep == OneCommand /\ ProxyInv /\ [Next]_vars => ProxyInv'
<1>. SUFFICES ASSUME OneCommand, ProxyInv, [Next]_vars PROVE ProxyInv'
  OBVIOUS
<1>1. CommandInv' /\ Evolves
  BY StepsOfDelegations, CommandStep DEF ProxyInv
<1>2. DelegationTyped /\ ProxyTyped /\ ProxyTyped'
  BY ProxyTypesStep DEF ProxyInv, CommandInv, DelegationInv
<1>3. ASSUME NEW q \in Request, Arrive(q)
      PROVE  \A p \in Request : RequestInv(p)'
  <2>1. UNCHANGED <<at, answer>>
        /\ \A p \in Request : p # q => /\ phase'[p] = phase[p] /\ token'[p] = token[p]
                                       /\ ended'[p] = ended[p]
    BY <1>2, <1>3, ArriveShape
  <2>2. QED
    BY <1>1, <1>3, <2>1, ArriveKeeps, RequestStays
<1>4. ASSUME NEW q \in Request, HandlerStep(q)
      PROVE  \A p \in Request : RequestInv(p)'
  <2>1. UNCHANGED <<token, ended>>
        /\ \A p \in Request : p # q => /\ phase'[p] = phase[p] /\ at'[p] = at[p]
                                       /\ answer'[p] = answer[p]
    BY <1>2, <1>4, HandlerShape
  <2>2. QED
    BY <1>1, <1>4, <2>1, HandlerKeeps, RequestStays
<1>5. CASE AddRule \/ RemoveRule \/ Others \/ UNCHANGED vars
  <2>1. UNCHANGED proxyVars
    BY <1>5 DEF AddRule, RemoveRule, Others, vars
  <2>2. QED
    BY <1>1, <1>2, <2>1, RequestStays DEF ProxyInv, proxyVars
<1>. QED
  BY <1>1, <1>2, <1>3, <1>4, <1>5 DEF ProxyInv, Next

\* When commands do not overlap, no request is forwarded that arrived after
\* its delegation had run out or its revocation was acknowledged, although
\* the handler samples the clock before it reads any of the three files.
THEOREM EndedStaysOut == OneCommand => (Spec => []EndedIsRefused)
<1>. SUFFICES ASSUME OneCommand PROVE Spec => []EndedIsRefused
  OBVIOUS
<1>1. ProxyInv /\ [Next]_vars => ProxyInv'
  BY ProxyInvStep
<1>2. ProxyInv => EndedIsRefused
  BY DEF ProxyInv, RequestInv, EndedIsRefused
<1>. QED
  BY <1>1, <1>2, ProxyInvInit, PTL DEF Spec
=============================================================================
