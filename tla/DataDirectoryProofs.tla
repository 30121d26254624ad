------------------------ MODULE DataDirectoryProofs -------------------------
(***************************************************************************)
(* Proofs about DataDirectory, for any ids, keys, kills and number of      *)
(* commands: its types, that the processes agree on the signing key, that  *)
(* the audit log is true and hides nothing, and that every command does    *)
(* what CommandLine promises of it.                                        *)
(***************************************************************************)
EXTENDS DataDirectory, SequenceTheorems, TLAPS

(***************************************************************************)
(* Commands                                                                *)
(***************************************************************************)
LEMMA CommandKinds ==
  ASSUME NEW c \in Command
  PROVE  /\ c.registry \in Registry
         /\ c.verb \in {"add", "remove", "set-pin", "clear-pin", "create", "revoke"}
         /\ c.verb \in {"add", "remove"} =>
              c.registry \in {"agents", "clients", "policies"} /\ c.name \in Name
         /\ c.verb \in {"set-pin", "clear-pin"} => c.registry = "user"
         /\ c.verb \in {"create", "revoke"} => c.registry = "delegations" /\ c.id \in DelegationID
         /\ c.verb = "create" => c.agent \in Name
         /\ c.registry = "delegations" => c.verb \in {"create", "revoke"}
BY DEF Command, AddCommand, RemoveCommand, PINCommand, DelegateCommand, Registry

\* What a command makes of the entries of its registry are entries of it.
LEMMA ResultTypes ==
  ASSUME NEW c \in Command, NEW es \in SUBSET Entries(c.registry)
  PROVE  Result(c, es) \in SUBSET Entries(c.registry)
<1>1. CASE c.verb \in {"add", "remove"}
  BY <1>1, CommandKinds DEF Result, Entries
<1>2. CASE c.verb \in {"set-pin", "clear-pin"}
  BY <1>2, CommandKinds DEF Result, Entries
<1>3. CASE c.verb = "create"
  <2>1. Entries(c.registry) = [id : DelegationID, agent : Name, revoked : BOOLEAN]
    BY <1>3, CommandKinds DEF Entries
  <2>2. [id |-> c.id, agent |-> c.agent, revoked |-> FALSE] \in Entries(c.registry)
    BY <1>3, <2>1, CommandKinds
  <2>3. QED
    BY <1>3, <2>2 DEF Result
<1>4. CASE c.verb = "revoke"
  <2>1. Entries(c.registry) = [id : DelegationID, agent : Name, revoked : BOOLEAN]
    BY <1>4, CommandKinds DEF Entries
  <2>2. ASSUME NEW r \in es
        PROVE  [r EXCEPT !.revoked = TRUE] \in Entries(c.registry) /\ r \in Entries(c.registry)
    <3>1. r \in [id : DelegationID, agent : Name, revoked : BOOLEAN]
      BY <2>1
    <3>2. [r EXCEPT !.revoked = TRUE] \in [id : DelegationID, agent : Name, revoked : BOOLEAN]
      BY <3>1
    <3>3. QED
      BY <2>1, <3>1, <3>2
  <2>3. Result(c, es) = {IF r.id = c.id THEN [r EXCEPT !.revoked = TRUE] ELSE r : r \in es}
    BY <1>4 DEF Result
  <2>4. QED
    BY <2>2, <2>3
<1>. QED
  BY <1>1, <1>2, <1>3, <1>4, CommandKinds

(***************************************************************************)
(* Types                                                                   *)
(***************************************************************************)
Event == [kind : {"create", "revoke", "request"}, id : DelegationID, long : BOOLEAN]

Place == {"idle", "agents", "profile", "key", "generate", "write key",
          "registries", "up", "load", "open", "write", "rename", "audit", "answer"}

FilesTyped ==
  /\ DOMAIN file = Registry /\ DOMAIN tmp = Registry /\ DOMAIN mem = Registry
  /\ \A r \in Registry : file[r] \in Content(r) /\ tmp[r] \in Content(r) /\ mem[r] \in SUBSET Entries(r)
  /\ keyFile \in Key \cup {NoFile, Partial} /\ drawn \subseteq Key /\ raced \in BOOLEAN
  /\ audit \in Seq(Event \cup {Torn})

AnswersTyped ==
  /\ answer \in {"none", "ok", "failed"}
  /\ \A t \in tokens : t.id \in DelegationID /\ t.key \in Key
  /\ begun \in Nat /\ kills \in Nat

\* A process of a command runs one on its registry, and "delegate create"
\* alone reads other registries and the key.
Runs(r) ==
  pc[r] # "idle" =>
    /\ run[r] \in Command /\ run[r].registry = r
    /\ pc[r] \in {"agents", "profile", "key", "generate", "write key"} => run[r].verb = "create"
    /\ pc[r] = "audit" => r = "delegations"

\* Who has gone past the key has one.
HasItsKey(p) ==
  /\ pc[p] = "write key" => held[p] \in Key
  /\ HasKey(p) /\ (p \in Registry => run[p].verb = "create") => held[p] \in Key

ProcessesTyped ==
  /\ pc \in [Process -> Place]
  /\ run \in [Registry -> Command \cup {NoCommand}]
  /\ held \in [KeyUser -> Key \cup {NoKey}]
  /\ \A r \in Registry : Runs(r)
  /\ \A p \in KeyUser : HasItsKey(p)

DirectoryTypes == FilesTyped /\ AnswersTyped /\ ProcessesTyped

LEMMA KeyUsers ==
  /\ KeyUser \subseteq Process /\ Registry \subseteq Process /\ "delegations" \in KeyUser
  /\ Server \in KeyUser /\ Server \notin Registry
  /\ \A p \in KeyUser : p = Server \/ p = "delegations"
  /\ "delegations" \in Registry
BY DirectoryAssumption DEF KeyUser, Process, Registry

LEMMA TypesAreTyped == DirectoryTypes => TypeOK
<1>. SUFFICES ASSUME DirectoryTypes PROVE TypeOK
  OBVIOUS
<1>1. HasKey(Server) => held[Server] \in Key
  BY KeyUsers DEF DirectoryTypes, ProcessesTyped, HasItsKey
<1>2. /\ pc \in [Process -> {"idle", "agents", "profile", "key", "generate", "write key",
                             "registries", "up", "load", "open", "write", "rename", "audit", "answer"}]
      /\ run \in [Registry -> Command \cup {NoCommand}]
      /\ held \in [KeyUser -> Key \cup {NoKey}]
  BY DEF DirectoryTypes, ProcessesTyped, Place
<1>3. \A r \in Registry : file[r] \in Content(r) /\ tmp[r] \in Content(r) /\ mem[r] \subseteq Entries(r)
  BY DEF DirectoryTypes, FilesTyped
<1>. QED
  BY <1>1, <1>2, <1>3 DEF DirectoryTypes, FilesTyped, AnswersTyped, TypeOK

LEMMA DirectoryTypesInit == Init => DirectoryTypes
<1>. SUFFICES ASSUME Init PROVE DirectoryTypes
  OBVIOUS
<1>1. FilesTyped
  <2>1. \A r \in Registry : file[r] = NoFile /\ tmp[r] = NoFile /\ mem[r] = {}
    BY DEF Init
  <2>2. \A r \in Registry : file[r] \in Content(r) /\ tmp[r] \in Content(r) /\ mem[r] \in SUBSET Entries(r)
    BY <2>1 DEF Content
  <2>3. DOMAIN file = Registry /\ DOMAIN tmp = Registry /\ DOMAIN mem = Registry
    BY DEF Init
  <2>4. keyFile \in Key \cup {NoFile, Partial} /\ drawn \subseteq Key /\ raced = FALSE
    BY DEF Init
  <2>5. audit \in Seq(Event \cup {Torn})
    BY DEF Init
  <2>6. QED
    BY <2>2, <2>3, <2>4, <2>5 DEF FilesTyped
<1>2. AnswersTyped
  BY DEF Init, AnswersTyped
<1>3. ProcessesTyped
  BY KeyUsers DEF Init, ProcessesTyped, Runs, HasItsKey, HasKey, Place
<1>. QED
  BY <1>1, <1>2, <1>3 DEF DirectoryTypes

\* A process goes to another place of its program; the others stay.
LEMMA MoveTypes ==
  ASSUME DirectoryTypes, NEW p \in Process, NEW s \in Place, pc' = [pc EXCEPT ![p] = s],
         run' \in [Registry -> Command \cup {NoCommand}], held' \in [KeyUser -> Key \cup {NoKey}],
         \A r \in Registry \ {p} : run'[r] = run[r],
         \A q \in KeyUser \ {p} : held'[q] = held[q],
         p \in Registry => Runs(p)', p \in KeyUser => HasItsKey(p)'
  PROVE  ProcessesTyped'
<1>1. pc' \in [Process -> Place] /\ pc'[p] = s /\ \A q \in Process \ {p} : pc'[q] = pc[q]
  BY DEF DirectoryTypes, ProcessesTyped
<1>2. ASSUME NEW r \in Registry PROVE Runs(r)'
  <2>1. CASE r = p
    BY <2>1
  <2>2. CASE r # p
    BY <1>1, <2>2, KeyUsers DEF DirectoryTypes, ProcessesTyped, Runs
  <2>3. QED
    BY <2>1, <2>2
<1>3. ASSUME NEW q \in KeyUser PROVE HasItsKey(q)'
  <2>1. CASE q = p
    BY <2>1
  <2>2. CASE q # p
    BY <1>1, <2>2, KeyUsers DEF DirectoryTypes, ProcessesTyped, HasItsKey, HasKey
  <2>3. QED
    BY <2>1, <2>2
<1>. QED
  BY <1>1, <1>2, <1>3 DEF ProcessesTyped

\* A process that keeps its command and its key moves to a place where it
\* has what it needs.
LEMMA StepTypes ==
  ASSUME DirectoryTypes, NEW p \in Process, NEW from \in Place \ {"idle"}, NEW s \in Place,
         Goto(p, from, s), UNCHANGED <<run, held>>,
         p \in Registry /\ s \in {"agents", "profile", "key", "generate", "write key"} =>
           from \in {"agents", "profile", "key", "generate", "write key"},
         s # "write key", p \in Registry /\ s = "audit" => p = "delegations",
         p \in KeyUser /\ HasKey(p)' /\ (p \in Registry => run[p].verb = "create") => held[p] \in Key
  PROVE  ProcessesTyped'
<1>1. pc' = [pc EXCEPT ![p] = s] /\ pc[p] = from /\ pc'[p] = s
  BY DEF Goto, DirectoryTypes, ProcessesTyped
<1>2. p \in Registry => Runs(p)'
  BY <1>1 DEF DirectoryTypes, ProcessesTyped, Runs
<1>3. p \in KeyUser => HasItsKey(p)'
  BY <1>1 DEF HasItsKey
<1>. QED
  BY <1>1, <1>2, <1>3, MoveTypes DEF DirectoryTypes, ProcessesTyped

\* What a process leaves behind when it exits.
LEMMA ExitTypes ==
  ASSUME DirectoryTypes, NEW p \in Process, NEW a \in {"none", "ok", "failed"}, Exit(p, a),
         UNCHANGED <<file, tmp, keyVars, audit, begun>>, kills' \in Nat,
         \A t \in tokens' : t.id \in DelegationID /\ t.key \in Key
  PROVE  DirectoryTypes'
<1>1. /\ pc' = [pc EXCEPT ![p] = "idle"]
      /\ run' = [r \in Registry |-> IF r = p THEN NoCommand ELSE run[r]]
      /\ mem' = [r \in Registry |-> IF r = p THEN {} ELSE mem[r]]
      /\ answer' = IF p \in Registry THEN a ELSE answer
      /\ held' = [q \in KeyUser |-> IF q = p THEN NoKey ELSE held[q]]
  BY DEF Exit
<1>2. ProcessesTyped'
  <2>1. pc'[p] = "idle"
    BY <1>1 DEF DirectoryTypes, ProcessesTyped
  <2>2. Runs(p)' /\ HasItsKey(p)'
    BY <2>1 DEF Runs, HasItsKey, HasKey
  <2>3. /\ run' \in [Registry -> Command \cup {NoCommand}] /\ held' \in [KeyUser -> Key \cup {NoKey}]
        /\ \A r \in Registry \ {p} : run'[r] = run[r]
        /\ \A q \in KeyUser \ {p} : held'[q] = held[q]
    BY <1>1 DEF DirectoryTypes, ProcessesTyped
  <2>4. QED
    BY <1>1, <2>2, <2>3, MoveTypes DEF Place
<1>3. FilesTyped'
  BY <1>1 DEF DirectoryTypes, FilesTyped, keyVars, Content
<1>4. AnswersTyped'
  BY <1>1 DEF DirectoryTypes, AnswersTyped
<1>. QED
  BY <1>2, <1>3, <1>4 DEF DirectoryTypes

LEMMA AuditTypes ==
  ASSUME DirectoryTypes,
         \/ AppendFails
         \/ \E r \in Registry : pc[r] = "audit" /\ AppendEvent(run[r].verb, run[r].id)
         \/ \E id \in DelegationID : AppendEvent("request", id)
  PROVE  audit' \in Seq(Event \cup {Torn})
<1>1. audit \in Seq(Event \cup {Torn})
  BY DEF DirectoryTypes, FilesTyped
<1>2. \A e \in Event \cup {Torn} : Append(audit, e) \in Seq(Event \cup {Torn})
  BY <1>1
<1>3. ASSUME NEW kind \in {"create", "revoke", "request"}, NEW id \in DelegationID, AppendEvent(kind, id)
      PROVE  audit' \in Seq(Event \cup {Torn})
  BY <1>2, <1>3 DEF AppendEvent, Event
<1>4. ASSUME NEW r \in Registry, pc[r] = "audit", AppendEvent(run[r].verb, run[r].id)
      PROVE  audit' \in Seq(Event \cup {Torn})
  <2>1. run[r] \in Command /\ run[r].registry = "delegations"
    BY <1>4 DEF DirectoryTypes, ProcessesTyped, Runs
  <2>2. QED
    BY <1>3, <1>4, <2>1, CommandKinds
<1>. QED
  BY <1>1, <1>2, <1>3, <1>4 DEF AppendFails

LEMMA DirectoryTypesStep == DirectoryTypes /\ [Next]_vars => DirectoryTypes'
<1>. SUFFICES ASSUME DirectoryTypes, [Next]_vars PROVE DirectoryTypes'
  OBVIOUS
<1>. USE KeyUsers DEF DirectoryTypes
<1>1. ASSUME NEW r \in Registry, Begin(r) PROVE DirectoryTypes'
  <2>1. PICK c \in Command :
          /\ c.registry = r /\ run' = [run EXCEPT ![r] = c]
          /\ Goto(r, "idle", IF c.verb = "create" THEN "agents" ELSE "load")
    BY <1>1 DEF Begin
  <2>2. /\ run' \in [Registry -> Command \cup {NoCommand}] /\ run'[r] = c
        /\ \A q \in Registry \ {r} : run'[q] = run[q]
    BY <2>1 DEF ProcessesTyped
  <2>3. /\ pc' = [pc EXCEPT ![r] = IF c.verb = "create" THEN "agents" ELSE "load"]
        /\ pc'[r] = IF c.verb = "create" THEN "agents" ELSE "load"
    BY <2>1 DEF ProcessesTyped, Goto
  <2>4. Runs(r)' /\ HasItsKey(r)'
    <3>1. run'[r] = c /\ c.registry = r
      BY <2>1, <2>2
    <3>2. CASE c.verb = "create"
      <4>1. pc'[r] = "agents"
        BY <2>3, <3>2
      <4>2. QED
        BY <3>1, <3>2, <4>1 DEF Runs, HasItsKey, HasKey
    <3>3. CASE c.verb # "create"
      <4>1. pc'[r] = "load"
        BY <2>3, <3>3
      <4>2. QED
        BY <3>1, <3>3, <4>1 DEF Runs, HasItsKey, HasKey
    <3>4. QED
      BY <3>2, <3>3
  <2>5. ProcessesTyped'
    BY <1>1, <2>2, <2>3, <2>4, MoveTypes DEF Begin, Place, ProcessesTyped
  <2>6. FilesTyped' /\ AnswersTyped'
    BY <1>1 DEF Begin, FilesTyped, AnswersTyped, keyVars, auditVars, Content
  <2>7. QED
    BY <2>5, <2>6
<1>2. ASSUME NEW r \in Registry, FindAgent(r) PROVE DirectoryTypes'
  <2>1. ProcessesTyped'
    BY <1>2, StepTypes DEF FindAgent, Goto, HasKey, Place, commandVars, ProcessesTyped
  <2>2. QED
    BY <1>2, <2>1 DEF FindAgent, FilesTyped, AnswersTyped, keyVars, auditVars, commandVars, bounds, Content
<1>3. ASSUME NEW r \in Registry, VerifyPIN(r) PROVE DirectoryTypes'
  <2>1. ProcessesTyped'
    BY <1>3, StepTypes DEF VerifyPIN, Goto, HasKey, Place, commandVars, ProcessesTyped
  <2>2. QED
    BY <1>3, <2>1 DEF VerifyPIN, FilesTyped, AnswersTyped, keyVars, auditVars, commandVars, bounds, Content
<1>4. ASSUME NEW r \in Registry, Load(r) PROVE DirectoryTypes'
  <2>1. Result(run[r], Decoded(file[r])) \in SUBSET Entries(r)
    BY <1>4, ResultTypes DEF Load, Goto, Loads, Decoded, ProcessesTyped, FilesTyped, Runs, Content
  <2>2. ProcessesTyped'
    BY <1>4, StepTypes DEF Load, Goto, HasKey, HasItsKey, Place, ProcessesTyped
  <2>3. QED
    BY <1>4, <2>1, <2>2 DEF Load, FilesTyped, AnswersTyped, keyVars, auditVars, bounds, Content
<1>5. ASSUME NEW r \in Registry, Open(r) PROVE DirectoryTypes'
  <2>1. ProcessesTyped'
    BY <1>5, StepTypes DEF Open, Goto, HasKey, HasItsKey, Place, commandVars, ProcessesTyped
  <2>2. QED
    BY <1>5, <2>1 DEF Open, FilesTyped, AnswersTyped, keyVars, auditVars, commandVars, bounds, Content
<1>6. ASSUME NEW r \in Registry, Write(r) PROVE DirectoryTypes'
  <2>1. ProcessesTyped'
    BY <1>6, StepTypes DEF Write, Goto, HasKey, HasItsKey, Place, commandVars, ProcessesTyped
  <2>2. QED
    BY <1>6, <2>1 DEF Write, FilesTyped, AnswersTyped, keyVars, auditVars, commandVars, bounds, Content
<1>7. ASSUME NEW r \in Registry, Rename(r) PROVE DirectoryTypes'
  <2>1. ProcessesTyped'
    BY <1>7, StepTypes DEF Rename, AfterSave, Goto, HasKey, HasItsKey, Place, commandVars, ProcessesTyped
  <2>2. QED
    BY <1>7, <2>1 DEF Rename, FilesTyped, AnswersTyped, keyVars, auditVars, commandVars, bounds, Content
<1>8. ASSUME NEW r \in Registry, AuditCommand(r) PROVE DirectoryTypes'
  <2>1. ProcessesTyped'
    BY <1>8, StepTypes DEF AuditCommand, Goto, HasKey, HasItsKey, Place, commandVars, ProcessesTyped
  <2>2. audit' \in Seq(Event \cup {Torn})
    BY <1>8, AuditTypes DEF AuditCommand, Goto
  <2>3. QED
    BY <1>8, <2>1, <2>2 DEF AuditCommand, FilesTyped, AnswersTyped, keyVars, commandVars, bounds, Content
<1>9. ASSUME NEW p \in KeyUser, UseKey(p) PROVE DirectoryTypes'
  <2>1. /\ held' \in [KeyUser -> Key \cup {NoKey}] /\ held'[p] \in Key
        /\ \A q \in KeyUser \ {p} : held'[q] = held[q]
    BY <1>9 DEF UseKey, ProcessesTyped
  <2>2. pc' = [pc EXCEPT ![p] = AfterKey(p)] /\ pc'[p] = AfterKey(p) /\ pc[p] = "key" /\ run' = run
    BY <1>9 DEF UseKey, Goto, ProcessesTyped, commandVars
  <2>3. (p \in Registry => Runs(p)') /\ HasItsKey(p)'
    BY <2>1, <2>2 DEF Runs, HasItsKey, ProcessesTyped, AfterKey
  <2>4. ProcessesTyped'
    BY <2>1, <2>2, <2>3, MoveTypes DEF AfterKey, Place, ProcessesTyped
  <2>5. QED
    BY <1>9, <2>4 DEF UseKey, FilesTyped, AnswersTyped, keyVars, auditVars, commandVars, bounds, Content
<1>10. ASSUME NEW p \in KeyUser, MissKey(p) PROVE DirectoryTypes'
  <2>1. ProcessesTyped'
    BY <1>10, StepTypes DEF MissKey, Goto, HasKey, Place, commandVars, ProcessesTyped
  <2>2. QED
    BY <1>10, <2>1 DEF MissKey, FilesTyped, AnswersTyped, auditVars, commandVars, bounds, Content
<1>11. ASSUME NEW p \in KeyUser, GenerateKey(p) PROVE DirectoryTypes'
  <2>1. /\ held' \in [KeyUser -> Key \cup {NoKey}] /\ held'[p] \in Key
        /\ \A q \in KeyUser \ {p} : held'[q] = held[q]
        /\ drawn' \subseteq Key
    BY <1>11 DEF GenerateKey, ProcessesTyped, FilesTyped
  <2>2. pc' = [pc EXCEPT ![p] = "write key"] /\ pc'[p] = "write key" /\ pc[p] = "generate" /\ run' = run
    BY <1>11 DEF GenerateKey, Goto, ProcessesTyped, commandVars
  <2>3. (p \in Registry => Runs(p)') /\ HasItsKey(p)'
    BY <2>1, <2>2 DEF Runs, HasItsKey, HasKey, ProcessesTyped
  <2>4. ProcessesTyped'
    BY <2>1, <2>2, <2>3, MoveTypes DEF Place, ProcessesTyped
  <2>5. QED
    BY <1>11, <2>1, <2>4 DEF GenerateKey, FilesTyped, AnswersTyped, auditVars, commandVars, bounds, Content
<1>12. ASSUME NEW p \in KeyUser, WriteKey(p) PROVE DirectoryTypes'
  <2>1. held[p] \in Key
    BY <1>12 DEF WriteKey, Goto, ProcessesTyped, HasItsKey
  <2>2. ProcessesTyped'
    BY <1>12, <2>1, StepTypes DEF WriteKey, Goto, AfterKey, Place, commandVars, ProcessesTyped
  <2>3. QED
    BY <1>12, <2>1, <2>2 DEF WriteKey, FilesTyped, AnswersTyped, auditVars, commandVars, bounds, Content
<1>13. CASE StartServer
  <2>1. pc' = [pc EXCEPT ![Server] = "key"] /\ pc'[Server] = "key" /\ UNCHANGED <<run, held>>
    BY <1>13 DEF StartServer, Goto, ProcessesTyped, commandVars
  <2>2. HasItsKey(Server)'
    BY <2>1 DEF HasItsKey, HasKey
  <2>3. ProcessesTyped'
    BY <2>1, <2>2, MoveTypes DEF Place, ProcessesTyped
  <2>4. QED
    BY <1>13, <2>3 DEF StartServer, FilesTyped, AnswersTyped, keyVars, auditVars, commandVars, bounds, Content
<1>14. CASE LoadRegistries
  <2>1. ProcessesTyped'
    BY <1>14, StepTypes DEF LoadRegistries, Goto, HasKey, HasItsKey, Place, commandVars, ProcessesTyped
  <2>2. QED
    BY <1>14, <2>1 DEF LoadRegistries, FilesTyped, AnswersTyped, keyVars, auditVars, commandVars, bounds, Content
<1>15. CASE AuditRequest
  <2>1. audit' \in Seq(Event \cup {Torn})
    BY <1>15, AuditTypes DEF AuditRequest
  <2>2. QED
    BY <1>15, <2>1 DEF AuditRequest, FilesTyped, AnswersTyped, ProcessesTyped, Runs, HasItsKey, HasKey,
                       keyVars, commandVars, bounds, Content
<1>16. CASE UNCHANGED vars
  BY <1>16 DEF vars, FilesTyped, AnswersTyped, ProcessesTyped, Runs, HasItsKey, HasKey,
               keyVars, auditVars, commandVars, bounds, Content
<1>17. ASSUME NEW r \in Registry, Refuse(r) PROVE DirectoryTypes'
  BY <1>17, ExitTypes DEF Refuse, AnswersTyped, auditVars, bounds
<1>18. ASSUME NEW r \in Registry, SystemError(r) PROVE DirectoryTypes'
  BY <1>18, ExitTypes DEF SystemError, AnswersTyped, auditVars, bounds
<1>19. ASSUME NEW r \in Registry, Succeed(r) PROVE DirectoryTypes'
  <2>1. run[r].verb = "create" => run[r].id \in DelegationID /\ held[r] \in Key
    <3>1. run[r] \in Command /\ run[r].registry = r /\ pc[r] = "answer"
      BY <1>19 DEF Succeed, ProcessesTyped, Runs
    <3>2. run[r].verb = "create" => r \in KeyUser /\ run[r].id \in DelegationID
      BY <3>1, CommandKinds
    <3>3. QED
      BY <3>1, <3>2 DEF ProcessesTyped, HasItsKey, HasKey
  <2>2. \A t \in tokens' : t.id \in DelegationID /\ t.key \in Key
    BY <1>19, <2>1 DEF Succeed, AnswersTyped
  <2>3. QED
    BY <1>19, <2>2, ExitTypes DEF Succeed, AnswersTyped, auditVars, bounds
<1>20. ASSUME NEW r \in Registry, UnknownFormat(r) PROVE DirectoryTypes'
  BY <1>20, ExitTypes DEF UnknownFormat, AnswersTyped, auditVars, bounds
<1>21. ASSUME NEW p \in KeyUser, KeyFails(p) PROVE DirectoryTypes'
  BY <1>21, ExitTypes DEF KeyFails, AnswersTyped, auditVars, bounds
<1>22. CASE StartFails
  BY <1>22, ExitTypes DEF StartFails, AnswersTyped, auditVars, bounds
<1>23. ASSUME NEW p \in Process, Kill(p) PROVE DirectoryTypes'
  BY <1>23, ExitTypes DEF Kill, AnswersTyped, auditVars, bounds
<1>. QED
  BY <1>1, <1>2, <1>3, <1>4, <1>5, <1>6, <1>7, <1>8, <1>9, <1>10, <1>11, <1>12, <1>13, <1>14, <1>15,
     <1>16, <1>17, <1>18, <1>19, <1>20, <1>21, <1>22, <1>23 DEF Next

\* Types, and the process of the server has the key it signs with
\* (LoadOrCreateRSAKey, Load and Save of the registries).
THEOREM Types == Spec => []TypeOK
<1>1. Spec => []DirectoryTypes
  BY DirectoryTypesInit, DirectoryTypesStep, PTL DEF Spec
<1>. QED
  BY <1>1, TypesAreTyped, PTL

(***************************************************************************)
(* A registry changes by the rename of what a command made of it.  Nobody  *)
(* but the process of the registry touches the file and its temporary      *)
(* file, so what it loaded is still there when it renames.                 *)
(***************************************************************************)
SavesResult(r) ==
  /\ file[r] # Partial
  /\ pc[r] \in {"open", "write", "rename"} =>
       Accepts(run[r], Decoded(file[r])) /\ mem[r] = Result(run[r], Decoded(file[r]))
  /\ pc[r] = "rename" => tmp[r] = mem[r]

Keeps(r) == /\ pc'[r] = pc[r] /\ run'[r] = run[r] /\ mem'[r] = mem[r]
            /\ file'[r] = file[r] /\ tmp'[r] = tmp[r]

\* The process of a registry stays where it is, saves, or is not saving.
LEMMA OwnProcess ==
  ASSUME DirectoryTypes, [Next]_vars, NEW r \in Registry
  PROVE  \/ Keeps(r)
         \/ Load(r) \/ Open(r) \/ Write(r) \/ Rename(r)
         \/ pc'[r] \notin {"open", "write", "rename", "audit"} /\ file'[r] = file[r]
<1>. DEFINE Other == pc'[r] \notin {"open", "write", "rename", "audit"} /\ file'[r] = file[r]
<1>. SUFFICES Keeps(r) \/ Load(r) \/ Open(r) \/ Write(r) \/ Rename(r) \/ Other
  OBVIOUS
<1>. USE KeyUsers DEF DirectoryTypes, ProcessesTyped, FilesTyped, Keeps
<1>1. ASSUME NEW q \in Registry, Begin(q) PROVE Keeps(r) \/ Other
  <2>1. CASE q = r
    <3>1. PICK c \in Command : Goto(r, "idle", IF c.verb = "create" THEN "agents" ELSE "load")
      BY <1>1, <2>1 DEF Begin
    <3>2. pc'[r] = IF c.verb = "create" THEN "agents" ELSE "load"
      BY <3>1 DEF Goto
    <3>3. QED
      BY <1>1, <3>2 DEF Begin
  <2>2. CASE q # r
    BY <1>1, <2>2 DEF Begin, Goto
  <2>3. QED
    BY <2>1, <2>2
<1>2. ASSUME NEW q \in Registry, FindAgent(q) PROVE Keeps(r) \/ Other
  BY <1>2 DEF FindAgent, Goto, commandVars
<1>3. ASSUME NEW q \in Registry, VerifyPIN(q) PROVE Keeps(r) \/ Other
  BY <1>3 DEF VerifyPIN, Goto, commandVars
<1>4. ASSUME NEW q \in Registry, Load(q) PROVE Keeps(r) \/ Load(r)
  BY <1>4 DEF Load, Goto
<1>5. ASSUME NEW q \in Registry, Open(q) PROVE Keeps(r) \/ Open(r)
  BY <1>5 DEF Open, Goto, commandVars
<1>6. ASSUME NEW q \in Registry, Write(q) PROVE Keeps(r) \/ Write(r)
  BY <1>6 DEF Write, Goto, commandVars
<1>7. ASSUME NEW q \in Registry, Rename(q) PROVE Keeps(r) \/ Rename(r)
  BY <1>7 DEF Rename, Goto, commandVars
<1>8. ASSUME NEW q \in Registry, AuditCommand(q) PROVE Keeps(r) \/ Other
  BY <1>8 DEF AuditCommand, Goto, commandVars
<1>9. ASSUME NEW q \in KeyUser, UseKey(q) \/ MissKey(q) \/ GenerateKey(q) \/ WriteKey(q) PROVE Keeps(r) \/ Other
  BY <1>9 DEF UseKey, MissKey, GenerateKey, WriteKey, AfterKey, Goto, commandVars
<1>10. CASE StartServer \/ LoadRegistries \/ AuditRequest
  BY <1>10 DEF StartServer, LoadRegistries, AuditRequest, Goto, commandVars
<1>11. ASSUME NEW q \in Process, NEW a, Exit(q, a), UNCHANGED <<file, tmp>> PROVE Keeps(r) \/ Other
  BY <1>11 DEF Exit
<1>12. CASE UNCHANGED vars
  BY <1>12 DEF vars, commandVars
<1>13. ASSUME NEW q \in Registry, Refuse(q) \/ SystemError(q) \/ Succeed(q) \/ UnknownFormat(q)
       PROVE  Keeps(r) \/ Other
  BY <1>11, <1>13 DEF Refuse, SystemError, Succeed, UnknownFormat
<1>14. ASSUME NEW q \in Process, KeyFails(q) \/ StartFails \/ Kill(q) PROVE Keeps(r) \/ Other
  BY <1>11, <1>14 DEF KeyFails, StartFails, Kill
<1>. QED
  BY <1>1, <1>2, <1>3, <1>4, <1>5, <1>6, <1>7, <1>8, <1>9, <1>10, <1>12, <1>13, <1>14 DEF Next

LEMMA ContentIsNoEntries ==
  ASSUME NEW r \in Registry, NEW es \in SUBSET Entries(r)
  PROVE  es # NoFile /\ es # Partial /\ Decoded(es) = es
BY DirectoryAssumption DEF Decoded

LEMMA SavesResultInit == Init => \A r \in Registry : SavesResult(r)
BY DirectoryAssumption, KeyUsers DEF Init, SavesResult

LEMMA SavesResultStep ==
  ASSUME DirectoryTypes, [Next]_vars, NEW r \in Registry, SavesResult(r)
  PROVE  SavesResult(r)'
<1>1. CASE Keeps(r)
  BY <1>1 DEF Keeps, SavesResult, Decoded
<1>2. CASE Load(r)
  BY <1>2 DEF Load, Goto, SavesResult, Decoded, DirectoryTypes, FilesTyped, ProcessesTyped
<1>3. CASE Open(r)
  BY <1>3 DEF Open, Goto, SavesResult, Decoded, DirectoryTypes, FilesTyped, ProcessesTyped, commandVars
<1>4. CASE Write(r)
  BY <1>4 DEF Write, Goto, SavesResult, Decoded, DirectoryTypes, FilesTyped, ProcessesTyped, commandVars
<1>5. CASE Rename(r)
  <2>1. file'[r] = mem[r] /\ pc'[r] = AfterSave(r)
    BY <1>5, KeyUsers DEF Rename, Goto, SavesResult, DirectoryTypes, FilesTyped, ProcessesTyped
  <2>2. file'[r] # Partial
    BY <2>1, ContentIsNoEntries DEF DirectoryTypes, FilesTyped
  <2>3. QED
    BY <2>1, <2>2 DEF AfterSave, SavesResult
<1>6. CASE pc'[r] \notin {"open", "write", "rename", "audit"} /\ file'[r] = file[r]
  BY <1>6 DEF SavesResult
<1>. QED
  BY <1>1, <1>2, <1>3, <1>4, <1>5, <1>6, OwnProcess

(***************************************************************************)
(* The log                                                                 *)
(***************************************************************************)
Delegations == Decoded(file["delegations"])

Recorded(entries, kind, id) ==
  LET saved == {r \in entries : r.id = id}
  IN  CASE kind = "create"  -> saved # {}
        [] kind = "revoke"  -> \E r \in saved : r.revoked
        [] kind = "request" -> TRUE

\* The process that will append an event has saved what the event tells.
AuditInv ==
  /\ \A i \in DOMAIN audit : audit[i] # Torn => Recorded(Delegations, audit[i].kind, audit[i].id)
  /\ pc["delegations"] = "audit" => Recorded(Delegations, run["delegations"].verb, run["delegations"].id)

\* A delegation stays in the file, and stays revoked.
LEMMA ResultKeeps ==
  ASSUME NEW c \in Command, c.registry = "delegations", NEW es \in SUBSET Entries("delegations"),
         NEW r \in es
  PROVE  \E s \in Result(c, es) : s.id = r.id /\ (r.revoked => s.revoked)
<1>1. r \in [id : DelegationID, agent : Name, revoked : BOOLEAN]
  BY DEF Entries
<1>2. CASE c.verb = "create"
  BY <1>2 DEF Result
<1>3. CASE c.verb = "revoke"
  <2>1. Result(c, es) = {IF s.id = c.id THEN [s EXCEPT !.revoked = TRUE] ELSE s : s \in es}
    BY <1>3 DEF Result
  <2>2. CASE r.id = c.id
    <3>1. [r EXCEPT !.revoked = TRUE] \in Result(c, es)
      BY <2>1, <2>2
    <3>2. [r EXCEPT !.revoked = TRUE].id = r.id /\ [r EXCEPT !.revoked = TRUE].revoked
      BY <1>1
    <3>3. QED
      BY <3>1, <3>2
  <2>3. CASE r.id # c.id
    BY <2>1, <2>3
  <2>4. QED
    BY <2>2, <2>3
<1>. QED
  BY <1>2, <1>3, CommandKinds

\* What the event of a command tells is in what the command saves.
LEMMA ResultRecords ==
  ASSUME NEW c \in Command, c.registry = "delegations", NEW es \in SUBSET Entries("delegations"),
         Accepts(c, es)
  PROVE  /\ c.verb = "create" => \E s \in Result(c, es) : s.id = c.id
         /\ c.verb = "revoke" => \E s \in Result(c, es) : s.id = c.id /\ s.revoked
<1>1. CASE c.verb = "create"
  <2>1. [id |-> c.id, agent |-> c.agent, revoked |-> FALSE] \in Result(c, es)
    BY <1>1 DEF Result
  <2>2. QED
    BY <1>1, <2>1
<1>2. CASE c.verb = "revoke"
  <2>1. PICK r \in es : r.id = c.id
    BY <1>2 DEF Accepts
  <2>2. r \in [id : DelegationID, agent : Name, revoked : BOOLEAN]
    BY DEF Entries
  <2>3. [r EXCEPT !.revoked = TRUE] \in Result(c, es)
    BY <1>2, <2>1 DEF Result
  <2>4. [r EXCEPT !.revoked = TRUE].id = c.id /\ [r EXCEPT !.revoked = TRUE].revoked
    BY <2>1, <2>2
  <2>5. QED
    BY <1>2, <2>3, <2>4
<1>. QED
  BY <1>1, <1>2, CommandKinds

LEMMA RenameSavesResult ==
  ASSUME DirectoryTypes, NEW r \in Registry, SavesResult(r), Rename(r)
  PROVE  /\ run[r] \in Command /\ run[r].registry = r
         /\ Decoded(file[r]) \in SUBSET Entries(r)
         /\ Accepts(run[r], Decoded(file[r]))
         /\ file' = [file EXCEPT ![r] = Result(run[r], Decoded(file[r]))]
         /\ Decoded(file'[r]) = Result(run[r], Decoded(file[r]))
         /\ pc'[r] = AfterSave(r) /\ run' = run
<1>1. /\ pc[r] = "rename" /\ pc'[r] = AfterSave(r) /\ run' = run
      /\ file' = [file EXCEPT ![r] = tmp[r]]
  BY KeyUsers DEF Rename, Goto, commandVars, DirectoryTypes, ProcessesTyped
<1>2. tmp[r] = mem[r] /\ mem[r] = Result(run[r], Decoded(file[r])) /\ Accepts(run[r], Decoded(file[r]))
  BY <1>1 DEF SavesResult
<1>3. run[r] \in Command /\ run[r].registry = r
  BY <1>1 DEF DirectoryTypes, ProcessesTyped, Runs
<1>4. Decoded(file[r]) \in SUBSET Entries(r)
  BY DEF DirectoryTypes, FilesTyped, SavesResult, Content, Decoded
<1>5. file'[r] = mem[r] /\ Decoded(mem[r]) = mem[r]
  BY <1>1, <1>2, ContentIsNoEntries DEF DirectoryTypes, FilesTyped
<1>. QED
  BY <1>1, <1>2, <1>3, <1>4, <1>5

LEMMA RecordStays ==
  ASSUME DirectoryTypes, [Next]_vars, SavesResult("delegations"),
         NEW kind \in {"create", "revoke", "request"}, NEW id, Recorded(Delegations, kind, id)
  PROVE  Recorded(Delegations', kind, id)
<1>1. CASE file'["delegations"] = file["delegations"]
  BY <1>1 DEF Delegations, Decoded
<1>2. CASE Rename("delegations")
  <2>1. /\ run["delegations"] \in Command /\ run["delegations"].registry = "delegations"
        /\ Delegations \in SUBSET Entries("delegations")
        /\ Delegations' = Result(run["delegations"], Delegations)
    BY <1>2, RenameSavesResult, KeyUsers DEF Delegations, Decoded
  <2>2. ASSUME NEW r \in Delegations
        PROVE  \E s \in Delegations' : s.id = r.id /\ (r.revoked => s.revoked)
    BY <2>1, ResultKeeps
  <2>3. QED
    BY <2>2 DEF Recorded
<1>3. file'["delegations"] = file["delegations"] \/ Rename("delegations")
  BY OwnProcess, KeyUsers DEF Keeps, Load, Open, Write, commandVars
<1>. QED
  BY <1>1, <1>2, <1>3

\* Who comes to the append has just renamed.
LEMMA RecordedWhenSaved ==
  ASSUME DirectoryTypes, SavesResult("delegations"), Rename("delegations")
  PROVE  Recorded(Delegations', run["delegations"].verb, run["delegations"].id) /\ run' = run
<1>. DEFINE c == run["delegations"]
            es == Delegations
<1>1. /\ c \in Command /\ c.registry = "delegations" /\ es \in SUBSET Entries("delegations")
      /\ Accepts(c, es) /\ Delegations' = Result(c, es) /\ run' = run
  BY RenameSavesResult, KeyUsers DEF Delegations, Decoded
<1>2. c.verb \in {"create", "revoke"}
  BY <1>1, CommandKinds
<1>3. /\ c.verb = "create" => \E s \in Delegations' : s.id = c.id
      /\ c.verb = "revoke" => \E s \in Delegations' : s.id = c.id /\ s.revoked
  BY <1>1, ResultRecords
<1>. SUFFICES Recorded(Delegations', c.verb, c.id)
  BY <1>1
<1>. HIDE DEF c, es
<1>5. CASE c.verb = "create"
  BY <1>3, <1>5 DEF Recorded
<1>6. CASE c.verb = "revoke"
  BY <1>3, <1>6 DEF Recorded
<1>. QED
  BY <1>2, <1>5, <1>6

LEMMA AuditInit == Init => AuditInv
BY KeyUsers DEF Init, AuditInv

LEMMA AppendedEvents ==
  ASSUME DirectoryTypes, NEW kind, NEW id, AppendEvent(kind, id) \/ AppendFails,
         NEW i \in DOMAIN audit', audit'[i] # Torn
  PROVE  \/ i \in DOMAIN audit /\ audit'[i] = audit[i]
         \/ audit'[i].kind = kind /\ audit'[i].id = id
<1>1. audit \in Seq(Event \cup {Torn})
  BY DEF DirectoryTypes, FilesTyped
<1>2. CASE audit' = audit
  BY <1>2
<1>3. ASSUME NEW e, audit' = Append(audit, e)
      PROVE  audit'[i] = e \/ (i \in DOMAIN audit /\ audit'[i] = audit[i])
  BY <1>1, <1>3, AppendProperties
<1>4. CASE AppendFails
  BY <1>2, <1>3, <1>4 DEF AppendFails
<1>5. CASE AppendEvent(kind, id)
  <2>1. PICK long \in BOOLEAN : audit' = Append(audit, [kind |-> kind, id |-> id, long |-> long])
    BY <1>5 DEF AppendEvent
  <2>2. QED
    BY <1>3, <2>1
<1>. QED
  BY <1>4, <1>5

LEMMA AuditChanges ==
  ASSUME DirectoryTypes, [Next]_vars
  PROVE  UNCHANGED auditVars \/ AuditCommand("delegations") \/ AuditRequest
<1>. USE DEF auditVars
<1>1. ASSUME NEW r \in Registry, Begin(r) \/ FindAgent(r) \/ VerifyPIN(r) \/ Load(r) \/ Refuse(r)
       \/ Open(r) \/ Write(r) \/ Rename(r) \/ SystemError(r) \/ Succeed(r) \/ UnknownFormat(r)
      PROVE  UNCHANGED auditVars
  BY <1>1 DEF Begin, FindAgent, VerifyPIN, Load, Refuse, Open, Write, Rename, SystemError, Succeed, UnknownFormat
<1>2. ASSUME NEW p \in KeyUser, UseKey(p) \/ MissKey(p) \/ GenerateKey(p) \/ WriteKey(p) \/ KeyFails(p)
      PROVE  UNCHANGED auditVars
  BY <1>2 DEF UseKey, MissKey, GenerateKey, WriteKey, KeyFails
<1>3. ASSUME NEW p \in Process, StartServer \/ LoadRegistries \/ StartFails \/ Kill(p)
      PROVE  UNCHANGED auditVars
  BY <1>3 DEF StartServer, LoadRegistries, StartFails, Kill
<1>4. ASSUME NEW r \in Registry, AuditCommand(r) PROVE r = "delegations"
  BY <1>4 DEF AuditCommand, Goto, DirectoryTypes, ProcessesTyped, Runs
<1>5. CASE UNCHANGED vars
  BY <1>5 DEF vars
<1>. QED
  BY <1>1, <1>2, <1>3, <1>4, <1>5, KeyUsers DEF Next

LEMMA AuditStep ==
  ASSUME DirectoryTypes, [Next]_vars, SavesResult("delegations"), AuditInv
  PROVE  AuditInv'
<1>. DEFINE c == run["delegations"]
<1>1. ASSUME NEW i \in DOMAIN audit, audit[i] # Torn
      PROVE  Recorded(Delegations', audit[i].kind, audit[i].id)
  <2>1. audit[i].kind \in {"create", "revoke", "request"} /\ Recorded(Delegations, audit[i].kind, audit[i].id)
    BY <1>1 DEF AuditInv, DirectoryTypes, FilesTyped, Event
  <2>2. QED
    BY <2>1, RecordStays
<1>2. ASSUME pc["delegations"] = "audit" PROVE Recorded(Delegations', c.verb, c.id)
  <2>1. Recorded(Delegations, c.verb, c.id)
    BY <1>2 DEF AuditInv
  <2>2. c.verb \in {"create", "revoke"}
    BY <1>2, CommandKinds, KeyUsers DEF DirectoryTypes, ProcessesTyped, Runs
  <2>3. QED
    BY <2>1, <2>2, RecordStays
<1>3. ASSUME NEW i \in DOMAIN audit', audit'[i] # Torn
      PROVE  Recorded(Delegations', audit'[i].kind, audit'[i].id)
  <2>1. CASE UNCHANGED auditVars
    BY <1>1, <1>3, <2>1 DEF auditVars
  <2>2. CASE AuditRequest
    <3>1. PICK d \in DelegationID : AppendEvent("request", d) \/ AppendFails
      BY <2>2 DEF AuditRequest
    <3>2. CASE audit'[i].kind = "request"
      BY <3>2 DEF Recorded
    <3>3. QED
      BY <1>1, <1>3, <3>1, <3>2, AppendedEvents
  <2>3. CASE AuditCommand("delegations")
    <3>1. pc["delegations"] = "audit" /\ (AppendEvent(c.verb, c.id) \/ AppendFails)
      BY <2>3 DEF AuditCommand, Goto
    <3>2. \/ i \in DOMAIN audit /\ audit'[i] = audit[i]
          \/ audit'[i].kind = c.verb /\ audit'[i].id = c.id
      BY <1>3, <3>1, AppendedEvents
    <3>3. QED
      BY <1>1, <1>2, <1>3, <3>1, <3>2
  <2>4. QED
    BY <2>1, <2>2, <2>3, AuditChanges
<1>4. ASSUME pc'["delegations"] = "audit" PROVE Recorded(Delegations', c.verb, c.id) /\ run'["delegations"] = c
  <2>1. CASE Keeps("delegations")
    BY <1>2, <1>4, <2>1 DEF Keeps
  <2>2. CASE Load("delegations") \/ Open("delegations") \/ Write("delegations")
    BY <1>4, <2>2, KeyUsers DEF Load, Open, Write, Goto, DirectoryTypes, ProcessesTyped
  <2>3. CASE Rename("delegations")
    BY <2>3, RecordedWhenSaved
  <2>4. QED
    BY <1>4, <2>1, <2>2, <2>3, OwnProcess, KeyUsers
<1>. QED
  BY <1>3, <1>4 DEF AuditInv

\* What AuditList shows is what was logged, unless a line was torn.
NothingLost == (\A i \in DOMAIN audit : audit[i] # Torn) => logged = audit

LEMMA NothingLostInit == Init => NothingLost
BY DEF Init, NothingLost

LEMMA NothingLostStep ==
  ASSUME DirectoryTypes, [Next]_vars, NothingLost
  PROVE  NothingLost'
<1>1. audit \in Seq(Event \cup {Torn})
  BY DEF DirectoryTypes, FilesTyped
<1>2. CASE UNCHANGED auditVars
  BY <1>2 DEF auditVars, NothingLost
<1>3. ASSUME NEW e, audit' = Append(audit, e)
      PROVE  /\ \A i \in DOMAIN audit : i \in DOMAIN audit' /\ audit'[i] = audit[i]
             /\ Len(audit) + 1 \in DOMAIN audit' /\ audit'[Len(audit) + 1] = e
  BY <1>1, <1>3
<1>4. ASSUME NEW kind, NEW id, AppendEvent(kind, id) PROVE NothingLost'
  <2>1. PICK e : audit' = Append(audit, e) /\ logged' = Append(logged, e)
    BY <1>4 DEF AppendEvent
  <2>2. QED
    BY <1>3, <2>1 DEF NothingLost
<1>5. CASE AppendFails
  <2>1. CASE audit' = audit
    BY <1>5, <2>1 DEF AppendFails, NothingLost
  <2>2. CASE audit' = Append(audit, Torn)
    BY <1>3, <2>2 DEF NothingLost
  <2>3. QED
    BY <1>5, <2>1, <2>2 DEF AppendFails
<1>. QED
  BY <1>2, <1>4, <1>5, AuditChanges DEF AuditCommand, AuditRequest

LEMMA NothingLostShown == NothingLost => NoEventHidden
<1>. SUFFICES ASSUME NothingLost, AuditList # Failed PROVE AuditList = Last(logged)
  BY DEF NoEventHidden
<1>1. /\ Scanned = audit /\ \A i \in DOMAIN Scanned : Scanned[i] # Torn
      /\ AuditList = Last(Scanned)
  BY DEF AuditList
<1>. QED
  BY <1>1 DEF NothingLost

LEMMA AuditIsTrue == AuditInv => AuditTellsTruth
BY DEF AuditInv, AuditTellsTruth, Recorded, Delegations

\* The log does not say that a delegation was created or revoked which was
\* not (delegateCreate and delegateRevoke append when the save succeeded).
THEOREM LogIsTrue == Spec => []AuditTellsTruth
<1>1. Spec => []DirectoryTypes
  BY DirectoryTypesInit, DirectoryTypesStep, PTL DEF Spec
<1>2. Init => SavesResult("delegations") /\ AuditInv
  BY SavesResultInit, AuditInit, KeyUsers
<1>3. DirectoryTypes /\ [Next]_vars /\ SavesResult("delegations") /\ AuditInv
        => SavesResult("delegations")' /\ AuditInv'
  BY SavesResultStep, AuditStep, KeyUsers
<1>. QED
  BY <1>1, <1>2, <1>3, AuditIsTrue, PTL DEF Spec

\* An "audit list" that succeeds shows the newest of the events that were
\* appended, none left out (auditlog.Load).
THEOREM LogIsComplete == Spec => []NoEventHidden
<1>1. Spec => []DirectoryTypes
  BY DirectoryTypesInit, DirectoryTypesStep, PTL DEF Spec
<1>2. DirectoryTypes /\ [Next]_vars /\ NothingLost => NothingLost'
  BY NothingLostStep
<1>. QED
  BY <1>1, <1>2, NothingLostInit, NothingLostShown, PTL DEF Spec

(***************************************************************************)
(* The signing key.  While nobody has raced, one process at most makes a   *)
(* key, and nobody has one until it is written.                            *)
(***************************************************************************)
MakesKey(p) == pc[p] \in {"generate", "write key"}
Signs(p) == HasKey(p) /\ (p \in Registry => run[p].verb = "create")

OneKey ==
  ~raced =>
    /\ \A p, q \in KeyUser : MakesKey(p) /\ MakesKey(q) => p = q
    /\ \A p \in KeyUser :
         /\ pc[p] = "generate" => keyFile = NoFile
         /\ pc[p] = "write key" => keyFile = Partial
         /\ Signs(p) => held[p] = keyFile
    /\ \A t \in tokens : t.key = keyFile

LEMMA OneKeyInit == Init => OneKey
BY KeyUsers DEF Init, OneKey, MakesKey, Signs, HasKey

\* What a step does that is about no key.
SameKey(p) ==
  /\ MakesKey(p)' => pc'[p] = pc[p]
  /\ Signs(p)' => Signs(p) /\ held'[p] = held[p]

LEMMA SameKeys ==
  ASSUME DirectoryTypes, [Next]_vars,
         ~ \E p \in KeyUser : UseKey(p) \/ MissKey(p) \/ GenerateKey(p) \/ WriteKey(p)
  PROVE  /\ \A p \in KeyUser : SameKey(p)
         /\ UNCHANGED <<keyFile, raced>>
         /\ tokens' = tokens \/ \E r \in Registry : Succeed(r)
<1>. DEFINE Same == (\A p \in KeyUser : SameKey(p)) /\ UNCHANGED <<keyFile, raced>>
<1>. USE KeyUsers DEF DirectoryTypes, ProcessesTyped
<1>1. ASSUME NEW r \in Registry, Begin(r) PROVE Same /\ tokens' = tokens
  <2>1. PICK c \in Command :
          /\ Goto(r, "idle", IF c.verb = "create" THEN "agents" ELSE "load")
          /\ run' = [run EXCEPT ![r] = c]
    BY <1>1 DEF Begin
  <2>2. /\ run'[r] = c /\ pc'[r] = IF c.verb = "create" THEN "agents" ELSE "load"
        /\ \A q \in Process \ {r} : pc'[q] = pc[q]
        /\ \A q \in Registry \ {r} : run'[q] = run[q]
    BY <2>1 DEF Goto
  <2>3. SameKey(r)
    BY <2>2 DEF SameKey, MakesKey, Signs, HasKey
  <2>4. ASSUME NEW q \in KeyUser \ {r} PROVE SameKey(q)
    BY <1>1, <2>2 DEF Begin, SameKey, MakesKey, Signs, HasKey
  <2>5. QED
    BY <1>1, <2>3, <2>4 DEF Begin, keyVars
<1>2. ASSUME NEW r \in Registry, FindAgent(r) \/ VerifyPIN(r) PROVE Same /\ tokens' = tokens
  BY <1>2 DEF FindAgent, VerifyPIN, Goto, SameKey, MakesKey, Signs, HasKey, keyVars, commandVars
<1>3. ASSUME NEW r \in Registry, Load(r) \/ Open(r) \/ Write(r) \/ Rename(r) \/ AuditCommand(r)
      PROVE  Same /\ tokens' = tokens
  <2>1. \E a \in {"open", "write", "rename", "audit", "answer"} : pc' = [pc EXCEPT ![r] = a]
    BY <1>3 DEF Load, Open, Write, Rename, AuditCommand, AfterSave, Goto
  <2>2. HasKey(r) /\ UNCHANGED <<run, held, keyFile, raced, tokens>>
    BY <1>3 DEF Load, Open, Write, Rename, AuditCommand, Goto, HasKey, keyVars, commandVars
  <2>3. \A p \in KeyUser : SameKey(p)
    BY <2>1, <2>2 DEF SameKey, MakesKey, Signs, HasKey
  <2>4. QED
    BY <2>2, <2>3
<1>4. CASE StartServer \/ LoadRegistries
  BY <1>4 DEF StartServer, LoadRegistries, Goto, SameKey, MakesKey, Signs, HasKey, keyVars, commandVars
<1>5. CASE AuditRequest \/ UNCHANGED vars
  BY <1>5 DEF AuditRequest, vars, SameKey, MakesKey, Signs, HasKey, keyVars, commandVars
<1>6. ASSUME NEW q \in Process, NEW a, Exit(q, a), UNCHANGED keyVars PROVE Same
  <2>1. pc'[q] = "idle" /\ \A x \in Process \ {q} : pc'[x] = pc[x]
    BY <1>6 DEF Exit
  <2>2. /\ \A x \in Registry \ {q} : run'[x] = run[x]
        /\ \A x \in KeyUser \ {q} : held'[x] = held[x]
    BY <1>6 DEF Exit
  <2>3. \A p \in KeyUser : SameKey(p)
    BY <2>1, <2>2 DEF SameKey, MakesKey, Signs, HasKey
  <2>4. QED
    BY <1>6, <2>3 DEF keyVars
<1>7. ASSUME NEW r \in Registry, Refuse(r) \/ SystemError(r) \/ UnknownFormat(r) PROVE Same /\ tokens' = tokens
  BY <1>6, <1>7 DEF Refuse, SystemError, UnknownFormat
<1>8. ASSUME NEW r \in Registry, Succeed(r) PROVE Same
  BY <1>6, <1>8 DEF Succeed
<1>9. ASSUME NEW p \in Process, KeyFails(p) \/ StartFails \/ Kill(p) PROVE Same /\ tokens' = tokens
  BY <1>6, <1>9 DEF KeyFails, StartFails, Kill
<1>. QED
  BY <1>1, <1>2, <1>3, <1>4, <1>5, <1>7, <1>8, <1>9 DEF Next

LEMMA OneKeyStep ==
  ASSUME DirectoryTypes, [Next]_vars, OneKey
  PROVE  OneKey'
<1>. SUFFICES ASSUME ~raced' PROVE OneKey'
  BY DEF OneKey
<1>. USE KeyUsers DEF DirectoryTypes, ProcessesTyped
\* Another process stays as it is when one of the two handles the key.
<1>1. ASSUME NEW p \in KeyUser, UseKey(p) \/ MissKey(p) \/ GenerateKey(p) \/ WriteKey(p)
      PROVE  /\ \A q \in KeyUser \ {p} : pc'[q] = pc[q] /\ held'[q] = held[q]
             /\ run' = run /\ tokens' = tokens
  BY <1>1 DEF UseKey, MissKey, GenerateKey, WriteKey, Goto, commandVars
<1>2. ASSUME NEW q \in KeyUser, Signs(q), ~raced PROVE held[q] = keyFile /\ keyFile \in Key
  BY <1>2 DEF OneKey, HasItsKey, Signs
<1>3. ASSUME NEW t \in tokens, ~raced PROVE t.key = keyFile /\ keyFile \in Key
  BY <1>3 DEF OneKey, AnswersTyped
<1>4. keyFile \in Key => keyFile # NoFile /\ keyFile # Partial
  BY DirectoryAssumption
<1>5. ASSUME NEW p \in KeyUser, UseKey(p) PROVE OneKey'
  <2>1. /\ pc'[p] \in {"registries", "load"} /\ held'[p] = keyFile /\ keyFile \in Key
        /\ UNCHANGED <<keyFile, raced>>
    BY <1>5 DEF UseKey, AfterKey, Goto, keyVars
  <2>2. QED
    BY <1>1, <1>4, <1>5, <2>1 DEF OneKey, MakesKey, Signs, HasKey
<1>6. ASSUME NEW p \in KeyUser, MissKey(p) PROVE OneKey'
  <2>1. /\ pc'[p] = "generate" /\ held' = held /\ UNCHANGED keyFile
        /\ ~raced /\ keyFile = NoFile /\ \A q \in KeyUser : pc[q] # "generate"
    BY <1>6 DEF MissKey, Goto
  <2>2. \A q \in KeyUser : ~ MakesKey(q)
    BY <2>1, DirectoryAssumption DEF OneKey, MakesKey
  <2>3. QED
    BY <1>1, <1>6, <2>1, <2>2 DEF OneKey, MakesKey, Signs, HasKey
<1>7. ASSUME NEW p \in KeyUser, GenerateKey(p) PROVE OneKey'
  <2>1. pc[p] = "generate" /\ pc'[p] = "write key" /\ keyFile' = Partial /\ ~raced
    BY <1>7 DEF GenerateKey, Goto
  <2>2. keyFile = NoFile /\ \A q \in KeyUser : MakesKey(q) => q = p
    BY <2>1 DEF OneKey, MakesKey
  <2>3. (\A q \in KeyUser : ~ Signs(q)) /\ tokens = {}
    BY <1>2, <1>3, <1>4, <2>1, <2>2
  <2>4. \A q \in KeyUser : ~ Signs(q)' /\ (MakesKey(q)' => q = p)
    BY <1>1, <1>7, <2>1, <2>2, <2>3 DEF Signs, HasKey, MakesKey
  <2>5. QED
    BY <1>1, <1>7, <2>1, <2>3, <2>4 DEF OneKey, MakesKey
<1>8. ASSUME NEW p \in KeyUser, WriteKey(p) PROVE OneKey'
  <2>1. /\ pc[p] = "write key" /\ pc'[p] \in {"registries", "load"}
        /\ keyFile' = held[p] /\ held' = held /\ ~raced
    BY <1>8 DEF WriteKey, AfterKey, Goto
  <2>2. keyFile = Partial /\ \A q \in KeyUser : MakesKey(q) => q = p
    BY <2>1 DEF OneKey, MakesKey
  <2>3. (\A q \in KeyUser : ~ Signs(q)) /\ tokens = {}
    BY <1>2, <1>3, <1>4, <2>1, <2>2
  <2>4. \A q \in KeyUser : ~ MakesKey(q)' /\ (Signs(q)' => q = p)
    BY <1>1, <1>8, <2>1, <2>2, <2>3 DEF Signs, HasKey, MakesKey
  <2>5. QED
    BY <1>1, <1>8, <2>1, <2>3, <2>4 DEF OneKey, MakesKey
<1>9. CASE ~ \E p \in KeyUser : UseKey(p) \/ MissKey(p) \/ GenerateKey(p) \/ WriteKey(p)
  <2>1. (\A p \in KeyUser : SameKey(p)) /\ keyFile' = keyFile /\ ~raced
    BY <1>9, SameKeys
  <2>2. \A t \in tokens' : t.key = keyFile
    <3>1. CASE tokens' = tokens
      BY <1>3, <2>1, <3>1
    <3>2. ASSUME NEW r \in Registry, Succeed(r) PROVE \A t \in tokens' : t.key = keyFile
      <4>1. CASE run[r].verb = "create"
        <5>1. pc[r] = "answer" /\ run[r] \in Command /\ run[r].registry = r
          BY <3>2 DEF Succeed, Runs
        <5>2. r = "delegations" /\ Signs(r)
          BY <4>1, <5>1, CommandKinds DEF Signs, HasKey
        <5>3. held[r] = keyFile
          BY <1>2, <2>1, <5>2
        <5>4. tokens' = tokens \cup {[id |-> run[r].id, key |-> held[r]]}
          BY <3>2, <4>1 DEF Succeed
        <5>5. QED
          BY <1>3, <2>1, <5>3, <5>4
      <4>2. CASE run[r].verb # "create"
        BY <1>3, <2>1, <3>2, <4>2 DEF Succeed
      <4>3. QED
        BY <4>1, <4>2
    <3>3. QED
      BY <1>9, <3>1, <3>2, SameKeys
  <2>3. QED
    BY <2>1, <2>2 DEF OneKey, SameKey, MakesKey
<1>. QED
  BY <1>5, <1>6, <1>7, <1>8, <1>9

LEMMA OneKeyAgrees == OneKey => KeysAgree
BY KeyUsers DEF OneKey, KeysAgree, Signs

\* Unless two processes were making the first key at the same time, the server
\* signs with the key of the file, and every token that was printed was
\* signed with it (LoadOrCreateRSAKey).
THEOREM KeysAgreeUnlessRaced == Spec => []KeysAgree
<1>1. Spec => []DirectoryTypes
  BY DirectoryTypesInit, DirectoryTypesStep, PTL DEF Spec
<1>2. DirectoryTypes /\ [Next]_vars /\ OneKey => OneKey'
  BY OneKeyStep
<1>. QED
  BY <1>1, <1>2, OneKeyInit, OneKeyAgrees, PTL DEF Spec

(***************************************************************************)
(* What a command answers is what it did                                   *)
(***************************************************************************)
StatusAt(place) ==
  IF place = "idle" THEN "idle" ELSE IF place \in {"audit", "answer"} THEN "applied" ELSE "running"

Directory == [r \in Registry |-> Decoded(file[r])]
Status == [r \in Registry |-> StatusAt(pc[r])]

LEMMA SameCommands ==
  /\ Promise!Registry = Registry /\ Promise!Command = Command
  /\ \A c, es : Promise!Result(c, es) = Result(c, es) /\ (Promise!Accepts(c, es) <=> Accepts(c, es))
<1>1. Promise!Registry = Registry
  BY DEF Promise!Registry, Registry
<1>2. Promise!Command = Command
  BY DEF Promise!Command, Promise!AddCommand, Promise!RemoveCommand, Promise!PINCommand, Promise!DelegateCommand,
         Command, AddCommand, RemoveCommand, PINCommand, DelegateCommand
<1>3. \A c, es : Promise!Result(c, es) = Result(c, es)
  BY DEF Promise!Result, Result, Promise!PIN, PIN
<1>4. \A c, es : Promise!Accepts(c, es) <=> Accepts(c, es)
  BY DEF Promise!Accepts, Accepts
<1>. QED
  BY <1>1, <1>2, <1>3, <1>4

\* The actions of CommandLine, in the words of this module.
LEMMA PromisedActions ==
  ASSUME NEW r \in Registry, NEW a
  PROVE  /\ Promise!Begin(r) <=>
              /\ Status[r] = "idle" /\ Status' = [Status EXCEPT ![r] = "running"]
              /\ \E c \in Command : c.registry = r /\ run' = [run EXCEPT ![r] = c]
              /\ Directory' = Directory /\ answer' = answer
         /\ Promise!Apply(r) <=>
              /\ Status[r] = "running" /\ Accepts(run[r], Directory[r])
              /\ Status' = [Status EXCEPT ![r] = "applied"]
              /\ Directory' = [Directory EXCEPT ![r] = Result(run[r], Directory[r])]
              /\ run' = run /\ answer' = answer
         /\ Promise!Finish(r, a) <=>
              /\ Status' = [Status EXCEPT ![r] = "idle"]
              /\ run' = [run EXCEPT ![r] = NoCommand]
              /\ answer' = a /\ Directory' = Directory
BY SameCommands DEF Promise!Begin, Promise!Apply, Promise!Finish, Status, StatusAt, Directory

LEMMA StatusMoves ==
  ASSUME DirectoryTypes, NEW p \in Process, NEW s, pc' = [pc EXCEPT ![p] = s]
  PROVE  Status' = IF p \in Registry THEN [Status EXCEPT ![p] = StatusAt(s)] ELSE Status
BY KeyUsers DEF DirectoryTypes, ProcessesTyped, Status

LEMMA ExitFinishes ==
  ASSUME DirectoryTypes, NEW p \in Process, NEW a, Exit(p, a), UNCHANGED file
  PROVE  /\ p \in Registry => Promise!Finish(p, a)
         /\ p = Server => UNCHANGED <<Directory, Status, run, answer>>
<1>1. Status' = IF p \in Registry THEN [Status EXCEPT ![p] = "idle"] ELSE Status
  BY StatusMoves DEF Exit, StatusAt
<1>2. Directory' = Directory
  BY DEF Directory, Decoded
<1>3. p \in Registry => run' = [run EXCEPT ![p] = NoCommand] /\ answer' = a
  BY DEF Exit, DirectoryTypes, ProcessesTyped
<1>4. p = Server => run' = run /\ answer' = answer
  BY KeyUsers DEF Exit, DirectoryTypes, ProcessesTyped
<1>. QED
  BY <1>1, <1>2, <1>3, <1>4, KeyUsers, PromisedActions

LEMMA BeginIsPromised ==
  ASSUME DirectoryTypes, NEW r \in Registry, Begin(r)
  PROVE  Promise!Begin(r)
<1>1. PICK c \in Command :
        /\ c.registry = r /\ run' = [run EXCEPT ![r] = c]
        /\ Goto(r, "idle", IF c.verb = "create" THEN "agents" ELSE "load")
  BY DEF Begin
<1>2. Status[r] = "idle"
  BY <1>1 DEF Goto, Status, StatusAt
<1>3. StatusAt(IF c.verb = "create" THEN "agents" ELSE "load") = "running"
  BY DEF StatusAt
<1>4. Status' = [Status EXCEPT ![r] = "running"]
  BY <1>1, <1>3, StatusMoves, KeyUsers DEF Goto
<1>5. Directory' = Directory /\ answer' = answer
  BY DEF Begin, Directory, Decoded
<1>. QED
  BY <1>1, <1>2, <1>4, <1>5, PromisedActions

LEMMA RenameIsPromised ==
  ASSUME DirectoryTypes, NEW r \in Registry, SavesResult(r), Rename(r)
  PROVE  Promise!Apply(r)
<1>1. /\ pc[r] = "rename" /\ pc' = [pc EXCEPT ![r] = AfterSave(r)] /\ run' = run /\ answer' = answer
  BY DEF Rename, Goto, commandVars
<1>2. Status[r] = "running" /\ Directory[r] = Decoded(file[r])
  BY <1>1 DEF Status, StatusAt, Directory
<1>3. Status' = [Status EXCEPT ![r] = "applied"]
  BY <1>1, StatusMoves, KeyUsers DEF AfterSave, StatusAt
<1>4. /\ Accepts(run[r], Decoded(file[r]))
      /\ file' = [file EXCEPT ![r] = Result(run[r], Decoded(file[r]))]
      /\ Decoded(file'[r]) = Result(run[r], Decoded(file[r]))
  BY RenameSavesResult
<1>5. Directory' = [Directory EXCEPT ![r] = Result(run[r], Decoded(file[r]))]
  BY <1>4 DEF Directory, DirectoryTypes, FilesTyped
<1>. QED
  BY <1>1, <1>2, <1>3, <1>4, <1>5, PromisedActions

\* The steps of a command before and after its rename, and those of the server.
LEMMA OthersStutter ==
  ASSUME DirectoryTypes, NEW p \in Process, NEW from \in Place, NEW to \in Place, Goto(p, from, to),
         p \in Registry => StatusAt(from) = StatusAt(to), UNCHANGED <<file, run, answer>>
  PROVE  UNCHANGED Promise!vars
<1>1. Status' = IF p \in Registry THEN [Status EXCEPT ![p] = StatusAt(to)] ELSE Status
  BY StatusMoves DEF Goto
<1>2. p \in Registry => Status[p] = StatusAt(to)
  BY DEF Goto, Status
<1>3. Status' = Status
  BY <1>1, <1>2 DEF Status
<1>4. Directory' = Directory
  BY DEF Directory, Decoded
<1>. QED
  BY <1>3, <1>4 DEF Promise!vars, Directory, Status, StatusAt

LEMMA StepIsPromised ==
  ASSUME DirectoryTypes, \A r \in Registry : SavesResult(r), [Next]_vars
  PROVE  [Promise!Next]_(Promise!vars)
<1>. USE KeyUsers
<1>1. ASSUME NEW r \in Registry, Promise!Begin(r) \/ Promise!Apply(r) \/ Promise!Succeed(r)
                                  \/ Promise!Fail(r) \/ Promise!Die(r)
      PROVE  Promise!Next
  BY <1>1, SameCommands DEF Promise!Next
<1>2. \A r \in Registry : Status[r] = StatusAt(pc[r])
  BY DEF Status
<1>3. ASSUME NEW r \in Registry PROVE
        /\ Promise!Succeed(r) <=> Status[r] = "applied" /\ Promise!Finish(r, "ok")
        /\ Promise!Fail(r) <=> /\ Status[r] = "running" \/ (Status[r] = "applied" /\ run[r].verb = "create")
                               /\ Promise!Finish(r, "failed")
        /\ Promise!Die(r) <=> Status[r] # "idle" /\ Promise!Finish(r, "none")
  BY DEF Promise!Succeed, Promise!Fail, Promise!Die, Status, StatusAt
<1>4. ASSUME NEW r \in Registry, Begin(r) \/ Rename(r) PROVE Promise!Next
  BY <1>1, <1>4, BeginIsPromised, RenameIsPromised
<1>5. ASSUME NEW r \in Registry, FindAgent(r) \/ VerifyPIN(r) \/ Load(r) \/ Open(r) \/ Write(r) \/ AuditCommand(r)
      PROVE  UNCHANGED Promise!vars
  BY <1>5, OthersStutter DEF FindAgent, VerifyPIN, Load, Open, Write, AuditCommand, Goto, StatusAt, Place, commandVars
<1>6. ASSUME NEW p \in KeyUser, UseKey(p) \/ MissKey(p) \/ GenerateKey(p) \/ WriteKey(p)
      PROVE  UNCHANGED Promise!vars
  BY <1>6, OthersStutter DEF UseKey, MissKey, GenerateKey, WriteKey, AfterKey, Goto, StatusAt, Place, commandVars
<1>7. CASE StartServer \/ LoadRegistries
  BY <1>7, OthersStutter DEF StartServer, LoadRegistries, Goto, Place, commandVars
<1>8. CASE AuditRequest \/ UNCHANGED vars
  BY <1>8 DEF AuditRequest, vars, commandVars, Promise!vars, Decoded
<1>9. ASSUME NEW r \in Registry, Refuse(r) \/ SystemError(r) \/ UnknownFormat(r) PROVE Promise!Next
  <2>1. Exit(r, "failed") /\ file' = file
    BY <1>9 DEF Refuse, SystemError, UnknownFormat
  <2>2. \/ pc[r] \in {"agents", "profile", "load", "open", "write", "rename"}
        \/ pc[r] = "answer" /\ run[r].verb = "create"
    BY <1>9 DEF Refuse, SystemError, UnknownFormat
  <2>3. Status[r] = "running" \/ (Status[r] = "applied" /\ run[r].verb = "create")
    BY <1>2, <2>2 DEF StatusAt
  <2>4. QED
    BY <1>1, <1>3, <2>1, <2>3, ExitFinishes
<1>10. ASSUME NEW r \in Registry, Succeed(r) PROVE Promise!Next
  <2>1. Exit(r, "ok") /\ file' = file /\ Status[r] = "applied"
    BY <1>2, <1>10 DEF Succeed, StatusAt
  <2>2. QED
    BY <1>1, <1>3, <2>1, ExitFinishes
<1>11. ASSUME NEW p \in KeyUser, KeyFails(p) PROVE [Promise!Next]_(Promise!vars)
  <2>1. Exit(p, "failed") /\ file' = file /\ pc[p] \in {"key", "generate", "write key"}
    BY <1>11 DEF KeyFails
  <2>2. CASE p = Server
    BY <2>1, <2>2, ExitFinishes DEF Promise!vars, Directory, Status, StatusAt
  <2>3. CASE p = "delegations"
    <3>1. Status[p] = "running"
      BY <1>2, <2>1, <2>3 DEF StatusAt
    <3>2. QED
      BY <1>1, <1>3, <2>1, <2>3, <3>1, ExitFinishes
  <2>4. QED
    BY <2>2, <2>3
<1>12. CASE StartFails
  BY <1>12, ExitFinishes DEF StartFails, Promise!vars, Directory, Status, StatusAt
<1>13. ASSUME NEW p \in Process, Kill(p) PROVE [Promise!Next]_(Promise!vars)
  <2>1. Exit(p, "none") /\ file' = file /\ pc[p] # "idle"
    BY <1>13 DEF Kill
  <2>2. CASE p = Server
    BY <2>1, <2>2, ExitFinishes DEF Promise!vars, Directory, Status, StatusAt
  <2>3. CASE p \in Registry
    <3>1. Status[p] # "idle"
      BY <1>2, <2>1, <2>3 DEF StatusAt
    <3>2. QED
      BY <1>1, <1>3, <2>1, <2>3, <3>1, ExitFinishes
  <2>4. QED
    BY <2>2, <2>3 DEF Process
<1>. QED
  BY <1>4, <1>5, <1>6, <1>7, <1>8, <1>9, <1>10, <1>11, <1>12, <1>13 DEF Next

\* A command takes effect at one instant, its rename, or not at all, and it
\* answers what it did, with errors and deaths at any step and commands on
\* the other registries beside it (cmd/anyauth, Load and Save).
THEOREM CommandsKeepTheirPromise == Spec => ImplementsCommandLine
<1>1. Init => Promise!Init
  <2>. SUFFICES ASSUME Init PROVE Promise!Init
    OBVIOUS
  <2>1. \A r \in Registry : Decoded(file[r]) = {} /\ pc[r] = "idle"
    BY KeyUsers DEF Init, Decoded
  <2>2. QED
    BY <2>1, SameCommands DEF Init, Promise!Init
<1>2. Spec => []DirectoryTypes
  BY DirectoryTypesInit, DirectoryTypesStep, PTL DEF Spec
<1>3. DirectoryTypes /\ [Next]_vars /\ (\A r \in Registry : SavesResult(r))
        => (\A r \in Registry : SavesResult(r))'
  BY SavesResultStep
<1>4. DirectoryTypes /\ (\A r \in Registry : SavesResult(r)) /\ [Next]_vars => [Promise!Next]_(Promise!vars)
  BY StepIsPromised
<1>. QED
  BY <1>1, <1>2, <1>3, <1>4, SavesResultInit, PTL DEF Spec, ImplementsCommandLine, Promise!Spec
=============================================================================
