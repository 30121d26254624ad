--------------------------- MODULE DataDirectory ----------------------------
(***************************************************************************)
(* The data directory as the commands of cmd/anyauth and the server use    *)
(* it, file by file.  A command that changes a registry loads its file,    *)
(* writes a temporary file and renames it.  "delegate create" reads two    *)
(* other registries and the signing key first, and the commands on         *)
(* delegations append an event to audit.jsonl last.  The server loads or   *)
(* makes the signing key when it starts and appends an event for every     *)
(* request of an agent.  The key is written in place.                      *)
(*                                                                         *)
(* A command runs beside commands on other registries and beside the       *)
(* server, and no file is locked.  A system call may fail and a process    *)
(* may die at any step.                                                    *)
(***************************************************************************)
EXTENDS Commands, Naturals, Sequences

CONSTANTS
  Key,             \* the keys that may be generated
  Server,          \* the process of the server; those of commands are the registries
  Limit,           \* of "audit list"
  NoFile, Partial, \* a file that does not exist; one that is opened and not written
  Torn,            \* the part of a line, no event, that a failed append leaves
  Failed,          \* the answer of a list that fails
  NoCommand, NoKey,
  MaxCommands, MaxKills, MaxEvents   \* bounds

ASSUME DirectoryAssumption ==
  /\ Server \notin Registry
  /\ NoKey \notin Key /\ NoFile \notin Key /\ Partial \notin Key
  /\ Partial # NoFile /\ NoCommand \notin Command
  /\ \A r \in Registry : \A es \in SUBSET Entries(r) : es # NoFile /\ es # Partial
  /\ Limit \in Nat \ {0}
  /\ MaxCommands \in Nat /\ MaxKills \in Nat /\ MaxEvents \in Nat

VARIABLES
  file,     \* what each registry's file holds
  tmp,      \* what its temporary file holds
  keyFile,  \* what dev-private-key.pem holds
  drawn,    \* history: the keys that were generated
  raced,    \* history: two processes found no key before either had made one
  audit,    \* the lines of audit.jsonl
  logged,   \* history: the events whose append succeeded
  pc,       \* of each process
  run,      \* the command it runs
  mem,      \* the entries it is about to save
  answer,   \* of the command that ended last: "ok", "failed" or "none"
  held,     \* the key it has
  tokens,   \* history: the tokens that were printed: [id, key]
  begun, kills

keyVars == <<keyFile, drawn, raced>>
auditVars == <<audit, logged>>
commandVars == <<run, mem, answer>>
bounds == <<begun, kills>>
vars == <<file, tmp, keyVars, auditVars, pc, commandVars, held, tokens, bounds>>

KeyUser == {"delegations", Server}
Process == Registry \cup {Server}

Decoded(content) == IF content = NoFile THEN {} ELSE content
Loads(registry) == file[registry] # Partial

Init ==
  /\ file = [r \in Registry |-> NoFile] /\ tmp = [r \in Registry |-> NoFile]
  /\ keyFile = NoFile /\ drawn = {} /\ raced = FALSE
  /\ audit = <<>> /\ logged = <<>>
  /\ pc = [p \in Process |-> "idle"]
  /\ run = [r \in Registry |-> NoCommand]
  /\ mem = [r \in Registry |-> {}]
  /\ answer = "none"
  /\ held = [p \in KeyUser |-> NoKey]
  /\ tokens = {}
  /\ begun = 0 /\ kills = 0

Goto(p, from, to) == pc[p] = from /\ pc' = [pc EXCEPT ![p] = to]

\* The process exits; a command answers its caller.
Exit(p, a) ==
  /\ pc' = [pc EXCEPT ![p] = "idle"]
  /\ run' = [r \in Registry |-> IF r = p THEN NoCommand ELSE run[r]]
  /\ mem' = [r \in Registry |-> IF r = p THEN {} ELSE mem[r]]
  /\ answer' = IF p \in Registry THEN a ELSE answer
  /\ held' = [q \in KeyUser |-> IF q = p THEN NoKey ELSE held[q]]

(***************************************************************************)
(* Commands: what they read                                                *)
(***************************************************************************)
Begin(r) ==
  /\ begun < MaxCommands /\ begun' = begun + 1
  /\ \E c \in Command :
       /\ c.registry = r
       /\ c.verb = "create" => Accepts(c, Decoded(file[r]))
       /\ Goto(r, "idle", IF c.verb = "create" THEN "agents" ELSE "load")
       /\ run' = [run EXCEPT ![r] = c]
  /\ UNCHANGED <<file, tmp, keyVars, auditVars, mem, answer, held, tokens, kills>>

\* delegateCreate: agentregistry.Load and Find
FindAgent(r) ==
  /\ Goto(r, "agents", "profile")
  /\ Loads("agents") /\ run[r].agent \in Decoded(file["agents"])
  /\ UNCHANGED <<file, tmp, keyVars, auditVars, commandVars, held, tokens, bounds>>

\* userstore.Load and verifyPINIfConfigured: the PIN is right, or none is set.
VerifyPIN(r) ==
  /\ Goto(r, "profile", "key")
  /\ Loads("user")
  /\ UNCHANGED <<file, tmp, keyVars, auditVars, commandVars, held, tokens, bounds>>

Load(r) ==
  /\ Goto(r, "load", "open")
  /\ Loads(r) /\ Accepts(run[r], Decoded(file[r]))
  /\ mem' = [mem EXCEPT ![r] = Result(run[r], Decoded(file[r]))]
  /\ UNCHANGED <<file, tmp, keyVars, auditVars, run, answer, held, tokens, bounds>>

\* The agent is unknown, the PIN wrong, the entry there or not there.
Refuse(r) ==
  /\ \/ pc[r] = "agents"  /\ (Loads("agents") => run[r].agent \notin Decoded(file["agents"]))
     \/ pc[r] = "profile" /\ (Loads("user") => PIN \in Decoded(file["user"]))
     \/ pc[r] = "load"    /\ (Loads(r) => ~Accepts(run[r], Decoded(file[r])))
  /\ Exit(r, "failed")
  /\ UNCHANGED <<file, tmp, keyVars, auditVars, tokens, bounds>>

(***************************************************************************)
(* Commands: Save, which is os.WriteFile(tmp) and os.Rename, and the rest  *)
(***************************************************************************)
\* Faulty variant: the save opens the file itself.
OpenInPlace(r) ==
  /\ Goto(r, "open", "write")
  /\ file' = [file EXCEPT ![r] = Partial]
  /\ UNCHANGED <<tmp, keyVars, auditVars, commandVars, held, tokens, bounds>>

Open(r) ==
  /\ Goto(r, "open", "write")
  /\ tmp' = [tmp EXCEPT ![r] = Partial]
  /\ UNCHANGED <<file, keyVars, auditVars, commandVars, held, tokens, bounds>>

Write(r) ==
  /\ Goto(r, "write", "rename")
  /\ tmp' = [tmp EXCEPT ![r] = mem[r]]
  /\ UNCHANGED <<file, keyVars, auditVars, commandVars, held, tokens, bounds>>

AfterSave(r) == IF r = "delegations" THEN "audit" ELSE "answer"

Rename(r) ==
  /\ Goto(r, "rename", AfterSave(r))
  /\ file' = [file EXCEPT ![r] = tmp[r]]
  /\ tmp' = [tmp EXCEPT ![r] = NoFile]
  /\ UNCHANGED <<keyVars, auditVars, commandVars, held, tokens, bounds>>

\* Faulty variant: the error of the rename is not looked at.
SystemErrorUnnoticed(r) ==
  /\ \/ pc[r] \in {"agents", "profile", "load", "open", "write"} /\ Exit(r, "failed")
     \/ Goto(r, "rename", AfterSave(r)) /\ UNCHANGED <<commandVars, held>>
  /\ UNCHANGED <<file, tmp, keyVars, auditVars, tokens, bounds>>

\* A read, open, write or rename fails.
SystemError(r) ==
  /\ pc[r] \in {"agents", "profile", "load", "open", "write", "rename"}
  /\ Exit(r, "failed")
  /\ UNCHANGED <<file, tmp, keyVars, auditVars, tokens, bounds>>

\* "delegate create" prints the token.
Succeed(r) ==
  /\ pc[r] = "answer"
  /\ tokens' = IF run[r].verb = "create"
               THEN tokens \cup {[id |-> run[r].id, key |-> held[r]]} ELSE tokens
  /\ Exit(r, "ok")
  /\ UNCHANGED <<file, tmp, keyVars, auditVars, bounds>>

\* --format is looked at when the delegation has been saved.
UnknownFormat(r) ==
  /\ pc[r] = "answer" /\ run[r].verb = "create"
  /\ Exit(r, "failed")
  /\ UNCHANGED <<file, tmp, keyVars, auditVars, tokens, bounds>>

(***************************************************************************)
(* LoadOrCreateRSAKey, in the server and in "delegate create"              *)
(***************************************************************************)
AfterKey(p) == IF p = Server THEN "registries" ELSE "load"

\* Faulty variant: the bytes of the file are not looked at.
UseAnyKey(p) ==
  /\ Goto(p, "key", AfterKey(p))
  /\ keyFile # NoFile
  /\ held' = [held EXCEPT ![p] = keyFile]
  /\ UNCHANGED <<file, tmp, keyVars, auditVars, commandVars, tokens, bounds>>

UseKey(p) ==
  /\ Goto(p, "key", AfterKey(p))
  /\ keyFile \in Key
  /\ held' = [held EXCEPT ![p] = keyFile]
  /\ UNCHANGED <<file, tmp, keyVars, auditVars, commandVars, tokens, bounds>>

MissKey(p) ==
  /\ Goto(p, "key", "generate")
  /\ keyFile = NoFile
  /\ raced' = (raced \/ \E q \in KeyUser : pc[q] = "generate")
  /\ UNCHANGED <<file, tmp, keyFile, drawn, auditVars, commandVars, held, tokens, bounds>>

\* GenerateKey; and os.WriteFile opens the file.
GenerateKey(p) ==
  /\ Goto(p, "generate", "write key")
  /\ \E k \in Key \ drawn :
       /\ drawn' = drawn \cup {k}
       /\ held' = [held EXCEPT ![p] = k]
  /\ keyFile' = Partial
  /\ UNCHANGED <<file, tmp, raced, auditVars, commandVars, tokens, bounds>>

WriteKey(p) ==
  /\ Goto(p, "write key", AfterKey(p))
  /\ keyFile' = held[p]
  /\ UNCHANGED <<file, tmp, drawn, raced, auditVars, commandVars, held, tokens, bounds>>

\* Faulty variant: the error of the write is not looked at.
KeyFailsUnnoticed(p) ==
  /\ \/ pc[p] \in {"key", "generate"} /\ Exit(p, "failed")
     \/ Goto(p, "write key", AfterKey(p)) /\ UNCHANGED <<commandVars, held>>
  /\ UNCHANGED <<file, tmp, keyVars, auditVars, tokens, bounds>>

\* A system call fails, or the file is there and does not hold a key.
KeyFails(p) ==
  /\ pc[p] \in {"key", "generate", "write key"}
  /\ Exit(p, "failed")
  /\ UNCHANGED <<file, tmp, keyVars, auditVars, tokens, bounds>>

(***************************************************************************)
(* audit.jsonl                                                             *)
(***************************************************************************)
\* One write to a file that is opened with O_APPEND.  A line may be longer
\* than the buffer of the scanner that reads it.
AppendEvent(kind, id) ==
  \E long \in BOOLEAN :
    LET event == [kind |-> kind, id |-> id, long |-> long]
    IN  audit' = Append(audit, event) /\ logged' = Append(logged, event)

\* The caller only prints the error.  The disk may have taken a part of the line.
AppendFails ==
  /\ audit' \in {audit, Append(audit, Torn)}
  /\ UNCHANGED logged

AuditCommand(r) ==
  /\ Goto(r, "audit", "answer")
  /\ AppendEvent(run[r].verb, run[r].id) \/ AppendFails
  /\ UNCHANGED <<file, tmp, keyVars, commandVars, held, tokens, bounds>>

\* The proxy appends an event for a request of an agent.
AuditRequest ==
  /\ pc[Server] = "up" /\ Len(audit) < MaxEvents
  /\ \E id \in DelegationID : AppendEvent("request", id) \/ AppendFails
  /\ UNCHANGED <<file, tmp, keyVars, pc, commandVars, held, tokens, bounds>>

\* The lines that the scanner returns: it stops at one that is too long.
Scanned ==
  LET long == {i \in DOMAIN audit : audit[i] # Torn /\ audit[i].long}
  IN  SelectSeq([i \in DOMAIN audit |->
        IF \A j \in 1..i : j \notin long THEN audit[i] ELSE NoFile],
        LAMBDA line : line # NoFile)

Last(s) == IF Len(s) > Limit THEN SubSeq(s, Len(s) - Limit + 1, Len(s)) ELSE s

\* Faulty variant: the scanner's error is not looked at.
AuditListUnchecked ==
  IF \E i \in DOMAIN Scanned : Scanned[i] = Torn THEN Failed ELSE Last(Scanned)

\* "audit list": a torn line, and the line that was appended to it, do not decode.
AuditList ==
  IF Scanned # audit \/ \E i \in DOMAIN Scanned : Scanned[i] = Torn
  THEN Failed ELSE Last(Scanned)

(***************************************************************************)
(* The server, and the death of a process                                  *)
(***************************************************************************)
StartServer ==
  /\ Goto(Server, "idle", "key")
  /\ UNCHANGED <<file, tmp, keyVars, auditVars, commandVars, held, tokens, bounds>>

\* userstore.Load and clientregistry.Load
LoadRegistries ==
  /\ Goto(Server, "registries", "up")
  /\ Loads("user") /\ Loads("clients")
  /\ UNCHANGED <<file, tmp, keyVars, auditVars, commandVars, held, tokens, bounds>>

\* A registry does not load, or the server cannot listen.
StartFails ==
  /\ pc[Server] = "registries"
  /\ Exit(Server, "failed")
  /\ UNCHANGED <<file, tmp, keyVars, auditVars, tokens, bounds>>

Kill(p) ==
  /\ pc[p] # "idle"
  /\ kills < MaxKills /\ kills' = kills + 1
  /\ Exit(p, "none")
  /\ UNCHANGED <<file, tmp, keyVars, auditVars, tokens, begun>>

Next ==
  \/ \E r \in Registry :
       \/ Begin(r) \/ FindAgent(r) \/ VerifyPIN(r) \/ Load(r) \/ Refuse(r)
       \/ Open(r) \/ Write(r) \/ Rename(r) \/ SystemError(r)
       \/ AuditCommand(r) \/ Succeed(r) \/ UnknownFormat(r)
  \/ \E p \in KeyUser : UseKey(p) \/ MissKey(p) \/ GenerateKey(p) \/ WriteKey(p) \/ KeyFails(p)
  \/ StartServer \/ LoadRegistries \/ StartFails \/ AuditRequest
  \/ \E p \in Process : Kill(p)

Spec == Init /\ [][Next]_vars

-----------------------------------------------------------------------------
(***************************************************************************)
(* Properties                                                              *)
(***************************************************************************)
Content(registry) == (SUBSET Entries(registry)) \cup {NoFile, Partial}

HasKey(p) == pc[p] \in {"registries", "up", "load", "open", "write", "rename", "audit", "answer"}

\* Types; and a process that signs has a key.
TypeOK ==
  /\ \A r \in Registry : file[r] \in Content(r) /\ tmp[r] \in Content(r) /\ mem[r] \subseteq Entries(r)
  /\ keyFile \in Key \cup {NoFile, Partial} /\ drawn \subseteq Key /\ raced \in BOOLEAN
  /\ pc \in [Process -> {"idle", "agents", "profile", "key", "generate", "write key",
                         "registries", "up", "load", "open", "write", "rename", "audit", "answer"}]
  /\ run \in [Registry -> Command \cup {NoCommand}]
  /\ answer \in {"none", "ok", "failed"}
  /\ held \in [KeyUser -> Key \cup {NoKey}]
  /\ HasKey(Server) => held[Server] \in Key
  /\ \A t \in tokens : t.id \in DelegationID /\ t.key \in Key
  /\ begun \in Nat /\ kills \in Nat

\* Each registry behaves as if its commands were instantaneous, whatever
\* commands run on the others, with errors and deaths at any step: what a
\* command answers is what it did (cmd/anyauth, Load and Save of the registries).
Promise == INSTANCE CommandLine WITH
  directory <- [r \in Registry |-> Decoded(file[r])],
  status <- [r \in Registry |->
    IF pc[r] = "idle" THEN "idle" ELSE IF pc[r] \in {"audit", "answer"} THEN "applied" ELSE "running"]
ImplementsCommandLine == Promise!Spec

\* Unless two processes were making the first key at the same time, there is
\* one key: the server signs and verifies with the key of the file, and every
\* token that was printed was signed with it (LoadOrCreateRSAKey).
KeysAgree ==
  ~raced =>
    /\ HasKey(Server) => held[Server] = keyFile
    /\ \A t \in tokens : t.key = keyFile

\* The log does not say that a delegation was created or revoked which was
\* not: the event is appended when the save has succeeded (delegateCreate and
\* delegateRevoke).
AuditTellsTruth ==
  \A i \in DOMAIN audit : audit[i] # Torn =>
    LET saved == {r \in Decoded(file["delegations"]) : r.id = audit[i].id}
    IN  CASE audit[i].kind = "create"  -> saved # {}
          [] audit[i].kind = "revoke"  -> \E r \in saved : r.revoked
          [] audit[i].kind = "request" -> TRUE

\* An "audit list" that succeeds shows the newest of the events that the
\* commands and the proxy have appended, none left out (auditlog.Load).
NoEventHidden == AuditList # Failed => AuditList = Last(logged)
=============================================================================
