---------------------------- MODULE StoreProcess ---------------------------
(***************************************************************************)
(* authzstore.Store as it runs: threads (HTTP handlers, CLI commands) in   *)
(* processes.  A process has one Store, and its mutex covers an operation  *)
(* from the load to the rename; nothing covers two processes.  A save      *)
(* writes authorization.json.tmp, a path all processes share, and renames  *)
(* it over authorization.json.                                             *)
(*                                                                         *)
(* A path holds NoFile (it does not exist), Empty (opened with O_TRUNC,    *)
(* not written yet), Garbled (bytes that do not decode) or a decoded file. *)
(* A process may be killed at any step; whatever is on disk then stays.    *)
(***************************************************************************)
EXTENDS AuthzFile

CONSTANTS
  Thread, Process,
  ProcessOf,       \* the process of each thread
  Readers,         \* the threads that only list grants
  MaxTime,         \* bound of the clock
  MaxKills,        \* bound on the number of kills
  NoFile, Empty, Garbled,
  NoCall,          \* a thread that has no call
  Free             \* a mutex that is not held

ASSUME ProcessAssumption ==
  /\ ProcessOf \in [Thread -> Process]
  /\ Readers \subseteq Thread
  /\ MaxTime \in Nat /\ MaxKills \in Nat
  /\ NoFile \notin File /\ Empty \notin File /\ Garbled \notin File
  /\ Empty # NoFile /\ Garbled # NoFile /\ Empty # Garbled
  /\ NoCall \notin Call
  /\ Free \notin Thread

VARIABLES
  now,
  disk,   \* what the path authorization.json holds
  tmp,    \* what the path authorization.json.tmp holds
  mutex,  \* the thread that holds each process's mutex, or Free
  pc,     \* "idle", "lock", "load", "open", "write" or "rename"
  call,   \* the call each thread serves
  mem,    \* the file each thread is about to save
  fd,     \* where the file a thread has open is: "tmp", "disk" (it was
          \*   renamed meanwhile), "gone" (it was replaced) or "none"
  acked,  \* the calls whose callers were told that they are settled
  listed, \* what each thread's last list decoded
  kills   \* processes killed so far

memory == <<mutex, pc, call, mem, fd>>
vars == <<now, disk, tmp, mutex, pc, call, mem, fd, acked, listed, kills>>

ListCall == [kind |-> "list"]

Decodes(content) == content \notin {Empty, Garbled}
FileOf(content)  == IF content = NoFile THEN EmptyFile ELSE content

Init ==
  /\ now = 0
  /\ disk = NoFile /\ tmp = NoFile
  /\ mutex = [p \in Process |-> Free]
  /\ pc = [t \in Thread |-> "idle"]
  /\ call = [t \in Thread |-> NoCall]
  /\ mem = [t \in Thread |-> EmptyFile]
  /\ fd = [t \in Thread |-> "none"]
  /\ acked = {}
  /\ listed = [t \in Thread |-> EmptyFile]
  /\ kills = 0

Goto(t, from, to) == pc[t] = from /\ pc' = [pc EXCEPT ![t] = to]

\* Faulty variant: no deferred Unlock.
ReturnHoldingMutex(t) ==
  /\ pc' = [pc EXCEPT ![t] = "idle"]
  /\ call' = [call EXCEPT ![t] = NoCall]
  /\ mem' = [mem EXCEPT ![t] = EmptyFile]
  /\ UNCHANGED mutex

\* The deferred Unlock; the thread answers its caller.
Return(t) ==
  /\ pc' = [pc EXCEPT ![t] = "idle"]
  /\ call' = [call EXCEPT ![t] = NoCall]
  /\ mem' = [mem EXCEPT ![t] = EmptyFile]
  /\ mutex' = [mutex EXCEPT ![ProcessOf[t]] = Free]

\* A caller samples the clock and calls.  What it decides or revokes it has
\* read in the file; a list has no argument.
Begin(t) ==
  /\ Goto(t, "idle", "lock")
  /\ \E op \in IF t \in Readers THEN {ListCall}
               ELSE IF Decodes(disk) THEN Calls(FileOf(disk), now) ELSE {} :
       call' = [call EXCEPT ![t] = op]
  /\ UNCHANGED <<now, disk, tmp, mutex, mem, fd, acked, listed, kills>>

\* Faulty variant: an operation does not take the mutex of its process.
LockNothing(t) ==
  /\ Goto(t, "lock", "load")
  /\ UNCHANGED <<now, disk, tmp, mutex, call, mem, fd, acked, listed, kills>>

Lock(t) ==
  /\ Goto(t, "lock", "load")
  /\ mutex[ProcessOf[t]] = Free
  /\ mutex' = [mutex EXCEPT ![ProcessOf[t]] = t]
  /\ UNCHANGED <<now, disk, tmp, call, mem, fd, acked, listed, kills>>

(***************************************************************************)
(* loadUnlocked and the body of the operation                              *)
(***************************************************************************)
Loads == Decodes(disk) /\ ValidFile(FileOf(disk))

Saves(op) == Accepts(FileOf(disk), op) /\ ValidFile(Result(FileOf(disk), op))

\* The file does not load, or the operation refuses the call.
Refuse(t) ==
  /\ pc[t] = "load"
  /\ Loads => (call[t] # ListCall /\ ~Saves(call[t]))
  /\ Return(t)
  /\ UNCHANGED <<now, disk, tmp, fd, acked, listed, kills>>

List(t) ==
  /\ pc[t] = "load"
  /\ Loads /\ call[t] = ListCall
  /\ listed' = [listed EXCEPT ![t] = FileOf(disk)]
  /\ Return(t)
  /\ UNCHANGED <<now, disk, tmp, fd, acked, kills>>

Load(t) ==
  /\ Goto(t, "load", "open")
  /\ Loads /\ call[t] # ListCall
  /\ Saves(call[t])
  /\ mem' = [mem EXCEPT ![t] = Result(FileOf(disk), call[t])]
  /\ UNCHANGED <<now, disk, tmp, mutex, call, fd, acked, listed, kills>>

(***************************************************************************)
(* saveUnlocked: os.WriteFile(tmp) and os.Rename(tmp, path)                *)
(***************************************************************************)
\* Faulty variant: the save opens authorization.json itself.
OpenInPlace(t) ==
  /\ Goto(t, "open", "write")
  /\ disk' = Empty
  /\ fd' = [fd EXCEPT ![t] = "disk"]
  /\ UNCHANGED <<now, tmp, mutex, call, mem, acked, listed, kills>>

Open(t) ==
  /\ Goto(t, "open", "write")
  /\ tmp' = Empty
  /\ fd' = [fd EXCEPT ![t] = "tmp"]
  /\ UNCHANGED <<now, disk, mutex, call, mem, acked, listed, kills>>

\* Content put into the file that t has open, at whatever path it is now.
Put(t, content) ==
  /\ tmp'  = IF fd[t] = "tmp"  THEN content ELSE tmp
  /\ disk' = IF fd[t] = "disk" THEN content ELSE disk

Target(t) == IF fd[t] = "disk" THEN disk ELSE tmp

\* Writing over other bytes leaves their tail when they were longer.
Write(t) ==
  /\ Goto(t, "write", "rename")
  /\ \E content \in IF Target(t) \in {Empty, mem[t]} THEN {mem[t]}
                    ELSE {mem[t], Garbled} :
       Put(t, content)
  /\ fd' = [fd EXCEPT ![t] = "none"]
  /\ UNCHANGED <<now, mutex, call, mem, acked, listed, kills>>

\* Faulty variant: the error of the write is not looked at.
WriteFailsUnnoticed(t) ==
  /\ Goto(t, "write", "rename")
  /\ Put(t, Garbled)
  /\ fd' = [fd EXCEPT ![t] = "none"]
  /\ UNCHANGED <<now, mutex, call, mem, acked, listed, kills>>

\* The disk is full: part of the bytes are there, the caller sees an error.
WriteFails(t) ==
  /\ pc[t] = "write"
  /\ Put(t, Garbled)
  /\ fd' = [fd EXCEPT ![t] = "none"]
  /\ Return(t)
  /\ UNCHANGED <<now, acked, listed, kills>>

\* Files that were open at tmp are now at disk, those at disk are unlinked.
Moved(where) ==
  CASE where = "tmp" -> "disk" [] where = "disk" -> "gone" [] OTHER -> where

Rename(t) ==
  /\ pc[t] = "rename"
  /\ tmp # NoFile
  /\ disk' = tmp
  /\ tmp' = NoFile
  /\ fd' = [u \in Thread |-> Moved(fd[u])]
  /\ acked' = acked \cup {call[t]}
  /\ Return(t)
  /\ UNCHANGED <<now, listed, kills>>

\* Reading, opening or renaming fails; a rename finds no tmp when another
\* process has renamed it.
SystemError(t) ==
  /\ pc[t] \in {"load", "open", "rename"}
  /\ Return(t)
  /\ UNCHANGED <<now, disk, tmp, fd, acked, listed, kills>>

Kill(p) ==
  LET dead == {t \in Thread : ProcessOf[t] = p}
  IN  /\ kills < MaxKills
      /\ kills' = kills + 1
      /\ pc' = [t \in Thread |-> IF t \in dead THEN "idle" ELSE pc[t]]
      /\ call' = [t \in Thread |-> IF t \in dead THEN NoCall ELSE call[t]]
      /\ mem' = [t \in Thread |-> IF t \in dead THEN EmptyFile ELSE mem[t]]
      /\ fd' = [t \in Thread |-> IF t \in dead THEN "none" ELSE fd[t]]
      /\ mutex' = [mutex EXCEPT ![p] = Free]
      /\ UNCHANGED <<now, disk, tmp, acked, listed>>

Tick ==
  /\ now < MaxTime
  /\ now' = now + 1
  /\ UNCHANGED <<disk, tmp, memory, acked, listed, kills>>

Step(t) ==
  \/ Lock(t) \/ SystemError(t) \/ List(t) \/ Load(t) \/ Refuse(t)
  \/ Open(t) \/ Write(t) \/ WriteFails(t) \/ Rename(t)

Next ==
  \/ \E t \in Thread : Begin(t) \/ Step(t)
  \/ \E p \in Process : Kill(p)
  \/ Tick

\* A running thread goes on.  Go's sync.Mutex hands itself to a waiter that
\* has waited too long, so a waiting thread is not passed over for ever by those
\* it shares the mutex with; without any, Lock is a step like the others.
\* Nobody is obliged to call, and nothing makes a process die.
Contenders == {t \in Thread : \E u \in Thread \ {t} : ProcessOf[u] = ProcessOf[t]}
Fairness ==
  /\ \A t \in Thread : WF_vars(Step(t))
  /\ \A t \in Contenders : SF_vars(Lock(t))

Safety == Init /\ [][Next]_vars
Spec == Safety /\ Fairness

-----------------------------------------------------------------------------
(***************************************************************************)
(* Properties                                                              *)
(***************************************************************************)
Content == File \cup {NoFile, Empty, Garbled}

Critical(t) == pc[t] \in {"load", "open", "write", "rename"}

\* Types; and the mutex of a process is held by the one thread of it that is
\* between the load and the rename of an operation.
TypeOK ==
  /\ now \in Nat /\ kills \in Nat
  /\ disk \in Content /\ tmp \in Content
  /\ mutex \in [Process -> Thread \cup {Free}]
  /\ pc \in [Thread -> {"idle", "lock", "load", "open", "write", "rename"}]
  /\ call \in [Thread -> Call \cup {ListCall, NoCall}]
  /\ mem \in [Thread -> File] /\ listed \in [Thread -> File]
  /\ fd \in [Thread -> {"tmp", "disk", "gone", "none"}]
  /\ acked \subseteq Call
  /\ \A t \in Thread : Critical(t) <=> mutex[ProcessOf[t]] = t

\* authorization.json is absent or a complete, valid file, also after a full
\* disk and after a process was killed in the middle of a save: "atomic per
\* write" (docs/security-boundaries.md).
FileLoads == Loads

\* What a caller was told is settled is in the file and stays in it: two
\* operations that overlap do not undo one another.
Durable(f, op) ==
  CASE op.kind = "add"    -> op.app \in f.apps
    [] op.kind = "create" -> \E r \in f.requests : r.id = op.request.id
    [] op.kind = "revoke" -> \E g \in f.grants : g.id = op.id /\ g.revokedAt = op.at
    [] op.kind \in {"approve", "deny"} -> \E r \in f.requests :
         r.id = op.id /\ r.decidedAt = op.at /\ r.status = Verdict(r, op)

AckedIsDurable == Decodes(disk) => \A op \in acked : Durable(FileOf(disk), op)

\* What a list showed holds from then on: no grant it showed disappears, no
\* revocation it showed is taken back.
Shows(f, g) ==
  \E h \in f.grants : h.id = g.id /\ (g.revokedAt # NoTime => h.revokedAt = g.revokedAt)

ListsAreDurable ==
  Decodes(disk) => \A t \in Readers : \A g \in listed[t].grants : Shows(FileOf(disk), g)

\* One process with any number of threads, and other processes that only
\* read, implement the atomic store.
Store == INSTANCE AuthzStore WITH file <- FileOf(disk)
ImplementsStore == Store!Spec

\* Every call returns to its caller, with an answer or because its process died.
EveryCallReturns == \A t \in Thread : pc[t] # "idle" ~> pc[t] = "idle"
=============================================================================
