------------------------- MODULE StoreProcessProofs ------------------------
(***************************************************************************)
(* Proofs about StoreProcess, for any number of threads, processes, kills  *)
(* and ticks and any sets of applications, requests and grants.            *)
(*                                                                         *)
(* The types and the mutex hold whoever writes.  The other theorems have   *)
(* the hypothesis OneWriter: all threads that write are in one process,    *)
(* the case the code's mutex is made for.  Without it they are false, as   *)
(* the run with two writing processes shows.                               *)
(***************************************************************************)
EXTENDS StoreProcess, AuthzFileProofs

(***************************************************************************)
(* Types, and mutual exclusion inside a process                            *)
(***************************************************************************)
Saving(t) == pc[t] \in {"open", "write", "rename"}

MemoryTypes ==
  /\ mutex \in [Process -> Thread \cup {Free}]
  /\ pc \in [Thread -> {"idle", "lock", "load", "open", "write", "rename"}]
  /\ call \in [Thread -> Call \cup {ListCall, NoCall}]
  /\ mem \in [Thread -> File]

Holds(t) == Critical(t) <=> mutex[ProcessOf[t]] = t

\* A thread on its way through the store serves a call; one that saves
\* serves a call that changes the file.
Serves(t) ==
  /\ pc[t] \in {"lock", "load"} => call[t] \in Call \cup {ListCall}
  /\ Saving(t) => call[t] \in Call

TypeInv == TypeOK /\ \A t \in Thread : Serves(t)

LEMMA TypeParts ==
  TypeOK <=>
    /\ MemoryTypes
    /\ \A t \in Thread : Holds(t)
    /\ now \in Nat /\ kills \in Nat
    /\ disk \in Content /\ tmp \in Content
    /\ listed \in [Thread -> File]
    /\ fd \in [Thread -> {"tmp", "disk", "gone", "none"}]
    /\ acked \subseteq Call
BY DEF TypeOK, MemoryTypes, Holds

LEMMA NextTypeParts ==
  ASSUME MemoryTypes', \A t \in Thread : Holds(t)' /\ Serves(t)',
         now' \in Nat, kills' \in Nat, disk' \in Content, tmp' \in Content,
         listed' \in [Thread -> File],
         fd' \in [Thread -> {"tmp", "disk", "gone", "none"}],
         acked' \subseteq Call
  PROVE  TypeInv'
BY DEF TypeInv, TypeOK, MemoryTypes, Holds

LEMMA EmptyFileType == EmptyFile \in File
BY DEF EmptyFile, File

\* A file that decodes has the type of files.
LEMMA DecodedType ==
  ASSUME disk \in Content, Decodes(disk)
  PROVE  FileOf(disk) \in File
BY EmptyFileType DEF Content, Decodes, FileOf

\* A list is not one of the calls that change the file.
LEMMA ListIsNoCall == ListCall \notin Call
BY CallKinds DEF ListCall

\* A thread that returns leaves the others where they are, and its mutex free.
LEMMA ReturnTypes ==
  ASSUME TypeInv, NEW t \in Thread, Critical(t), Return(t)
  PROVE  MemoryTypes' /\ \A u \in Thread : Holds(u)' /\ Serves(u)'
<1>1. /\ MemoryTypes /\ ProcessOf[t] \in Process
      /\ \A u \in Thread : Holds(u) /\ Serves(u) /\ ProcessOf[u] \in Process
  BY ProcessAssumption, TypeParts DEF TypeInv
<1>2. /\ pc' = [pc EXCEPT ![t] = "idle"]
      /\ call' = [call EXCEPT ![t] = NoCall]
      /\ mem' = [mem EXCEPT ![t] = EmptyFile]
      /\ mutex' = [mutex EXCEPT ![ProcessOf[t]] = Free]
  BY DEF Return
<1>3. MemoryTypes'
  BY <1>1, <1>2, EmptyFileType DEF MemoryTypes
<1>4. ASSUME NEW u \in Thread
      PROVE  Holds(u)' /\ Serves(u)'
  <2>1. CASE u = t
    <3>1. pc'[u] = "idle" /\ mutex'[ProcessOf[u]] = Free
      BY <1>1, <1>2, <2>1 DEF MemoryTypes
    <3>2. Free # u
      BY ProcessAssumption
    <3>3. QED
      BY <3>1, <3>2 DEF Holds, Serves, Critical, Saving
  <2>2. CASE u # t
    <3>1. pc'[u] = pc[u] /\ call'[u] = call[u]
      BY <1>1, <1>2, <2>2 DEF MemoryTypes
    <3>2. CASE ProcessOf[u] = ProcessOf[t]
      <4>1. mutex[ProcessOf[u]] = t /\ mutex'[ProcessOf[u]] = Free
        BY <1>1, <1>2, <3>2 DEF Holds, MemoryTypes
      <4>2. ~Critical(u)
        BY <1>1, <2>2, <4>1 DEF Holds
      <4>3. Free # u
        BY ProcessAssumption
      <4>4. QED
        BY <1>1, <3>1, <4>1, <4>2, <4>3 DEF Holds, Serves, Critical, Saving
    <3>3. CASE ProcessOf[u] # ProcessOf[t]
      <4>1. mutex'[ProcessOf[u]] = mutex[ProcessOf[u]]
        BY <1>1, <1>2, <3>3 DEF MemoryTypes
      <4>2. QED
        BY <1>1, <3>1, <4>1 DEF Holds, Serves, Critical, Saving
    <3>4. QED
      BY <3>2, <3>3
  <2>3. QED
    BY <2>1, <2>2
<1>5. QED
  BY <1>3, <1>4

LEMMA TypesInit == Init => TypeInv
<1>. SUFFICES ASSUME Init PROVE TypeInv
  OBVIOUS
<1>1. MemoryTypes
  BY EmptyFileType DEF Init, MemoryTypes
<1>2. \A t \in Thread : Holds(t) /\ Serves(t)
  BY ProcessAssumption DEF Init, Holds, Serves, Critical, Saving
<1>3. QED
  BY <1>1, <1>2, EmptyFileType, TypeParts DEF Init, Content, TypeInv

LEMMA TypesStep == TypeInv /\ [Next]_vars => TypeInv'
<1>. SUFFICES ASSUME TypeInv, [Next]_vars PROVE TypeInv'
  OBVIOUS
<1>1. /\ MemoryTypes
      /\ \A t \in Thread : Holds(t) /\ Serves(t) /\ ProcessOf[t] \in Process
      /\ now \in Nat /\ kills \in Nat
      /\ disk \in Content /\ tmp \in Content
      /\ listed \in [Thread -> File]
      /\ fd \in [Thread -> {"tmp", "disk", "gone", "none"}]
      /\ acked \subseteq Call
  BY ProcessAssumption, TypeParts DEF TypeInv
<1>2. ASSUME NEW t \in Thread, Begin(t)
      PROVE  TypeInv'
  <2>1. /\ pc[t] = "idle" /\ pc' = [pc EXCEPT ![t] = "lock"]
        /\ UNCHANGED <<now, disk, tmp, mutex, mem, fd, acked, listed, kills>>
    BY <1>2 DEF Begin, Goto
  <2>2. PICK op \in Call \cup {ListCall} : call' = [call EXCEPT ![t] = op]
    BY <1>1, <1>2, DecodedType, CallTypes DEF Begin
  <2>3. MemoryTypes'
    BY <1>1, <2>1, <2>2 DEF MemoryTypes
  <2>4. \A u \in Thread : Holds(u)' /\ Serves(u)'
    BY <1>1, <2>1, <2>2 DEF MemoryTypes, Holds, Serves, Critical, Saving
  <2>5. QED
    BY <1>1, <2>1, <2>3, <2>4, NextTypeParts
<1>3. ASSUME NEW t \in Thread, Lock(t)
      PROVE  TypeInv'
  <2>1. /\ pc[t] = "lock" /\ pc' = [pc EXCEPT ![t] = "load"]
        /\ mutex[ProcessOf[t]] = Free
        /\ mutex' = [mutex EXCEPT ![ProcessOf[t]] = t]
        /\ UNCHANGED <<now, disk, tmp, call, mem, fd, acked, listed, kills>>
    BY <1>3 DEF Lock, Goto
  <2>2. MemoryTypes'
    BY <1>1, <2>1 DEF MemoryTypes
  <2>3. \A u \in Thread : Holds(u)' /\ Serves(u)'
    <3>. SUFFICES ASSUME NEW u \in Thread PROVE Holds(u)' /\ Serves(u)'
      OBVIOUS
    <3>1. Free # u
      BY ProcessAssumption
    <3>2. QED
      BY <1>1, <2>1, <3>1 DEF MemoryTypes, Holds, Serves, Critical, Saving
  <2>4. QED
    BY <1>1, <2>1, <2>2, <2>3, NextTypeParts
<1>4. ASSUME NEW t \in Thread, Load(t)
      PROVE  TypeInv'
  <2>1. /\ pc[t] = "load" /\ pc' = [pc EXCEPT ![t] = "open"]
        /\ Loads /\ call[t] # ListCall /\ Saves(call[t])
        /\ mem' = [mem EXCEPT ![t] = Result(FileOf(disk), call[t])]
        /\ UNCHANGED <<now, disk, tmp, mutex, call, fd, acked, listed, kills>>
    BY <1>4 DEF Load, Goto
  <2>2. call[t] \in Call
    BY <1>1, <2>1 DEF Serves
  <2>3. Result(FileOf(disk), call[t]) \in File
    BY <1>1, <2>1, <2>2, DecodedType, ValidUnique, ResultTypes DEF Loads, Saves
  <2>4. MemoryTypes'
    BY <1>1, <2>1, <2>3 DEF MemoryTypes
  <2>5. \A u \in Thread : Holds(u)' /\ Serves(u)'
    BY <1>1, <2>1, <2>2 DEF MemoryTypes, Holds, Serves, Critical, Saving
  <2>6. QED
    BY <1>1, <2>1, <2>4, <2>5, NextTypeParts
<1>5. ASSUME NEW t \in Thread, Refuse(t) \/ SystemError(t)
      PROVE  TypeInv'
  <2>1. Critical(t) /\ Return(t) /\ UNCHANGED <<now, disk, tmp, fd, acked, listed, kills>>
    BY <1>5 DEF Refuse, SystemError, Critical
  <2>2. QED
    BY <1>1, <2>1, ReturnTypes, NextTypeParts
<1>6. ASSUME NEW t \in Thread, List(t)
      PROVE  TypeInv'
  <2>1. /\ Critical(t) /\ Return(t) /\ Decodes(disk)
        /\ listed' = [listed EXCEPT ![t] = FileOf(disk)]
        /\ UNCHANGED <<now, disk, tmp, fd, acked, kills>>
    BY <1>6 DEF List, Critical, Loads
  <2>2. listed' \in [Thread -> File]
    BY <1>1, <2>1, DecodedType
  <2>3. QED
    BY <1>1, <2>1, <2>2, ReturnTypes, NextTypeParts
<1>7. ASSUME NEW t \in Thread, Open(t)
      PROVE  TypeInv'
  <2>1. /\ pc[t] = "open" /\ pc' = [pc EXCEPT ![t] = "write"]
        /\ tmp' = Empty /\ fd' = [fd EXCEPT ![t] = "tmp"]
        /\ UNCHANGED <<now, disk, mutex, call, mem, acked, listed, kills>>
    BY <1>7 DEF Open, Goto
  <2>2. MemoryTypes'
    BY <1>1, <2>1 DEF MemoryTypes
  <2>3. \A u \in Thread : Holds(u)' /\ Serves(u)'
    BY <1>1, <2>1 DEF MemoryTypes, Holds, Serves, Critical, Saving
  <2>4. tmp' \in Content /\ fd' \in [Thread -> {"tmp", "disk", "gone", "none"}]
    BY <1>1, <2>1 DEF Content
  <2>5. QED
    BY <1>1, <2>1, <2>2, <2>3, <2>4, NextTypeParts
<1>8. ASSUME NEW t \in Thread, Write(t)
      PROVE  TypeInv'
  <2>1. /\ pc[t] = "write" /\ pc' = [pc EXCEPT ![t] = "rename"]
        /\ fd' = [fd EXCEPT ![t] = "none"]
        /\ UNCHANGED <<now, mutex, call, mem, acked, listed, kills>>
    BY <1>8 DEF Write, Goto
  <2>2. PICK content \in {mem[t], Garbled} : Put(t, content)
    BY <1>8 DEF Write
  <2>3. content \in Content
    BY <1>1 DEF MemoryTypes, Content
  <2>4. tmp' \in Content /\ disk' \in Content
    BY <1>1, <2>2, <2>3 DEF Put
  <2>5. MemoryTypes'
    BY <1>1, <2>1 DEF MemoryTypes
  <2>6. \A u \in Thread : Holds(u)' /\ Serves(u)'
    BY <1>1, <2>1 DEF MemoryTypes, Holds, Serves, Critical, Saving
  <2>7. fd' \in [Thread -> {"tmp", "disk", "gone", "none"}]
    BY <1>1, <2>1
  <2>8. QED
    BY <1>1, <2>1, <2>4, <2>5, <2>6, <2>7, NextTypeParts
<1>9. ASSUME NEW t \in Thread, WriteFails(t)
      PROVE  TypeInv'
  <2>1. /\ Critical(t) /\ Return(t) /\ Put(t, Garbled)
        /\ fd' = [fd EXCEPT ![t] = "none"]
        /\ UNCHANGED <<now, acked, listed, kills>>
    BY <1>9 DEF WriteFails, Critical
  <2>2. tmp' \in Content /\ disk' \in Content
    BY <1>1, <2>1 DEF Put, Content
  <2>3. fd' \in [Thread -> {"tmp", "disk", "gone", "none"}]
    BY <1>1, <2>1
  <2>4. QED
    BY <1>1, <2>1, <2>2, <2>3, ReturnTypes, NextTypeParts
<1>10. ASSUME NEW t \in Thread, Rename(t)
       PROVE  TypeInv'
  <2>1. /\ pc[t] = "rename" /\ Critical(t) /\ Return(t)
        /\ disk' = tmp /\ tmp' = NoFile
        /\ fd' = [u \in Thread |-> Moved(fd[u])]
        /\ acked' = acked \cup {call[t]}
        /\ UNCHANGED <<now, listed, kills>>
    BY <1>10 DEF Rename, Critical
  <2>2. call[t] \in Call
    BY <1>1, <2>1 DEF Serves, Saving
  <2>3. tmp' \in Content
    BY <2>1 DEF Content
  <2>4. \A u \in Thread : Moved(fd[u]) \in {"tmp", "disk", "gone", "none"}
    BY <1>1 DEF Moved
  <2>5. fd' \in [Thread -> {"tmp", "disk", "gone", "none"}]
    BY <2>1, <2>4
  <2>6. QED
    BY <1>1, <2>1, <2>2, <2>3, <2>5, ReturnTypes, NextTypeParts
<1>11. ASSUME NEW p \in Process, Kill(p)
       PROVE  TypeInv'
  <2>1. /\ kills' = kills + 1
        /\ pc' = [t \in Thread |-> IF ProcessOf[t] = p THEN "idle" ELSE pc[t]]
        /\ call' = [t \in Thread |-> IF ProcessOf[t] = p THEN NoCall ELSE call[t]]
        /\ mem' = [t \in Thread |-> IF ProcessOf[t] = p THEN EmptyFile ELSE mem[t]]
        /\ fd' = [t \in Thread |-> IF ProcessOf[t] = p THEN "none" ELSE fd[t]]
        /\ mutex' = [mutex EXCEPT ![p] = Free]
        /\ UNCHANGED <<now, disk, tmp, acked, listed>>
    BY <1>11 DEF Kill
  <2>2. MemoryTypes'
    BY <1>1, <2>1, EmptyFileType DEF MemoryTypes
  <2>3. fd' \in [Thread -> {"tmp", "disk", "gone", "none"}]
    BY <1>1, <2>1
  <2>4. \A u \in Thread : Holds(u)' /\ Serves(u)'
    <3>. SUFFICES ASSUME NEW u \in Thread PROVE Holds(u)' /\ Serves(u)'
      OBVIOUS
    <3>1. Free # u
      BY ProcessAssumption
    <3>2. QED
      BY <1>1, <2>1, <3>1 DEF MemoryTypes, Holds, Serves, Critical, Saving
  <2>5. QED
    BY <1>1, <2>1, <2>2, <2>3, <2>4, NextTypeParts
<1>12. CASE Tick
  <2>1. now' = now + 1 /\ UNCHANGED <<disk, tmp, memory, acked, listed, kills>>
    BY <1>12 DEF Tick
  <2>2. MemoryTypes' /\ \A u \in Thread : Holds(u)' /\ Serves(u)'
    BY <1>1, <2>1 DEF memory, MemoryTypes, Holds, Serves, Critical, Saving
  <2>3. QED
    BY <1>1, <2>1, <2>2, NextTypeParts DEF memory
<1>13. CASE UNCHANGED vars
  <2>1. MemoryTypes' /\ \A u \in Thread : Holds(u)' /\ Serves(u)'
    BY <1>1, <1>13 DEF vars, MemoryTypes, Holds, Serves, Critical, Saving
  <2>2. QED
    BY <1>1, <1>13, <2>1, NextTypeParts DEF vars
<1>14. QED
  BY <1>2, <1>3, <1>4, <1>5, <1>6, <1>7, <1>8, <1>9, <1>10, <1>11, <1>12, <1>13
     DEF Next, Step

\* The types hold, and of the threads of a process the one that is between
\* the load and the rename of an operation holds the mutex, so there is at
\* most one: whatever is killed, whatever fails.
THEOREM Types == Spec => []TypeOK
<1>1. Init => TypeInv
  BY TypesInit
<1>2. TypeInv /\ [Next]_vars => TypeInv'
  BY TypesStep
<1>3. TypeInv => TypeOK
  BY DEF TypeInv
<1>. QED
  BY <1>1, <1>2, <1>3, PTL DEF Spec, Safety
(***************************************************************************)
(* One process that writes                                                 *)
(***************************************************************************)
OneWriter == \A t, u \in Thread \ Readers : ProcessOf[t] = ProcessOf[u]

\* A thread that only lists carries no other call.
ListsOnly(t) == pc[t] # "idle" => call[t] = ListCall

\* What a thread is about to save is what its call makes of the file as it
\* still is; the temporary file is its own from the open to the rename.
SavesWhatItLoaded(t) ==
  /\ fd[t] = IF pc[t] = "write" THEN "tmp" ELSE "none"
  /\ pc[t] = "write" => tmp = Empty
  /\ pc[t] = "rename" => tmp = mem[t]
  /\ Saving(t) => Saves(call[t]) /\ mem[t] = Result(FileOf(disk), call[t])

\* A call that a thread serves is one its caller could make of the file.
WasSampled(t) ==
  pc[t] # "idle" /\ call[t] \in Call =>
    \E at \in 0..now : call[t] \in Calls(FileOf(disk), at)

WriterInv ==
  /\ TypeInv
  /\ Loads
  /\ \A t \in Readers : ListsOnly(t)
  /\ \A t \in Thread : SavesWhatItLoaded(t)
  /\ \A t \in Thread : WasSampled(t)

\* One thread at a time is between the open of a save and its rename.
LEMMA OneSaver ==
  ASSUME OneWriter, WriterInv, NEW t \in Thread, NEW u \in Thread, Saving(t), Saving(u)
  PROVE  t = u
<1>1. \A x \in Thread : Holds(x) /\ Serves(x)
  BY TypeParts DEF WriterInv, TypeInv
<1>2. t \notin Readers /\ u \notin Readers
  BY <1>1, ListIsNoCall DEF WriterInv, ListsOnly, Serves, Saving
<1>3. mutex[ProcessOf[t]] = t /\ mutex[ProcessOf[u]] = u
  BY <1>1 DEF Holds, Critical, Saving
<1>. QED
  BY <1>2, <1>3 DEF OneWriter

LEMMA WriterInit == Init => WriterInv
<1>. SUFFICES ASSUME Init PROVE WriterInv
  OBVIOUS
<1>1. TypeInv
  BY TypesInit
<1>2. Loads
  BY ProcessAssumption
     DEF Init, Loads, Decodes, FileOf, EmptyFile, ValidFile, UniqueIDs, ValidGrantSet,
         Acyclic, Approved
<1>3. \A t \in Thread : ListsOnly(t) /\ SavesWhatItLoaded(t) /\ WasSampled(t)
  BY DEF Init, ListsOnly, SavesWhatItLoaded, WasSampled, Saving
<1>. QED
  BY <1>1, <1>2, <1>3, ProcessAssumption DEF WriterInv

\* A thread that returns without having touched the disk keeps what the
\* others rely on.
LEMMA ReturnKeepsWriter ==
  ASSUME WriterInv, NEW t \in Thread, Critical(t), pc[t] # "write", Return(t),
         UNCHANGED <<now, disk, tmp, fd>>
  PROVE  /\ Loads'
         /\ \A u \in Thread : SavesWhatItLoaded(u)' /\ WasSampled(u)'
         /\ \A u \in Readers : ListsOnly(u)'
<1>1. /\ MemoryTypes
      /\ fd \in [Thread -> {"tmp", "disk", "gone", "none"}]
  BY TypeParts DEF WriterInv, TypeInv
<1>2. /\ pc' = [pc EXCEPT ![t] = "idle"]
      /\ call' = [call EXCEPT ![t] = NoCall]
      /\ mem' = [mem EXCEPT ![t] = EmptyFile]
  BY DEF Return
<1>3. Loads'
  BY DEF WriterInv, Loads, Decodes
<1>4. ASSUME NEW u \in Thread
      PROVE  SavesWhatItLoaded(u)' /\ WasSampled(u)' /\ (u \in Readers => ListsOnly(u)')
  <2>1. CASE u = t
    <3>1. pc'[u] = "idle" /\ fd'[u] = "none"
      BY <1>1, <1>2, <2>1 DEF MemoryTypes, WriterInv, SavesWhatItLoaded
    <3>2. QED
      BY <3>1 DEF SavesWhatItLoaded, WasSampled, ListsOnly, Saving
  <2>2. CASE u # t
    <3>1. pc'[u] = pc[u] /\ call'[u] = call[u] /\ mem'[u] = mem[u]
      BY <1>1, <1>2, <2>2 DEF MemoryTypes
    <3>2. QED
      BY <3>1 DEF WriterInv, SavesWhatItLoaded, WasSampled, ListsOnly, Saving, Saves
  <2>3. QED
    BY <2>1, <2>2
<1>5. QED
  BY <1>3, <1>4, ProcessAssumption
\* A rename puts on the disk what the call makes of the file that is there.
LEMMA RenameSaves ==
  ASSUME WriterInv, NEW t \in Thread, Rename(t)
  PROVE  /\ call[t] \in Call /\ Decodes(disk) /\ FileOf(disk) \in File
         /\ UniqueIDs(FileOf(disk).requests) /\ UniqueIDs(FileOf(disk).grants)
         /\ Accepts(FileOf(disk), call[t])
         /\ disk' \in File /\ Loads'
         /\ FileOf(disk') = Result(FileOf(disk), call[t])
<1>1. pc[t] = "rename" /\ disk' = tmp
  BY DEF Rename
<1>2. call[t] \in Call /\ disk \in Content
  BY <1>1, TypeParts DEF WriterInv, TypeInv, Serves, Saving
<1>3. /\ tmp = mem[t] /\ mem[t] = Result(FileOf(disk), call[t])
      /\ Accepts(FileOf(disk), call[t]) /\ ValidFile(Result(FileOf(disk), call[t]))
  BY <1>1 DEF WriterInv, SavesWhatItLoaded, Saving, Saves
<1>4. Decodes(disk) /\ ValidFile(FileOf(disk))
  BY DEF WriterInv, Loads
<1>5. FileOf(disk) \in File
  BY <1>2, <1>4, DecodedType
<1>6. UniqueIDs(FileOf(disk).requests) /\ UniqueIDs(FileOf(disk).grants)
  BY <1>4, ValidUnique
<1>7. disk' \in File
  BY <1>1, <1>2, <1>3, <1>5, <1>6, ResultTypes
<1>8. Decodes(disk') /\ FileOf(disk') = disk'
  BY <1>7, ProcessAssumption DEF Decodes, FileOf
<1>. QED
  BY <1>1, <1>2, <1>3, <1>4, <1>5, <1>6, <1>7, <1>8 DEF Loads

LEMMA WriterStep == OneWriter /\ WriterInv /\ [Next]_vars => WriterInv'
<1>. SUFFICES ASSUME OneWriter, WriterInv, [Next]_vars PROVE WriterInv'
  OBVIOUS
<1>1. TypeInv'
  BY TypesStep DEF WriterInv
<1>2. /\ MemoryTypes /\ now \in Nat /\ Readers \subseteq Thread
      /\ fd \in [Thread -> {"tmp", "disk", "gone", "none"}]
      /\ \A t \in Thread : Serves(t) /\ SavesWhatItLoaded(t) /\ WasSampled(t)
      /\ \A t \in Readers : ListsOnly(t)
      /\ Loads /\ disk \in Content
  BY TypeParts, ProcessAssumption DEF WriterInv, TypeInv
<1>3. ASSUME NEW t \in Thread, Begin(t)
      PROVE  WriterInv'
  <2>1. /\ pc[t] = "idle" /\ pc' = [pc EXCEPT ![t] = "lock"]
        /\ UNCHANGED <<now, disk, tmp, mutex, mem, fd, acked, listed, kills>>
    BY <1>3 DEF Begin, Goto
  <2>2. PICK op : /\ call' = [call EXCEPT ![t] = op]
                  /\ op \in IF t \in Readers THEN {ListCall}
                            ELSE IF Decodes(disk) THEN Calls(FileOf(disk), now) ELSE {}
    BY <1>3 DEF Begin
  <2>3. op = ListCall \/ op \in Calls(FileOf(disk), now)
    BY <2>2
  <2>4. Loads'
    BY <1>2, <2>1 DEF Loads, Decodes
  <2>5. ASSUME NEW u \in Thread
        PROVE  SavesWhatItLoaded(u)' /\ WasSampled(u)' /\ (u \in Readers => ListsOnly(u)')
    <3>1. CASE u = t
      <4>1. pc'[u] = "lock" /\ call'[u] = op /\ fd'[u] = "none"
        BY <1>2, <2>1, <2>2, <3>1 DEF MemoryTypes, SavesWhatItLoaded
      <4>2. now \in 0..now
        BY <1>2
      <4>3. WasSampled(u)'
        BY <2>1, <2>3, <4>1, <4>2, ListIsNoCall DEF WasSampled
      <4>4. QED
        BY <2>2, <3>1, <4>1, <4>3 DEF SavesWhatItLoaded, ListsOnly, Saving
    <3>2. CASE u # t
      <4>1. pc'[u] = pc[u] /\ call'[u] = call[u]
        BY <1>2, <2>1, <2>2, <3>2 DEF MemoryTypes
      <4>2. QED
        BY <1>2, <2>1, <4>1 DEF SavesWhatItLoaded, WasSampled, ListsOnly, Saving, Saves
    <3>3. QED
      BY <3>1, <3>2
  <2>6. QED
    BY <1>1, <1>2, <2>4, <2>5 DEF WriterInv
<1>4. ASSUME NEW t \in Thread, Lock(t)
      PROVE  WriterInv'
  <2>1. /\ pc[t] = "lock" /\ pc' = [pc EXCEPT ![t] = "load"]
        /\ UNCHANGED <<now, disk, tmp, call, mem, fd, acked, listed, kills>>
    BY <1>4 DEF Lock, Goto
  <2>2. Loads'
    BY <1>2, <2>1 DEF Loads, Decodes
  <2>3. \A u \in Thread :
          SavesWhatItLoaded(u)' /\ WasSampled(u)' /\ (u \in Readers => ListsOnly(u)')
    BY <1>2, <2>1 DEF MemoryTypes, SavesWhatItLoaded, WasSampled, ListsOnly, Saving, Saves
  <2>4. QED
    BY <1>1, <1>2, <2>2, <2>3 DEF WriterInv
<1>5. ASSUME NEW t \in Thread, Load(t)
      PROVE  WriterInv'
  <2>1. /\ pc[t] = "load" /\ pc' = [pc EXCEPT ![t] = "open"] /\ Saves(call[t])
        /\ mem' = [mem EXCEPT ![t] = Result(FileOf(disk), call[t])]
        /\ UNCHANGED <<now, disk, tmp, mutex, call, fd, acked, listed, kills>>
    BY <1>5 DEF Load, Goto
  <2>2. Loads'
    BY <1>2, <2>1 DEF Loads, Decodes
  <2>3. \A u \in Thread : SavesWhatItLoaded(u)'
    BY <1>2, <2>1 DEF MemoryTypes, SavesWhatItLoaded, Saving, Saves
  <2>4. \A u \in Thread : WasSampled(u)' /\ (u \in Readers => ListsOnly(u)')
    BY <1>2, <2>1 DEF MemoryTypes, WasSampled, ListsOnly
  <2>5. QED
    BY <1>1, <1>2, <2>2, <2>3, <2>4 DEF WriterInv
<1>6. ASSUME NEW t \in Thread, Refuse(t) \/ SystemError(t) \/ List(t)
      PROVE  WriterInv'
  <2>1. Critical(t) /\ pc[t] # "write" /\ Return(t) /\ UNCHANGED <<now, disk, tmp, fd>>
    BY <1>6 DEF Refuse, SystemError, List, Critical
  <2>2. QED
    BY <1>1, <2>1, ReturnKeepsWriter DEF WriterInv
<1>7. ASSUME NEW t \in Thread, Open(t)
      PROVE  WriterInv'
  <2>1. /\ pc[t] = "open" /\ pc' = [pc EXCEPT ![t] = "write"]
        /\ tmp' = Empty /\ fd' = [fd EXCEPT ![t] = "tmp"]
        /\ UNCHANGED <<now, disk, mutex, call, mem, acked, listed, kills>>
    BY <1>7 DEF Open, Goto
  <2>2. Loads'
    BY <1>2, <2>1 DEF Loads, Decodes
  <2>3. \A u \in Thread : u # t => ~Saving(u)
    BY <2>1, OneSaver DEF Saving
  <2>4. \A u \in Thread : SavesWhatItLoaded(u)'
    BY <1>2, <2>1, <2>3 DEF MemoryTypes, SavesWhatItLoaded, Saving, Saves
  <2>5. \A u \in Thread : WasSampled(u)' /\ (u \in Readers => ListsOnly(u)')
    BY <1>2, <2>1 DEF MemoryTypes, WasSampled, ListsOnly
  <2>6. QED
    BY <1>1, <1>2, <2>2, <2>4, <2>5 DEF WriterInv
<1>8. ASSUME NEW t \in Thread, Write(t)
      PROVE  WriterInv'
  <2>1. /\ pc[t] = "write" /\ pc' = [pc EXCEPT ![t] = "rename"]
        /\ fd' = [fd EXCEPT ![t] = "none"]
        /\ UNCHANGED <<now, mutex, call, mem, acked, listed, kills>>
    BY <1>8 DEF Write, Goto
  <2>2. fd[t] = "tmp" /\ tmp = Empty
    BY <1>2, <2>1 DEF SavesWhatItLoaded
  <2>3. tmp' = mem[t] /\ disk' = disk
    BY <1>8, <2>2 DEF Write, Target, Put
  <2>4. Loads'
    BY <1>2, <2>3 DEF Loads, Decodes
  <2>5. \A u \in Thread : u # t => ~Saving(u)
    BY <2>1, OneSaver DEF Saving
  <2>6. \A u \in Thread : SavesWhatItLoaded(u)'
    BY <1>2, <2>1, <2>3, <2>5 DEF MemoryTypes, SavesWhatItLoaded, Saving, Saves
  <2>7. \A u \in Thread : WasSampled(u)' /\ (u \in Readers => ListsOnly(u)')
    BY <1>2, <2>1, <2>3 DEF MemoryTypes, WasSampled, ListsOnly
  <2>8. QED
    BY <1>1, <1>2, <2>4, <2>6, <2>7 DEF WriterInv
<1>9. ASSUME NEW t \in Thread, WriteFails(t)
      PROVE  WriterInv'
  <2>1. /\ pc[t] = "write" /\ Return(t) /\ Put(t, Garbled)
        /\ fd' = [fd EXCEPT ![t] = "none"] /\ now' = now
    BY <1>9 DEF WriteFails
  <2>2. fd[t] = "tmp"
    BY <1>2, <2>1 DEF SavesWhatItLoaded
  <2>3. disk' = disk
    BY <2>1, <2>2 DEF Put
  <2>4. /\ pc' = [pc EXCEPT ![t] = "idle"]
        /\ call' = [call EXCEPT ![t] = NoCall]
        /\ mem' = [mem EXCEPT ![t] = EmptyFile]
    BY <2>1 DEF Return
  <2>5. Loads'
    BY <1>2, <2>3 DEF Loads, Decodes
  <2>6. \A u \in Thread : u # t => ~Saving(u)
    BY <2>1, OneSaver DEF Saving
  <2>7. \A u \in Thread : SavesWhatItLoaded(u)'
    BY <1>2, <2>1, <2>4, <2>6 DEF MemoryTypes, SavesWhatItLoaded, Saving
  <2>8. \A u \in Thread : WasSampled(u)' /\ (u \in Readers => ListsOnly(u)')
    BY <1>2, <2>1, <2>3, <2>4 DEF MemoryTypes, WasSampled, ListsOnly
  <2>9. QED
    BY <1>1, <1>2, <2>5, <2>7, <2>8 DEF WriterInv
<1>10. ASSUME NEW t \in Thread, Rename(t)
       PROVE  WriterInv'
  <2>1. /\ pc[t] = "rename" /\ Return(t) /\ now' = now
        /\ fd' = [u \in Thread |-> Moved(fd[u])]
    BY <1>10 DEF Rename
  <2>2. /\ pc' = [pc EXCEPT ![t] = "idle"]
        /\ call' = [call EXCEPT ![t] = NoCall]
    BY <2>1 DEF Return
  <2>3. /\ Loads' /\ FileOf(disk') = Result(FileOf(disk), call[t])
        /\ FileOf(disk) \in File /\ call[t] \in Call
        /\ UniqueIDs(FileOf(disk).requests) /\ UniqueIDs(FileOf(disk).grants)
        /\ Accepts(FileOf(disk), call[t])
    BY <1>10, RenameSaves
  <2>4. \A u \in Thread : u # t => ~Saving(u)
    BY <2>1, OneSaver DEF Saving
  <2>5. \A u \in Thread : fd'[u] = "none" /\ ~Saving(u)'
    BY <1>2, <2>1, <2>2, <2>4 DEF MemoryTypes, SavesWhatItLoaded, Saving, Moved
  <2>6. \A u \in Thread : SavesWhatItLoaded(u)'
    BY <2>5 DEF SavesWhatItLoaded, Saving
  <2>7. ASSUME NEW u \in Thread
        PROVE  WasSampled(u)'
    <3>1. CASE pc'[u] = "idle"
      BY <3>1 DEF WasSampled
    <3>2. CASE u # t /\ pc[u] # "idle" /\ call[u] \in Call
      <4>1. PICK at \in 0..now : call[u] \in Calls(FileOf(disk), at)
        BY <1>2, <3>2 DEF WasSampled
      <4>2. at \in Nat
        BY <1>2
      <4>3. call[u] \in Calls(FileOf(disk'), at)
        BY <2>3, <4>1, <4>2, CallsAreKept
      <4>4. call'[u] = call[u]
        BY <1>2, <2>2, <3>2 DEF MemoryTypes
      <4>5. QED
        BY <2>1, <4>1, <4>3, <4>4 DEF WasSampled
    <3>3. CASE u # t /\ ~(pc[u] # "idle" /\ call[u] \in Call)
      BY <1>2, <2>2, <3>3 DEF MemoryTypes, WasSampled
    <3>4. QED
      BY <1>2, <2>2, <3>1, <3>2, <3>3 DEF MemoryTypes
  <2>8. \A u \in Readers : ListsOnly(u)'
    BY <1>2, <2>2 DEF MemoryTypes, ListsOnly
  <2>9. QED
    BY <1>1, <2>3, <2>6, <2>7, <2>8 DEF WriterInv
<1>11. ASSUME NEW p \in Process, Kill(p)
       PROVE  WriterInv'
  <2>1. /\ pc' = [t \in Thread |-> IF ProcessOf[t] = p THEN "idle" ELSE pc[t]]
        /\ call' = [t \in Thread |-> IF ProcessOf[t] = p THEN NoCall ELSE call[t]]
        /\ mem' = [t \in Thread |-> IF ProcessOf[t] = p THEN EmptyFile ELSE mem[t]]
        /\ fd' = [t \in Thread |-> IF ProcessOf[t] = p THEN "none" ELSE fd[t]]
        /\ UNCHANGED <<now, disk, tmp>>
    BY <1>11 DEF Kill
  <2>2. Loads'
    BY <1>2, <2>1 DEF Loads, Decodes
  <2>3. \A u \in Thread : SavesWhatItLoaded(u)'
    BY <1>2, <2>1 DEF SavesWhatItLoaded, Saving, Saves
  <2>4. \A u \in Thread : WasSampled(u)' /\ (u \in Readers => ListsOnly(u)')
    BY <1>2, <2>1 DEF WasSampled, ListsOnly
  <2>5. QED
    BY <1>1, <1>2, <2>2, <2>3, <2>4 DEF WriterInv
<1>12. CASE Tick
  <2>1. now' = now + 1 /\ UNCHANGED <<disk, tmp, pc, call, mem, fd>>
    BY <1>12 DEF Tick, memory
  <2>2. Loads'
    BY <1>2, <2>1 DEF Loads, Decodes
  <2>3. \A u \in Thread : SavesWhatItLoaded(u)' /\ (u \in Readers => ListsOnly(u)')
    BY <1>2, <2>1 DEF SavesWhatItLoaded, ListsOnly, Saving, Saves
  <2>4. 0..now \subseteq 0..now'
    BY <1>2, <2>1
  <2>5. \A u \in Thread : WasSampled(u)'
    BY <1>2, <2>1, <2>4 DEF WasSampled
  <2>6. QED
    BY <1>1, <1>2, <2>2, <2>3, <2>5 DEF WriterInv
<1>13. CASE UNCHANGED vars
  <2>1. Loads'
    BY <1>2, <1>13 DEF vars, Loads, Decodes
  <2>2. \A u \in Thread :
          SavesWhatItLoaded(u)' /\ WasSampled(u)' /\ (u \in Readers => ListsOnly(u)')
    BY <1>2, <1>13 DEF vars, SavesWhatItLoaded, WasSampled, ListsOnly, Saving, Saves
  <2>3. QED
    BY <1>1, <1>2, <2>1, <2>2 DEF WriterInv
<1>14. QED
  BY <1>3, <1>4, <1>5, <1>6, <1>7, <1>8, <1>9, <1>10, <1>11, <1>12, <1>13 DEF Next, Step

\* authorization.json is absent or a complete, valid file at every moment,
\* whatever thread is killed or fails on its way through a save.
THEOREM FileAlwaysLoads == OneWriter => (Spec => []FileLoads)
<1>. SUFFICES ASSUME OneWriter PROVE Spec => []FileLoads
  OBVIOUS
<1>1. Init => WriterInv
  BY WriterInit
<1>2. WriterInv /\ [Next]_vars => WriterInv'
  BY WriterStep
<1>3. WriterInv => FileLoads
  BY DEF WriterInv, FileLoads
<1>. QED
  BY <1>1, <1>2, <1>3, PTL DEF Spec, Safety

(***************************************************************************)
(* Durability                                                              *)
(***************************************************************************)
\* An accepted call is durable in the file it makes.
LEMMA AcceptedIsDurable ==
  ASSUME NEW f \in File, NEW op \in Call, Accepts(f, op),
         UniqueIDs(f.requests), UniqueIDs(f.grants)
  PROVE  Durable(Result(f, op), op)
<1>1. CASE op.kind = "add"
  BY <1>1, AddShape DEF Durable
<1>2. CASE op.kind = "create"
  BY <1>2, CreateShape DEF Durable
<1>3. CASE op.kind \in {"approve", "deny"}
  <2>1. op \in DecideCall
    BY <1>3, CallKinds
  <2>2. PICK r \in f.requests :
          r.id = op.id /\ Result(f, op).requests = (f.requests \ {r}) \cup {Settled(r, op)}
    BY <1>3, DecideShape
  <2>3. r \in AuthorizationRequest
    BY <2>2 DEF File
  <2>4. /\ Settled(r, op).id = op.id /\ Settled(r, op).decidedAt = op.at
        /\ Settled(r, op).status = Verdict(r, op)
    BY <2>1, <2>2, <2>3, SettledType
  <2>5. Verdict(Settled(r, op), op) = Verdict(r, op)
    BY <2>3 DEF Verdict, Settled, AuthorizationRequest
  <2>6. QED
    BY <1>3, <2>2, <2>4, <2>5 DEF Durable
<1>4. CASE op.kind = "revoke"
  <2>1. op.at \in Nat
    BY <1>4, CallKinds DEF RevokeCall
  <2>2. PICK g \in f.grants :
          /\ g.id = op.id
          /\ Result(f, op).grants = (f.grants \ {g}) \cup {[g EXCEPT !.revokedAt = op.at]}
    BY <1>4, RevokeShape
  <2>3. [g EXCEPT !.revokedAt = op.at].id = op.id
        /\ [g EXCEPT !.revokedAt = op.at].revokedAt = op.at
    BY <2>1, <2>2, RevokedFields DEF File
  <2>4. QED
    BY <1>4, <2>2, <2>3 DEF Durable
<1>. QED
  BY <1>1, <1>2, <1>3, <1>4, CallKinds

\* What is durable in a file is durable in what any accepted call makes of it.
LEMMA DurableIsKept ==
  ASSUME NEW f \in File, NEW op \in Call, Accepts(f, op),
         UniqueIDs(f.requests), UniqueIDs(f.grants),
         NEW done \in Call, Durable(f, done)
  PROVE  Durable(Result(f, op), done)
<1>1. CASE done.kind = "add"
  BY <1>1, AppsAreKept DEF Durable
<1>2. CASE done.kind = "create"
  BY <1>2, RequestsAreKept DEF Durable
<1>3. CASE done.kind \in {"approve", "deny"}
  <2>1. PICK r \in f.requests :
          r.id = done.id /\ r.decidedAt = done.at /\ r.status = Verdict(r, done)
    BY <1>3 DEF Durable
  <2>2. r.status # "pending"
    BY <2>1 DEF Verdict
  <2>3. r \in Result(f, op).requests
    BY <2>2, RequestsAreKept
  <2>4. QED
    BY <1>3, <2>1, <2>3 DEF Durable
<1>4. CASE done.kind = "revoke"
  <2>1. PICK g \in f.grants : g.id = done.id /\ g.revokedAt = done.at
    BY <1>4 DEF Durable
  <2>2. g.revokedAt # NoTime
    BY <1>4, <2>1, CallKinds, AbsentAssumption DEF RevokeCall
  <2>3. g \in Result(f, op).grants
    BY <2>2, GrantsAreKept
  <2>4. QED
    BY <1>4, <2>1, <2>3 DEF Durable
<1>. QED
  BY <1>1, <1>2, <1>3, <1>4, CallKinds

LEMMA ShownIsKept ==
  ASSUME NEW f \in File, NEW op \in Call, Accepts(f, op),
         UniqueIDs(f.requests), UniqueIDs(f.grants), NEW g, Shows(f, g)
  PROVE  Shows(Result(f, op), g)
<1>1. PICK h \in f.grants : h.id = g.id /\ (g.revokedAt # NoTime => h.revokedAt = g.revokedAt)
  BY DEF Shows
<1>2. PICK k \in Result(f, op).grants : k.id = h.id /\ (h.revokedAt # NoTime => k = h)
  BY GrantsAreKept
<1>. QED
  BY <1>1, <1>2 DEF Shows

\* The disk changes by a rename and by nothing else: a step that leaves it
\* alone, or the save of the call that the thread answers.
LEMMA OnlyRenameSaves ==
  ASSUME WriterInv, [Next]_vars
  PROVE  \/ disk' = disk /\ acked' = acked
         \/ \E t \in Thread : Rename(t)
<1>1. \A t \in Thread : SavesWhatItLoaded(t)
  BY DEF WriterInv
<1>2. ASSUME NEW t \in Thread, Begin(t) \/ Lock(t) \/ SystemError(t) \/ List(t) \/ Load(t)
                                \/ Refuse(t) \/ Open(t)
      PROVE  disk' = disk /\ acked' = acked
  BY <1>2 DEF Begin, Lock, SystemError, List, Load, Refuse, Open
<1>3. ASSUME NEW t \in Thread, Write(t) \/ WriteFails(t)
      PROVE  disk' = disk /\ acked' = acked
  <2>1. fd[t] = "tmp"
    BY <1>1, <1>3 DEF Write, WriteFails, Goto, SavesWhatItLoaded
  <2>2. QED
    BY <1>3, <2>1 DEF Write, WriteFails, Put
<1>4. CASE (\E p \in Process : Kill(p)) \/ Tick \/ UNCHANGED vars
  BY <1>4 DEF Kill, Tick, vars
<1>. QED
  BY <1>2, <1>3, <1>4 DEF Next, Step

\* What a caller was told is settled stays settled, whatever other threads
\* of the writing process do, and whatever is killed: an operation that
\* overlaps another never undoes it.
THEOREM SettledStays == OneWriter => (Spec => []AckedIsDurable)
<1>. SUFFICES ASSUME OneWriter PROVE Spec => []AckedIsDurable
  OBVIOUS
<1>1. Init => WriterInv /\ AckedIsDurable
  BY WriterInit DEF Init, AckedIsDurable
<1>2. WriterInv /\ AckedIsDurable /\ [Next]_vars => (WriterInv /\ AckedIsDurable)'
  <2>. SUFFICES ASSUME WriterInv, AckedIsDurable, [Next]_vars PROVE AckedIsDurable'
    BY WriterStep
  <2>1. CASE disk' = disk /\ acked' = acked
    BY <2>1 DEF AckedIsDurable, Decodes
  <2>2. ASSUME NEW t \in Thread, Rename(t)
        PROVE  AckedIsDurable'
    <3>1. acked \subseteq Call /\ acked' = acked \cup {call[t]}
      BY <2>2, TypeParts DEF WriterInv, TypeInv, Rename
    <3>2. ASSUME NEW op \in acked'
          PROVE  Durable(FileOf(disk'), op)
      BY <2>2, <3>1, <3>2, RenameSaves, AcceptedIsDurable, DurableIsKept DEF AckedIsDurable
    <3>3. QED
      BY <3>2 DEF AckedIsDurable
  <2>3. QED
    BY <2>1, <2>2, OnlyRenameSaves
<1>. QED
  BY <1>1, <1>2, PTL DEF Spec, Safety

\* A grant that a list of the CLI or of the console showed is in the file
\* from then on, and its revocation is not taken back.
THEOREM ShownStays == OneWriter => (Spec => []ListsAreDurable)
<1>. SUFFICES ASSUME OneWriter PROVE Spec => []ListsAreDurable
  OBVIOUS
<1>1. Init => WriterInv /\ ListsAreDurable
  BY WriterInit, ProcessAssumption DEF Init, ListsAreDurable, EmptyFile
<1>2. WriterInv /\ ListsAreDurable /\ [Next]_vars => (WriterInv /\ ListsAreDurable)'
  <2>. SUFFICES ASSUME WriterInv, ListsAreDurable, [Next]_vars PROVE ListsAreDurable'
    BY WriterStep
  <2>1. Decodes(disk)
    BY DEF WriterInv, Loads
  <2>2. \A t \in Readers : \A g \in listed[t].grants : Shows(FileOf(disk), g)
    BY <2>1 DEF ListsAreDurable
  <2>3. ASSUME NEW t \in Thread, Rename(t)
        PROVE  ListsAreDurable'
    BY <2>2, <2>3, RenameSaves, ShownIsKept DEF ListsAreDurable, Rename
  <2>4. ASSUME NEW t \in Thread, List(t)
        PROVE  ListsAreDurable'
    <3>1. listed' = [listed EXCEPT ![t] = FileOf(disk)] /\ disk' = disk
      BY <2>4 DEF List
    <3>2. listed \in [Thread -> File] /\ Readers \subseteq Thread
      BY TypeParts, ProcessAssumption DEF WriterInv, TypeInv
    <3>3. \A g \in FileOf(disk).grants : Shows(FileOf(disk), g)
      BY DEF Shows
    <3>4. QED
      BY <2>2, <3>1, <3>2, <3>3 DEF ListsAreDurable
  <2>5. CASE disk' = disk /\ listed' = listed
    BY <2>2, <2>5 DEF ListsAreDurable
  <2>6. \/ \E t \in Thread : Rename(t) \/ List(t)
        \/ disk' = disk /\ listed' = listed
    <3>1. disk' = disk \/ \E t \in Thread : Rename(t)
      BY OnlyRenameSaves
    <3>2. listed' = listed \/ \E t \in Thread : List(t)
      BY DEF Next, Step, Begin, Lock, SystemError, Load, Refuse, Open, Write, WriteFails,
             Rename, Kill, Tick, vars
    <3>3. QED
      BY <3>1, <3>2
  <2>7. QED
    BY <2>3, <2>4, <2>5, <2>6
<1>. QED
  BY <1>1, <1>2, PTL DEF Spec, Safety
(***************************************************************************)
(* The atomic store                                                        *)
(***************************************************************************)
\* AuthzStore brings its own copies of the operators of AuthzFile, at the
\* same constants; they are the ones used here.
LEMMA SameValidity ==
  ASSUME NEW f
  PROVE  Store!ValidFile(f) <=> ValidFile(f)
<1>1. \A g : Store!ValidGrant(g) <=> ValidGrant(g)
  BY DEF Store!ValidGrant, ValidGrant
<1>2. \A p, q : Store!Covers(p, q) <=> Covers(p, q)
  BY DEF Store!Covers, Covers
<1>3. \A g, p : Store!ValidDerivedGrant(g, p) <=> ValidDerivedGrant(g, p)
  BY <1>1, <1>2 DEF Store!ValidDerivedGrant, ValidDerivedGrant
<1>4. \A gs : Store!Acyclic(gs) <=> Acyclic(gs)
  BY DEF Store!Acyclic, Acyclic
<1>5. \A gs : Store!ValidGrantSet(gs) <=> ValidGrantSet(gs)
  BY <1>1, <1>3, <1>4 DEF Store!ValidGrantSet, ValidGrantSet
<1>6. \A xs : Store!UniqueIDs(xs) <=> UniqueIDs(xs)
  BY DEF Store!UniqueIDs, UniqueIDs
<1>7. \A a : Store!ValidApplication(a) <=> ValidApplication(a)
  BY DEF Store!ValidApplication, ValidApplication
<1>8. \A r : Store!ValidRequest(r) <=> ValidRequest(r)
  BY DEF Store!ValidRequest, ValidRequest, Store!Status, Status
<1>9. \A app, perm : Store!Declared(f, app, perm) <=> Declared(f, app, perm)
  BY DEF Store!Declared, Declared
<1>10. Store!Approved(f) = Approved(f)
  BY DEF Store!Approved, Approved
<1>11. \A g, r : Store!Represents(g, r) <=> Represents(g, r)
  BY DEF Store!Represents, Represents
<1>. QED
  BY <1>5, <1>6, <1>7, <1>8, <1>9, <1>10, <1>11 DEF Store!ValidFile, ValidFile

LEMMA SameOperations ==
  ASSUME NEW f, NEW op
  PROVE  /\ Store!Accepts(f, op) <=> Accepts(f, op)
         /\ Store!Result(f, op) = Result(f, op)
<1>1. \A r : Store!Verdict(r, op) = Verdict(r, op)
  BY DEF Store!Verdict, Verdict
<1>2. \A r : Store!NewGrant(r, op) = NewGrant(r, op)
  BY DEF Store!NewGrant, NewGrant
<1>3. \A g : Store!ValidGrant(g) <=> ValidGrant(g)
  BY DEF Store!ValidGrant, ValidGrant
<1>4. Store!AcceptsAdd(f, op) <=> AcceptsAdd(f, op)
  BY DEF Store!AcceptsAdd, AcceptsAdd, Store!ValidApplication, ValidApplication
<1>5. Store!AcceptsCreate(f, op) <=> AcceptsCreate(f, op)
  BY DEF Store!AcceptsCreate, AcceptsCreate, Store!ValidRequest, ValidRequest,
         Store!Status, Status, Store!Declared, Declared
<1>6. Store!AcceptsDecide(f, op) <=> AcceptsDecide(f, op)
  BY <1>1, <1>2, <1>3 DEF Store!AcceptsDecide, AcceptsDecide
<1>7. Store!AcceptsRevoke(f, op) <=> AcceptsRevoke(f, op)
  BY DEF Store!AcceptsRevoke, AcceptsRevoke
<1>8. Store!DecideRequest(f, op) = DecideRequest(f, op)
  BY DEF Store!DecideRequest, DecideRequest, Store!Settled, Settled, Store!Verdict, Verdict,
         Store!NewGrant, NewGrant
<1>9. Store!RevokeGrant(f, op) = RevokeGrant(f, op)
  BY DEF Store!RevokeGrant, RevokeGrant
<1>10. /\ Store!AddApplication(f, op) = AddApplication(f, op)
       /\ Store!CreateRequest(f, op) = CreateRequest(f, op)
  BY DEF Store!AddApplication, AddApplication, Store!CreateRequest, CreateRequest
<1>11. Store!Accepts(f, op) <=> Accepts(f, op)
  BY <1>4, <1>5, <1>6, <1>7 DEF Store!Accepts, Accepts
<1>12. Store!Result(f, op) = Result(f, op)
  BY <1>8, <1>9, <1>10 DEF Store!Result, Result
<1>. QED
  BY <1>11, <1>12

LEMMA SameCalls ==
  ASSUME NEW f, NEW at
  PROVE  /\ Store!AddCalls = AddCalls
         /\ Store!CreateCalls(at) = CreateCalls(at)
         /\ Store!ApproveCalls(f, at) = ApproveCalls(f, at)
         /\ Store!DenyCalls(f, at) = DenyCalls(f, at)
         /\ Store!RevokeCalls(f, at) = RevokeCalls(f, at)
<1>1. Store!AddCalls = AddCalls
  BY DEF Store!AddCalls, AddCalls
<1>2. Store!CreateCalls(at) = CreateCalls(at)
  BY DEF Store!CreateCalls, CreateCalls, Store!NewRequest, NewRequest
<1>3. Store!ApproveCalls(f, at) = ApproveCalls(f, at)
  BY DEF Store!ApproveCalls, ApproveCalls
<1>4. Store!DenyCalls(f, at) = DenyCalls(f, at)
  BY DEF Store!DenyCalls, DenyCalls
<1>5. Store!RevokeCalls(f, at) = RevokeCalls(f, at)
  BY DEF Store!RevokeCalls, RevokeCalls
<1>. QED
  BY <1>1, <1>2, <1>3, <1>4, <1>5

\* A rename is the save of a call whose caller sampled its time at or before
\* now.
LEMMA RenameIsSave ==
  ASSUME WriterInv, NEW t \in Thread, Rename(t)
  PROVE  Store!Next
<1>. DEFINE f == FileOf(disk)
            op == call[t]
<1>1. pc[t] = "rename" /\ now' = now
  BY DEF Rename
<1>2. /\ op \in Call /\ Accepts(f, op) /\ FileOf(disk') = Result(f, op)
      /\ ValidFile(FileOf(disk'))
  BY RenameSaves DEF Loads
<1>3. PICK at \in 0..now : op \in Calls(f, at)
  BY <1>1, <1>2 DEF WriterInv, WasSampled
<1>4. Store!Save(op)
  BY <1>1, <1>2, SameOperations, SameValidity DEF Store!Save
<1>. HIDE DEF f, op
<1>5. CASE op \in AddCalls
  BY <1>4, <1>5, SameCalls DEF Store!Next, Store!Add
<1>6. CASE op \in CreateCalls(at)
  BY <1>4, <1>6, SameCalls DEF Store!Next, Store!Create
<1>7. CASE op \in ApproveCalls(f, at)
  BY <1>4, <1>7, SameCalls DEF Store!Next, Store!Approve, f
<1>8. CASE op \in DenyCalls(f, at)
  BY <1>4, <1>8, SameCalls DEF Store!Next, Store!Deny, f
<1>9. CASE op \in RevokeCalls(f, at)
  BY <1>4, <1>9, SameCalls DEF Store!Next, Store!Revoke, f
<1>. QED
  BY <1>3, <1>5, <1>6, <1>7, <1>8, <1>9 DEF Calls

\* One process with any number of threads that write, killed at any moment,
\* and any number of processes that only read, implement the atomic store:
\* a rename is a save, a tick a tick, every other step changes nothing.  So
\* what is proved of AuthzStore holds of the file on the disk.
THEOREM ProcessImplementsStore == OneWriter => (Spec => ImplementsStore)
<1>. SUFFICES ASSUME OneWriter PROVE Spec => ImplementsStore
  OBVIOUS
<1>1. Init => WriterInv /\ Store!Init
  <2>1. Store!EmptyFile = EmptyFile
    BY DEF Store!EmptyFile, EmptyFile
  <2>2. QED
    BY <2>1, WriterInit DEF Init, Store!Init, FileOf
<1>2. WriterInv /\ [Next]_vars => WriterInv'
  BY WriterStep
<1>3. WriterInv /\ [Next]_vars => [Store!Next]_(Store!vars)
  <2>. SUFFICES ASSUME WriterInv, [Next]_vars PROVE [Store!Next]_(Store!vars)
    OBVIOUS
  <2>1. ASSUME NEW t \in Thread, Rename(t)
        PROVE  Store!Next
    BY <2>1, RenameIsSave
  <2>2. CASE Tick
    BY <2>2 DEF Tick, Store!Next, Store!Tick
  <2>3. CASE disk' = disk /\ now' = now
    BY <2>3 DEF Store!vars
  <2>4. now' = now \/ Tick
    BY DEF Next, Step, Begin, Lock, SystemError, List, Load, Refuse, Open, Write,
           WriteFails, Rename, Kill, vars
  <2>5. Tick \/ (disk' = disk /\ now' = now) \/ \E t \in Thread : Rename(t)
    BY <2>4, OnlyRenameSaves
  <2>6. QED
    BY <2>1, <2>2, <2>3, <2>5
<1>. QED
  BY <1>1, <1>2, <1>3, PTL DEF Spec, Safety, ImplementsStore, Store!Spec
=============================================================================
