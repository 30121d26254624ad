----------------------------- MODULE CommandLine ----------------------------
(***************************************************************************)
(* What a command promises its caller.  A command changes one registry, at *)
(* one instant between its call and its answer, or not at all.  When it    *)
(* reports success it has changed it; when it reports an error it has not, *)
(* with one exception: "delegate create" looks at --format last, and with  *)
(* an unknown one it fails after the delegation was saved.  A command that *)
(* dies may have done either.                                              *)
(*                                                                         *)
(* There is one process per registry: the operator does not run two        *)
(* commands on one registry at the same time.                              *)
(***************************************************************************)
EXTENDS Commands

CONSTANT NoCommand

VARIABLES
  directory,  \* the entries of each registry
  status,     \* of the command on each registry: "idle", "running" or "applied"
  run,        \* the command
  answer      \* of the command that ended last: "ok", "failed" or "none"

vars == <<directory, status, run, answer>>

Init ==
  /\ directory = [r \in Registry |-> {}]
  /\ status = [r \in Registry |-> "idle"]
  /\ run = [r \in Registry |-> NoCommand]
  /\ answer = "none"

Begin(r) ==
  /\ status[r] = "idle"
  /\ status' = [status EXCEPT ![r] = "running"]
  /\ \E c \in Command : c.registry = r /\ run' = [run EXCEPT ![r] = c]
  /\ UNCHANGED <<directory, answer>>

Apply(r) ==
  /\ status[r] = "running"
  /\ Accepts(run[r], directory[r])
  /\ status' = [status EXCEPT ![r] = "applied"]
  /\ directory' = [directory EXCEPT ![r] = Result(run[r], @)]
  /\ UNCHANGED <<run, answer>>

Finish(r, a) ==
  /\ status' = [status EXCEPT ![r] = "idle"]
  /\ run' = [run EXCEPT ![r] = NoCommand]
  /\ answer' = a
  /\ UNCHANGED directory

Succeed(r) == status[r] = "applied" /\ Finish(r, "ok")

Fail(r) ==
  /\ \/ status[r] = "running"
     \/ status[r] = "applied" /\ run[r].verb = "create"
  /\ Finish(r, "failed")

Die(r) == status[r] # "idle" /\ Finish(r, "none")

Next == \E r \in Registry : Begin(r) \/ Apply(r) \/ Succeed(r) \/ Fail(r) \/ Die(r)

Spec == Init /\ [][Next]_vars
=============================================================================
