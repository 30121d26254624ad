---------------------------- MODULE MCEvaluator ----------------------------
(***************************************************************************)
(* Evaluator on files of up to three grants: a root, a second grant that   *)
(* is a root or is derived from any grant of the file, and a third one     *)
(* derived from a grant of the file.  The generator does not look at the   *)
(* rules of ValidGrantSet, so sets with a broader child, a missing parent  *)
(* or a cycle of parents are among the inputs.                             *)
(***************************************************************************)
EXTENDS Evaluator

Perm(action, id) == [action |-> action, type |-> "issue", id |-> id]

MCGrant(id, link, grantee, perm, task, window, revoked) ==
  [id |-> id, subject |-> "human", issuer |-> link[2], grantee |-> grantee,
   app |-> "tracker", perms |-> {perm}, task |-> task,
   notBefore |-> window[1], expiresAt |-> window[2], revokedAt |-> revoked,
   parent |-> link[1], createdAt |-> 0]

Broad  == Perm("read", AllResources)
Narrow == Perm("read", "r1")
Other  == Perm("write", "r1")

Root   == <<NoGrant, "human">>   \* links: parent id and issuer

Firsts ==
  {MCGrant(1, link, "a1", perm, task, w, NoTime) :
     link \in {Root, <<3, "a1">>},
     perm \in {Broad, Narrow}, task \in {NoTask, "t1"}, w \in {<<0, 2>>, <<1, 3>>}}

Seconds ==
  {MCGrant(2, link, grantee, perm, task, <<1, 2>>, revoked) :
     link \in {Root, <<NoGrant, "a1">>, <<1, "a1">>, <<3, "a1">>}, grantee \in {"a1", "a2"},
     perm \in {Narrow, Other}, task \in {NoTask, "t1"}, revoked \in {NoTime, 1}}

Thirds ==
  {MCGrant(3, <<p, "a1">>, grantee, Narrow, "t1", w, revoked) :
     p \in {1, 2}, grantee \in {"a1", "a2"},
     w \in {<<1, 2>>, <<0, 2>>}, revoked \in {NoTime, 1}}

GrantSets ==
  {{f} : f \in Firsts} \cup {{f, s} : f \in Firsts, s \in Seconds}
  \cup {{f, s, t} : f \in Firsts, s \in Seconds, t \in Thirds}

Requests ==
  {[actor |-> actor, subject |-> "human", app |-> "tracker", action |-> "read",
    type |-> "issue", id |-> id, task |-> task] :
     actor \in {"a1", "a2"}, id \in {"r1", "r2"}, task \in {NoTask, "t1"}}

MCInputs == [grants : GrantSets, request : Requests, now : {1, 2}]
=============================================================================
