------------------------------ MODULE MCSignOn ------------------------------
(***************************************************************************)
(* SignOn with two demo applications and an external client, two login     *)
(* attempts, two codes and two handlers.                                   *)
(***************************************************************************)
EXTENDS SignOn, TLC

CONSTANTS a, b, external, l1, l2, c1, c2, h1, h2

Demos == {a, b}
Clients == {a, b, external}
Externals == {external}
Logins == {l1, l2}
Codes == {c1, c2}
OneLogin == {l1}
OneCode == {c1}
Handlers == {h1, h2}

Symmetry ==
  Permutations(Demos) \cup Permutations(Logins) \cup Permutations(Codes) \cup Permutations(Handlers)
=============================================================================
