-------------------------- MODULE MCDataDirectory ---------------------------
(***************************************************************************)
(* DataDirectory with one id of each kind, three commands, and two keys,   *)
(* so that two processes can make one at the same time.                    *)
(***************************************************************************)
EXTENDS DataDirectory, TLC

CONSTANTS k1, k2

Keys == {k1, k2}
Symmetry == Permutations(Keys)
=============================================================================
