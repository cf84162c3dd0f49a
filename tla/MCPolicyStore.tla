---------------------------- MODULE MCPolicyStore ---------------------------
(* Finite instances of PolicyStore for TLC. *)
EXTENDS PolicyStore, TLC

CONSTANTS p1, p2, p3, c1, c2, c2b, c3, d0, d1, ra, rb

(* Rule ra gets versions 1, 2 and 3, the second from two commands; rule rb *)
(* gets version 1, and version 0, which is never newer than no version.    *)
MCRuleOf    == (c1 :> ra @@ c2 :> ra @@ c2b :> ra @@ c3 :> ra @@ d0 :> rb @@ d1 :> rb)
MCVersionOf == (c1 :> 1 @@ c2 :> 2 @@ c2b :> 2 @@ c3 :> 3 @@ d0 :> 0 @@ d1 :> 1)

PushSymmetry == Permutations(Pushes)
=============================================================================
