---------------------------- MODULE MCAuditChain ----------------------------
(* Finite instances of AuditChain for TLC. *)
EXTENDS AuditChain, TLC

CONSTANTS app1, app2, e1, e2, e3, e4, e5

EventSymmetry == Permutations(Events)
=============================================================================
