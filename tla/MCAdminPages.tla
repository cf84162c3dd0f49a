---------------------------- MODULE MCAdminPages ----------------------------
(* A finite instance of AdminPages for TLC: one ingest. *)
EXTENDS AdminPages, TLC

CONSTANTS i1, t1, r1, r2, r3, s1, s2

OneTrackOf == i1 :> t1
NoIsrcOf   == (i1 :> NoIsrc @@ t1 :> NoIsrc)
Clock      == 0 .. 1

PageSymmetry == Permutations(Requests) \cup Permutations(Sids)
=============================================================================
