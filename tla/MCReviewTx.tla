----------------------------- MODULE MCReviewTx -----------------------------
(* Finite instances of ReviewTx for TLC. *)
EXTENDS ReviewTx, TLC

CONSTANTS i1, i2, t1, t2, r1, r2, r3, isrc

(* Both ingests were submitted for one track_id.                           *)
SharedTrackOf == (i1 :> t1 @@ i2 :> t1)
NoIsrcOf      == (i1 :> NoIsrc @@ i2 :> NoIsrc @@ t1 :> NoIsrc)

(* Two ingests of different tracks that carry one isrc; the seed knows no  *)
(* isrc.                                                                   *)
TwoTrackOf    == (i1 :> t1 @@ i2 :> t2)
SharedIsrcOf  == (i1 :> isrc @@ i2 :> isrc @@ t1 :> NoIsrc @@ t2 :> NoIsrc)

RequestSymmetry == Permutations(Requests)
=============================================================================
